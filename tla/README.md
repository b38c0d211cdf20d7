# A verification of the TRPG character backend

This directory specifies the backend of a tabletop role-playing campaign, a
FastAPI application over one SQLite file, together with its deployment and the
synchronization of its API contract, in TLA+. The specifications are translated
from `src`, model-checked with TLC on small instances, and, where it matters most,
proved for every instance with TLAPS.

The program has no locks and no threads of its own. All its difficulty lies in
what other requests commit between two `await`s of a handler, in what SQLAlchemy
keeps in an identity map meanwhile, in what SQLite does and does not enforce, and,
outside the handlers, in scripts that may stop after any of their commands.
That is what the models are about; values that no decision depends on (names,
texts, statistics of a character) are members of small sets.

## 1. The system

### 1.1 Parts

| Part | Source | State it keeps | Operations that change it |
| --- | --- | --- | --- |
| Hearthstomancer decks | `app/routers/hearthstone.py` | one deck row per character (enabled, revision, undo pointer), card definitions, card copies | status, add a card, open and add a pack, replace, draw, discard, play, undo, remove, reset, clear |
| Character inventory | `app/routers/characters.py` | categories of a character, items of a category, sort orders | create, patch, reorder and delete, for categories and items |
| Characters and notes | `app/routers/characters.py` | characters, note tabs, sort orders | create a character, patch its sheet, create, patch, reorder and delete notes |
| Teams and visibility | `app/routers/teams.py`, `app/routers/characters.py` | teams, memberships, owners, slugs | create and patch a team, add and remove a member, rename a character or give it away |
| Accounts | `app/routers/accounts.py`, `app/routers/auth.py` | users and their roles | register the initial account, create accounts, change a role |
| Sessions and tokens | `app/routers/auth.py`, `app/auth.py` | refresh tokens, failed attempts (in the process), the cookie of each browser | login, refresh, logout |
| Inventions | `app/routers/inventions.py` | the catalogue of inventions, the switch and the current draw of each character | add, remove, switch, draw |
| Migrations | `app/migrations.py`, `app/main.py` | the schema, the ledger `schema_migrations` | run at every start |
| Deployment | `deploy.sh`, `docker-compose.yml` | the running container | back up, replace, wait for health |
| Backups | `app/sqlite_backup.py`, `app/db_snapshot.py` | copies of the file | copy, upload |
| Contract | `scripts/sync_frontend_contract.py`, `.github/workflows/api-contract.yml` | branches and pull requests of another repository | open one pull request per contract |
| Card catalogue and packs | `app/hearthstone_catalog.py` | a read-only file | search, sample a pack |
| Portraits and storage | `app/routers/portraits.py`, `app/storage` | none | presign an upload |

### 1.2 How they interact

The routers call nothing of each other: they share the tables. `require_current_user`
loads the user of a request before its handler runs, in the handler's own database
session. `get_character_or_404` and `require_character_write` guard inventory, notes
and decks by the owner of a character, and `can_view_character` the reading of it by the
owner and the teams. `open_card_pack` takes its cards from the catalogue; adding them is
a request of its own. The application's lifespan runs the migrations before the first
request and uploads a snapshot after the last. A deployment makes a backup, replaces the
container, and so causes that upload and the next run of the migrations. The contract job
reads two remote repositories and shares nothing with the application.

### 1.3 What is hard

* A handler reads in several SELECTs. `load_deck` makes three: the row, the definitions,
  the copies. Other requests commit between any two of them.
* It decides on what it has read and writes later. Only the deck (a revision in the WHERE
  clause) and the draw of inventions (a write before the read) protect themselves.
* Ids are used again: the tables have no AUTOINCREMENT, so the next id is one more than the
  highest. A request that remembers an id can meet another row under it.
* The foreign keys are declared with ON DELETE actions and never enforced
  (no `PRAGMA foreign_keys`), so a cascade is what the ORM does with the rows it has loaded.
* Failed attempts are counted before the password is looked at and recorded after it; they
  live in the process and are gone with it, while the tokens stay.
* A reply may be lost after its commit: the browser then presents a token that is replaced.
* DDL is not covered by the transaction it seems to be in, and a start can be cut short.
* The old release serves, and commits, until it is replaced; the script that backs it up and
  replaces it may end after any of its commands, and is run again.
* The contract job asks one question after the other and acts on the answers; it may fail
  between pushing a branch and opening its pull request, and people work on both meanwhile.

### 1.4 The semantics the modules of the application share

* A SELECT sees the last committed state and leaves no transaction behind: pysqlite opens
  one at the first INSERT, UPDATE or DELETE only. Each SELECT is one action.
* From its first write to its commit a transaction holds SQLite's only write lock, so that
  writes and commit are one action. Where a handler awaits between its first write and the
  rest on purpose (`draw_inventions`), the lock is a variable.
* The identity map: an object loaded once keeps the attributes it was loaded with, also when
  a later SELECT of the same session returns the row again. At a flush the ORM writes the
  attributes that differ from the loaded ones and no others, and it fails the transaction
  when a row to update is gone (StaleDataError). `Save`, `Flushed`, `Merge` and `Written`
  are this rule.
* UNIQUE constraints and primary keys hold at every write; an action that would break one is
  not enabled, and the request takes `Fail` (or `Close`) instead.
* `Fail` is the whole family of endings without a commit: an error answer, a conflict, a lock
  timeout, a lost client, the end of the process. It may happen at every point of a request.

## 2. The modules

| Module | Models | Lives with |
| --- | --- | --- |
| `Deck` | the deck of one character, all handlers | `MCDeck`, `DeckProofs` |
| `DeckLedger` | what the player is promised of it | refined by `Deck` |
| `Packs` | the choice of a pack, and what a pack is promised to be | evaluated with `MCDeck` |
| `Inventory` | categories and items of all characters | `MCInventory`, `InventoryProofs` |
| `InventoryBook` | an inventory as pages of names and things | refined by `Inventory` |
| `Notes` | characters and their note tabs | `MCNotes`, `NotesProofs` |
| `NoteBook` | the notes as title and text | refined by `Notes` |
| `Teams` | members, owners and slugs: who sees, who writes | `MCTeams`, `TeamsProofs` |
| `Accounts` | users, roles, registration | `MCAccounts`, `AccountsProofs` |
| `Logins` | attempts, refresh tokens, cookies, lost replies, time | `LoginsProofs` |
| `Inventions` | the catalogue and the draw, with the write lock | `InventionsProofs` |
| `Migrations` | the fourteen migrations, crashes and restarts | extended by `Deploy`, `ReleaseProofs` |
| `Deploy` | the script, the two containers and the copies around a start | `ReleaseProofs` |
| `ContractSync` | the job, the workflow, the remote repositories, their people | `ReleaseProofs` |

The `MC` modules only add what TLC needs: symmetry sets and the choice of `Targets`. The
refinement mappings stand at the end of the modules they map from. The operators whose comment begins with "Mutant" are not part of the
specifications: each is a plausible error in the operator that follows it, and shows that
a property notices it.

### 2.1 Deck and Packs

`deck`, `defs` and `copies` are the three tables; `pc`, `view` and `target` are a session's
progress, its identity map, and the copy it has selected. `LoadRow`, `LoadDefinitions` and
`LoadCopies` are the SELECTs of `load_deck`, and the handlers are the actions after them.
`claim_revision` is the guard that the row still has the revision that was loaded and is
enabled. `set_hearthstomancer_status` (`SetStatus`), and `undo_last_play` where it clears a
pointer whose copy is gone or no longer destroyed (`ClearUndo`), write without that guard.
The status handler writes the revision it has loaded plus one, whatever was committed since. That
breaks the lock of all others (3.1), so `SetStatus` distinguishes the administrators: those in
`Overwriters` run the handler as it is, the others complete it only if the row still has the
revision they have loaded, and fail otherwise.

What must be right: a mutation acts on the deck as it is (`ImplementsLedger`: each committed
request is one step of a ledger that knows only how many cards of each kind are where);
the undo pointer never designates a copy of another play although ids are reused
(`UndoIsDestroyedNormal`); golden cards are never destroyed; a copy has a shuffle key exactly
while it is in the pile (`KeyedIffInDeck`), since NULL sorts first; a definition goes exactly
with its last copy (`NoOrphans`); a request that takes a revision leaves no earlier play behind
(`PlaysFinalized`); and a disabled deck is read-only, also for the requests that were let through
before it was disabled (`FrozenWhileDisabled`).

The mapping to the ledger counts the rows of each kind in the pile and in the hand. What the
ledger calls undoable is not simply the copy under the undo pointer: `undo_last_play` clears a
pointer without a claim (`ClearUndo`), also the pointer of a play it has not loaded, and
another request that has found that pointer before can still claim the revision and take the
play back. So `Undoable` is the copy of any of the `Pointers`: that of the row, and those of the
requests that can still claim. That there is at most one is part of the invariant of the proof.
When the last of them is gone the ledger's `Switch` says that the play can no longer be taken back.

`Packs` is `weighted_pack_sample` as a function: from how many cards of each rarity a set
has, to the packs that may come out. A random choice is any of the rarities with cards left
and a positive weight. Its two ASSUMEs, which TLC evaluates with each run of `MCDeck`, say
that the packs of five that may come out are exactly those with a card that is rare or better
if the set has one (`PacksAsPromised`), and that the ordinary slots give out what the
guaranteed one leaves of the targets (`SharesAsTargeted`).

### 2.2 Inventory

`categories` and `items` are tables over all characters, which share the ids. `Targets` gives
the characters a session's user may write. An item's name, quantity and notes are one
`Thing`, since nothing reads them back. Deleting a category deletes what the identity map
holds of its items. Properties: no item without a category (`NoOrphanItems`), nothing reaches
another player's character through a reused id (`OwnInventoryOnly`), a created row comes last
(`CreatedLast`), and `ImplementsBook`: each request is one change of one page.

### 2.3 Notes

The sheet shows one text, the character has many tabs: `FirstTab` is `sort_note_tabs`,
`Shown` is `first_note_content`. `create_character` inserts the character and its first tab
in one transaction. Properties: a PATCH of the sheet's text changes the text displayed, if the tabs
are still the loaded ones in the loaded order, whatever was written to them since
(`NotesPatchVisible`), and `ImplementsBook`. That each character has a note (`HasNote`) holds only
for a character that one session writes at a time (3.2), and is proved for that.

### 2.4 Teams

What a request decides on are facts: a character is in a team, has an owner, has a slug.
`Facts` are those of the database, `view[s].facts` those a session has loaded, and `changed[s]`
is history: the facts its decision depends on that others have changed since it began. `LoadTeam` and
`LoadMember`, `LoadCharacter` and `LoadTeams` are the SELECTs; `RequireTeamVisible` and
`RequireCharacterVisible` decide with one more, on what was loaded and what is there now;
`PatchCharacter` writes what differs from the loaded row; `Reload` is the lookup by the new slug
after the commit. `ListTeams` and `ListCharacters` answer a page of what is visible (`Pages`): by the
client's limit and offset any of it may be missing, unless the page starts at the first row and is
not full (`partial` is then false).

No such decision is about one moment, so the properties say what can be said: whatever is shown
or written was allowed by facts each of which was true at some moment of the request (`Ever`,
`ShownWasVisible`, `WrittenByOwner`); whatever is withheld was not allowed by the facts true
throughout it (`HiddenWasInvisible`; of a listing, by a page that begins at the first row and is
not full); adding and removing a member answers what has been so,
also when nothing was left to write (`AnsweredMembership`); and a PATCH answers with the
character it has written unless it is renamed again (`PatchedIsAnswered`).

### 2.5 Accounts and Logins

In `Accounts`, `CountAdmins` and `Demote` are two actions, since `update_account` counts,
awaits and then writes; so are `CountUsers` and `Register`. `Demoters` are the sessions that take
the role away, so that the runs can separate what holds with one of them from what does not with two.

`Logins` keeps the failed attempts by age, the rows of `refresh_tokens`, and the cookie of each
browser. `CheckLimit`, `WrongPassword` or `RightPassword`, and `IssueTokenPair` are the steps of
a login; `FindToken` and `Rotate` those of a refresh; `FindLogout` and `Logout` those of a logout.
`Deliver` sets the cookie, `Fail` loses the reply (the commit stays), `Restart` forgets the attempts
and the requests, `Tick` is time. A browser that sends a request while it waits for another enters
`overlap`. The properties say what holds with and without that: of one login's tokens at most one
can be used while the browser waits for its replies (`OneLive`); the limit is passed by what is in
flight at most (`LimitHolds`); a lockout ends although the browser goes on trying (`LockoutEnds`).

### 2.6 Inventions

`writer` is the session holding SQLite's write lock. `ClaimDraw` is the UPDATE that changes
nothing and takes it, `PickItems` reads the catalogue under it, `ReplaceDraw` commits. The
other handlers read without it and need it free to commit. The draw is a sequence without
repetitions. `DrawsKept`: what a draw refers to is never deleted. `DrawnWhileActive` is the promise of the comment above the UPDATE; `LockReleased`
is that no ending of a draw keeps the lock.

### 2.7 Migrations and Deploy

A migration is a sequence of statements over the columns, the tables, the slug index, the
default tabs and the imported inventions. `open` says whether pysqlite has opened the
transaction: before it does, each DDL statement commits by itself. `Init` covers an empty
database, one made by the upgrade scripts, and the state each earlier release left, with or
without duplicate slugs. A statement that fails aborts the start; `Repair` is the operator
renaming a character whose slug is taken.

`Deploy` puts the script around it. `Begin` finds whether a container runs; `Backup` and
`Snapshot` are one read transaction each; `Stop` and `Create` are the two halves of docker
compose replacing a container, with the old application's upload between (`Shutdown`); `Healthy`
and `Reachable` are the two checks; `Fail` and `Unhealthy` end the script, and `Begin` may run it
again. `OldWork` is the old release creating characters until it is stopped. `late` is history:
the characters created since the last copy. A failed start must not be reported as a
success (`SuccessIsUpToDate`), and no new release may meet a database without a copy
(`BackedUp`).

### 2.8 ContractSync

A contract stands for its digest. `checks`, `pending` and `job` are the workflow: the jobs that
build the contract, the one that waits for the concurrency group, and the one that is in it.
`Changed`, `FindPr`, `FindBranch`, `PushBranch` and `CreatePr` are the questions and commands of
`sync_frontend` in their order, with `Restore` for a contract that was merged earlier and comes
back. `JobFails` ends a job at any of them. `Merge`, `ClosePr`, `Reopen`, `Adapt` and `DeleteBranch`
are people.

## 3. The runs

| Run | Question | What it shows |
| --- | --- | --- |
| `deck_owners` | two requests of owner and administrators, interleaved anywhere, on one card, golden or not | every committed request is one step of the ledger; the pointers, keys and definitions stay right; a disabled deck is frozen; plays become final |
| `deck_disabled` | the same, with the status written over other commits | refuted: see 3.1 |
| `inventory_owners` | two players, a character each, shared ids | no orphans, nothing reaches the other character, created rows are last, each request is one change |
| `notes_shared` | two requests on one character | every request is one change of one note; a PATCH is displayed |
| `teams` | two requests of players and the administrator | what is shown, hidden, written and answered fits facts of the time of the request |
| `accounts_serial` | three sessions, one of which demotes | an administrator remains |
| `accounts_last_admin` | two demoters | refuted: see 3.1 |
| `accounts_initial` | two registrations | refuted: see 3.1 |
| `logins` | one browser, two requests in flight, restarts, lost replies, time | one usable token per login, the limit, the end of a lockout |
| `inventions_draw` | all handlers of two sessions, with fairness | a draw is active and enabled when committed; rows draws refer to stay; each draw gives the lock up |
| `deploy` | all starting databases, two runs of the script, three crashes, with fairness | the ledger tells the truth, nothing is inserted twice, a success is reported on an up-to-date database only, each new release finds a copy made, and without duplicate slugs it comes to serve |
| `contract_sync` | two revisions, two failures, people, with fairness | one pull request per branch, adapted branches untouched, the contract of master comes to be proposed |

### 3.1 Where code and documentation differ

Three runs are refuted by TLC. Each checks what the repository says of the program, and has a finding
in `PROJECT.json` that quotes the text.

* `accounts_last_admin` (`SomeAdmin`, `app/routers/accounts.py:97`): the last administrator is
  protected by a count that is taken before the write. Two demotions of different administrators
  that both count two leave none.
* `accounts_initial` (`InitialOnce`, `app/routers/auth.py:137`): the initial registration counts the
  users before it inserts one. Two under different names that both count none both succeed.
* `deck_disabled` (`FrozenWhileDisabled`, `app/routers/hearthstone.py:315`): the status handler writes
  the loaded revision plus one over what was committed meanwhile, so a revision is used twice. A
  request that has loaded the deck when the revision was first used, and enabled, claims it the
  second time and changes the cards of the deck that has been disabled.

### 3.2 What does not hold when requests meet

Some properties hold only as long as certain requests do not interleave. The constants of the
passing runs exclude what follows, and the theorems name it as their assumption; without the
restriction TLC finds a counterexample.

* `SomeAdmin` with two `Demoters`, and `InitialOnce` with two registrations: runs of their own (3.1).
* `FrozenWhileDisabled` with `Overwriters`: a run of its own (3.1). The other properties of `Deck` and
  its refinement rest on the same restriction: once a revision stands for two states of the deck, a
  claim no longer says that what was loaded is what is there.
* `HasNote` with `SharedTargets` (as an invariant of `notes_shared`): the count before a deletion
  protects the last note of a character, and two deletions that both count two leave none.
* `NoOrphanItems` with `SharedTargets` and somebody in `Deleters`: a category is deleted with
  the items the request has loaded. An item created since then stays without a category, for
  nothing enforces the foreign key. The refinement of `InventoryBook` fails with it: the item appears in
  the next category that gets the id.
* `CreatedLast` with `SharedTargets`: two creations that read the highest sort order before either
  writes give both rows the same one, and only their ids decide which is last.
* `OwnInventoryOnly`, when one session may write a second character besides the shared one, as an
  administrator's may: the player's request loads a category to reorder it, the administrator deletes
  that category and creates one on the other character, which gets its id, and the reordering
  writes to that row. A request on a note meets a note of another character in the same way.

### 3.3 Bounds, and why they are enough

* Two sessions: each hazard listed is between a request and one that commits while it waits,
  and a session serves one request after the other, so that any number of requests follow
  each other. `accounts_serial` and `accounts_last_admin` have three sessions, so that a creation,
  a demotion and a promotion overlap.
* Characters: two, one per player, where a reused id could cross from one to the other, or a
  team relates them; one where the requests meet on the same rows.
* Row ids go up to 2 or 3 (`MaxCopies`, `MaxCategories`, `MaxItems`, `MaxNotes`): enough for
  rows to be deleted and their ids to be used again, which two rows suffice for. Between the reads
  and the write of one request this happens where sessions share rows, in `deck_owners` and
  `notes_shared`; with a character per player (`inventory_owners`) an id that a request remembers
  is not given up meanwhile, and ids are reused from one request to the next and across characters.
* `MaxRevision`: six claims in both runs of `Deck`. A stale claim needs one intervening revision
  and taking a revision back two; a pointer that is cleared under another request, which
  takes the play back all the same, needs six (a copy is added, drawn, played, taken back while
  the clearing request loads the deck, played again, and taken back). For that depth the runs have a
  single card, golden or normal, two copies and packs of one. The theorems of 4.1 say the same for
  any number.
* `Things` in `inventory_owners`: two, so that an item may be changed to another and back.
* `MaxOrder` is 1: sort orders are compared and incremented, and ties (decided by id) occur.
* `Teams`: one player besides the administrator, one team, and one slug more than characters,
  so that a slug can be given away and taken. `MaxChanges` 2 bounds the relevant facts that change
  during one request: a visibility check rests on two facts, and a swap of members or owners
  changes two.
* `Logins`: two attempts within two ticks, so that one attempt may expire before the other;
  `Lifetime` 1, since a token is usable or not; `MaxTokens` 3, a login and two rotations, or two
  logins and a rotation.
* `Deploy`: `MaxCrashes` is three. A crash matters by the statement it hits, and each of the
  three may hit any; the third can hit the repetition of a repetition. `MaxDeploys` 2: the second
  run starts from whatever the first has left, and a third would start from the same.
* `ContractSync`: two contracts, two revisions, so that the second either proposes another
  contract or the same; `MaxFailures` 2 includes a failure of the job that repeats a failed one.
* `Packs`: a set has 0, 1, 4 or 5 cards of each rarity, so that the pack may exhaust a rarity, be
  short by one, or take all its cards from it.
* `Targets` is a character per player in `inventory_owners` (the players' sessions of different
  characters), and the same character for both sessions in `notes_shared` (two tabs of one player, or
  player and administrator). `Deleters`, `Demoters` and `Overwriters` name who performs the
  operations that are known to interleave badly: each passing run says what holds without
  that interleaving, 3.1 and 3.2 what does not with it.
* Deadlock is checked where every session can always begin another request or time goes on
  (`accounts_serial`, `contract_sync`, `inventions_draw`, `logins`, `teams`).
  Elsewhere the bounds on ids, revisions, deployments and crashes, or the last administrator's
  demotion, end a behaviour, and the cfg says so.

### 3.4 Fairness

Four runs check liveness, each under the least that the environment gives.

* `inventions_draw` assumes weak fairness of each session's `Proceed`: the event loop resumes a
  coroutine whose statement has been executed, and a session that holds the lock waits for
  nobody. No fairness is assumed for beginning a request, nor for `Fail`.
* `logins` assumes weak fairness of `Tick`: time passes. What requests do, and whether, is free.
* `deploy` assumes weak fairness of `NewUpgrade`, the whole of starting and going on in the new
  container: it is restarted when its process ends (`restart: unless-stopped`), and a running
  process continues. Nothing is assumed of the script. Crashes are bounded, since a process that
  dies at every start never serves.
* `contract_sync` (`FairSyncSpec`) assumes weak fairness of the steps of a job (`JobStep`), of `Arrive` and `StartJob`,
  which are GitHub's scheduling, and of `Dispatch`: without it nothing is retried, for the
  workflow has no retry of its own and a failed job is run again by hand
  (`workflow_dispatch`) or by the next push. Failures are bounded.

## 4. The proofs

TLAPS checks all theorems below for every value of the constants that satisfies the named
assumptions, so in particular for any number of sessions and rows.

### 4.1 DeckProofs

`TypeCorrect` assumes nothing about the sessions. All other theorems assume `Overwriters = {}`: any number of
requests and administrators, none of whom changes the status over another commit (3.1 says what
happens otherwise). `ClaimedMutations` is the inductive invariant. Its core is
`ViewCurrent`: the revision of the row is at least that of each view, and a view with the row's
revision holds, table by table as far as it has been loaded, what is in the database. This stays
true since every change of the cards increments the revision. `TargetCurrent` extends it to the
copy a handler has selected before its claim. The facts about the cards (undo pointer, golden
copies, keys, orphans) are no invariants without these two: a handler that writes what it has
loaded keeps them only if what it has loaded is what is there; and they in turn give the handlers
the rows they expect. A change of the status that goes over no commit raises the revision like any other, and
so takes the claim from every request in flight (`StatusFresh`). From the conjunction follow
`OptimisticLock` (`ViewCurrent`, `TargetCurrent`), `UndoPointer`, `GoldenCards`,
`DefinitionsAndCopies` (`NoOrphans`, `KeyedIffInDeck`) and `DisabledDeckIsFrozen`
(`FrozenWhileDisabled`): a mutation that can claim has loaded an enabled deck, which is then the one
there is.

`DeckImplementsLedger` (`ImplementsLedger`) is the refinement. It rests
on the invariant and on `PlayHeld`: all `Pointers` are the same, the copy
there is destroyed, and a request that is to take a play back has selected the copy its loaded
row points to. `PlayHeld` is stable because a request that has not committed can only lose a
pointer (`PointersLost`), and because a commit raises the revision, after which the committed
pointer is the only one left (`CommitLedger`). The lemmas on `Count` say what one row more, one
row less, a pack and a reset do to the counts; `MutateLedger` has one case per handler. A clearing without
a claim is the ledger's `Switch`, which may lose the play, or no step at all if another request
still holds the pointer. `PlaysAreFinal` (`PlaysFinalized`) uses `PlayHeld` too: what a
handler finalizes is the play its loaded row points to, also when the pointer has been cleared
under it.

### 4.2 InventoryProofs and NotesProofs

Each has two inductive invariants. The first, `SharedInv` (`SharedInventories`,
`SharedCharacters`), assumes nothing about who writes what. It is the types, the uniqueness of names and
titles, that a note's character exists, and that a request that addresses a row has chosen
one (`Single`). From it follow `TypeCorrect` and, for the notes,
`NotesImplementBook` (`ImplementsBook`): a commit writes, inserts or deletes one row, whatever was
read before, so the book changes by one entry or not at all. That the book shows no two entries
for one note rests on the UNIQUE constraint, not on what the requests have read.

The second (`ReadsHold`) assumes `OneWriter`: no two sessions write the same character, which is
a character per player as in `inventory_owners`, for any number of them; 3.2 says what happens otherwise.
What a request has read and will write by is still there (`Holds`), although the other sessions
insert and delete rows in the same tables. It is stable because a write is confined to the
characters its session may write (`Confined`), and a fresh id is none that is in use, in
particular none that a request remembers.

For the inventory, `Holds` says that the categories a request has loaded exist and are its own,
that the items in its identity map are exactly those of the category to be deleted, and that the
next sort order it has computed is above those it computed it from. The theorems need less than that:
if no two sessions share a character, or if nobody deletes categories (`Deleters = {}`), a
request that writes finds the categories it has loaded, and all the items of one it is to delete
(`ReadyToWrite`); hence `NoOrphans` (`NoOrphanItems`) and the refinement
`InventoryImplementsBook` (`ImplementsBook`). Without that condition an item may be
left without its category, and be found in the next one that gets its id (3.2).

For the notes, `Holds` says that the tabs a PATCH has loaded are the tabs of its character, and
that a request that has counted leaves another tab. `KeepsNote` (`HasNote`) follows, under
`OneWriter`, which excludes two deletions that count together.

`PatchVisible` (`NotesPatchVisible`) needs no such assumption and follows from `SharedInv`: whoever
writes the character besides, a PATCH that finds the tabs in the order it has loaded writes the one
displayed. It needs that exactly one tab comes first and stays first under the PATCH
(`FirstTabShown`), or that the default tab is inserted where there is none (`DefaultTabShown`); the
former rests on the least element of a finite set of orders, by well-founded induction of the
library (`Least`, and its mirror image `Greatest` for the order a created row gets).

### 4.3 TeamsProofs

Nothing is assumed besides that users, teams and slugs are of different kinds; a listing may be any
page. The invariant
(`LoadedAndComplete`): what a request has loaded was so at some moment of it (`Loaded`), what it
has asked for and not found was not so throughout (`Complete`), a checked slug is the loaded or
the requested one, and a patched character has it unless it was renamed. Steps of other requests keep all this because each
relevant fact they change enters `changed` (`Keeps`), so that `Ever` only grows and `Throughout`
only shrinks. `ShownVisible`, `HiddenInvisible`, `OwnersWrite`, `MembershipAnswered`,
`PatchAnswered` and `TypeCorrect` follow.

### 4.4 AccountsProofs and LoginsProofs

`SomeAdministrator` assumes at most one demoter (`accounts_last_admin` has two) and finitely many usernames. Its invariant:
a session that has counted and is about to demote leaves an administrator besides the one it
has loaded (`Counted`), and a session past its authorisation shows that there are accounts (`Base`). It is stable since only the demoter takes the role away and nothing deletes
users. `TypeCorrect` assumes nothing.

`Rotation` (`OneLive`) assumes nothing about the sessions. A request of a browser that has never
overlapped has the token of that browser (`Owned`), tokens of one login belong to one browser
(`Families`), such a browser has one request (`Alone`), and the token that request has found is
still usable (`Current`): so that the rotation replaces the only usable token of its login.
`Limit` (`LimitHolds`) assumes finitely many sessions; the attempts and the requests that are
counting form a sum that no step but the check raises.

### 4.5 InventionsProofs

`DrawsHoldLock` is the inductive invariant: the sessions that have claimed are exactly the
holder of the lock, and what such a session has found (the switch of its character, its picks
among the active inventions) is still so, because every other commit needs the lock free.
`DrawsAreActive` (`DrawnWhileActive`), `DrawsStay` (`DrawsKept`) and `TypeCorrect` follow. Nothing
is assumed besides a positive size of a draw and that nobody is not a session.

### 4.6 ReleaseProofs

About the contract job nothing is assumed. `SyncInvariant` says of every branch that it has had at
most one pull request, that jobs are about revisions of master that exist (`Known`), and that what
the running job has been answered is still so when it acts on it
(`Asked`): a branch found missing is missing, and a head found without a pull request has none.
Only the job opens pull requests and pushes branches, and only one job runs, so that nobody
falsifies its answers in the dangerous direction. `HeadsHaveOnePr` (`OnePrPerHead`),
`AdaptationsStay` (`AdaptationsKept`) and `SyncTypesCorrect` follow.

`DeployInvariant` joins the database and the script. Its first part (`UpgradeInv`) is what makes
`LedgerTruthful` inductive: while the migrations run, the connection's ledger is a prefix of
the versions, each statement before the current one has been made in the connection's
state (`Made`), and a connection without an open transaction sees what is committed; so what a
crash leaves on disk has no ledger entry of which a statement is missing. Default
tabs are single on disk and in the connection (`OneTab`). Its second part (`CopiesInv`)
says of a script before the new container exists that nothing migrates, that every copy
is of the schema on disk, and that the copies hold all characters but those created since the last one.
`LedgerIsTruthful`, `TabsAreSingle` (`OneDefaultTab`), `SuccessMeansUpToDate` (`SuccessIsUpToDate`),
`AlwaysBackedUp` (`BackedUp`) and `DeployTypesCorrect` follow, for any characters and any number
of crashes and deployments.

### 4.7 What is only model-checked

* The liveness properties (`LockReleased`, `LockoutEnds`, `NewComesUp`, `ContractProposed`), which
  are beyond the prover.
* What `Packs` computes, evaluated by its ASSUMEs: folds over data.
* That the restrictions in the theorems' assumptions are needed: 3.2 reports counterexamples
  that TLC finds when they are lifted.

## 5. What is not modelled

* Portraits and storage: object keys and presigned URLs are computed, nothing is written.
* Request and response schemas: no state; the modules take their inputs from what they accept.
* Searching and listing the catalogue: a read-only file.
* The migration rehearsal: it runs the same migrations on a copy and compares.
* Configuration: settings are constants of a run of the program.
* The upgrade scripts' own steps: what they leave is among the initial states of `Migrations`.
* The legacy text column `inventory`, and the plain columns of a character: they are written
  as the last request says (statistics are merged into what was loaded), and no rule relates
  them to anything.
* That an administrator may be demoted while a request it has been authorised for runs: the
  code authorises once, at the start, and nothing says otherwise.
* The order of the listings, and with it which rows are on a page: any page is possible.
* Columns that a migration creates together with their table, and the performance indexes.

## 6. The plan

Done, in this order: `Deck`, then what it promises (`DeckLedger`) and its proofs, because it is the largest
and the only part with a concurrency protocol; the inventory and the notes with their books;
accounts; inventions; migrations; logins; teams; contract synchronization; deployment; packs;
the proofs about notes and inventory; the proofs about deployment, migrations and the contract;
the theorems about shared characters; the refinements of the ledger and of both books.

What is left:

1. What is left of the deck's properties when a change of the status goes over another commit
   (3.1 says what is not): that the damage ends with the requests in flight.
2. An abstract specification of a login's tokens (a chain of which the last link is usable), with
   `Logins` as its implementation.
3. Several players and teams at once in `Teams`, for which two sessions and three facts are
   beyond what a short run covers; the theorems already say it for any number.
