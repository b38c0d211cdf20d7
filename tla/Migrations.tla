----------------------------- MODULE Migrations -----------------------------
(***************************************************************************)
(* Bringing the database up to date at start: src/app/migrations.py, run   *)
(* by the lifespan of src/app/main.py before the application serves.       *)
(*                                                                         *)
(* All migrations run in one engine.begin(), but Python's sqlite3 opens a  *)
(* transaction only at the first INSERT.  Until then every DDL statement   *)
(* commits by itself: a crash leaves the first pending migration done in   *)
(* part and not recorded.  From the first INSERT on, which is a backfill   *)
(* or the ledger's row, the rest is one transaction.                       *)
(*                                                                         *)
(* The database is a record of what the migrations touch: the columns that *)
(* exist, as <<table, column>> with <<table, "">> for the table itself,    *)
(* the index on the slug, the ledger, whether two characters share a slug, *)
(* the default tabs each character has got, and the imported inventions.   *)
(* Indexes created IF NOT EXISTS that nothing depends on are left out.     *)
(***************************************************************************)
EXTENDS Integers, Sequences, Functions, FiniteSetsExt

CONSTANTS
  Characters,  \* characters that may exist
  MaxCrashes   \* bound: crashes and restarts

ASSUME CrashAssumption == MaxCrashes \in Nat

VARIABLES
  disk,     \* what is committed
  conn,     \* what the migrating connection sees
  open,     \* whether its transaction has been opened
  phase,    \* "down", "migrating" or "serving"
  applied,  \* the ledger as read at the start
  at,       \* the migration and the statement that are next
  crashes

vars == <<disk, conn, open, phase, applied, at, crashes>>

-----------------------------------------------------------------------------
(* The statements of the migrations.                                       *)

Statement(op, table, columns) == [op |-> op, table |-> table, columns |-> columns]
Table(t) == Statement("table", t, {""})
TableWith(t, cols) == Statement("table", t, {""} \cup cols)
Column(t, c) == Statement("column", t, {c})
Run(op) == Statement(op, "", {})

initial_schema ==
  <<TableWith("characters", {"background_url", "gold", "notes", "current_hp",
                             "bonus_health"})>>
character_gold == <<Column("characters", "gold")>>
character_notes == <<Column("characters", "notes")>>
character_current_hp == <<Column("characters", "current_hp")>>
unique_character_slug ==
  <<Run("reject_duplicates"), Run("drop_plain_index"), Run("unique_index")>>
character_bonus_health == <<Column("characters", "bonus_health")>>
teams == <<Table("teams"), Table("character_teams")>>
accounts == <<Table("users"), Table("refresh_tokens")>>
custom_inventory_tables ==
  <<Table("inventory_categories"), Table("inventory_contents")>>
character_background_url == <<Column("characters", "background_url")>>
character_note_tabs == <<Table("character_notes"), Run("default_tabs")>>
roles_and_character_ownership ==
  <<Column("users", "role"), Column("characters", "owner_user_id")>>
hearthstomancer_decks ==
  <<Table("character_decks"), Table("deck_card_definitions"),
    Table("deck_card_copies")>>
invengineer_inventions ==
  <<Column("characters", "invengineer_enabled"), Table("inventions"),
    Table("character_inventions"), Run("import_inventions")>>

MIGRATIONS ==
  <<initial_schema, character_gold, character_notes, character_current_hp,
    unique_character_slug, character_bonus_health, teams, accounts,
    custom_inventory_tables, character_background_url, character_note_tabs,
    roles_and_character_ownership, hearthstomancer_decks,
    invengineer_inventions>>

Versions == DOMAIN MIGRATIONS
ColumnsOf(v) == UNION {{<<MIGRATIONS[v][i].table, c>> : c \in MIGRATIONS[v][i].columns}
                       : i \in DOMAIN MIGRATIONS[v]}
AllColumns == UNION {ColumnsOf(v) : v \in Versions}

TypeOK ==
  /\ {disk, conn} \subseteq
       [columns : SUBSET AllColumns, index : {"none", "plain", "unique"},
        ledger : SUBSET Versions, duplicates : BOOLEAN,
        tabs : UNION {[S -> 0 .. 2] : S \in SUBSET Characters},
        inventions : BOOLEAN]
  /\ phase \in {"down", "migrating", "serving"}
  /\ applied \subseteq Versions
  /\ at \in Seq(Nat) /\ Len(at) = 2
  /\ open \in BOOLEAN /\ (~open => conn = disk)
  /\ crashes \in 0 .. MaxCrashes

(* _column_exists, and IF NOT EXISTS.                                      *)
Exists(d, t, c) == <<t, c>> \in d.columns

(* Mutant: a column is added without looking for it.                       *)
FailsOnColumn(st, d) ==
  \/ st.op = "column" /\ \E c \in st.columns : Exists(d, st.table, c)
  \/ st.op = "reject_duplicates" /\ d.duplicates

Fails(st, d) ==
  \/ st.op = "column" /\ ~Exists(d, st.table, "")
  \/ st.op = "reject_duplicates" /\ d.duplicates

(* Mutant: a backfill that does not look for existing tabs.                *)
DefaultTabsAlways(d) == [c \in DOMAIN d.tabs |-> d.tabs[c] + 1]

(* INSERT ... SELECT ... WHERE NOT EXISTS.                                 *)
DefaultTabs(d) == [c \in DOMAIN d.tabs |-> IF d.tabs[c] = 0 THEN 1 ELSE d.tabs[c]]

(* Mutant: CREATE UNIQUE INDEX IF NOT EXISTS finds the plain one.          *)
DropNothing(d) == d

DropPlainIndex(d) == IF d.index = "plain" THEN [d EXCEPT !.index = "none"] ELSE d

Effect(st, d) ==
  CASE st.op = "column" \/ (st.op = "table" /\ ~Exists(d, st.table, "")) ->
         [d EXCEPT !.columns = @ \cup {<<st.table, c>> : c \in st.columns}]
    [] st.op = "drop_plain_index" -> DropPlainIndex(d)
    [] st.op = "unique_index" /\ d.index = "none" -> [d EXCEPT !.index = "unique"]
    [] st.op = "default_tabs" -> [d EXCEPT !.tabs = DefaultTabs(d)]
    [] st.op = "import_inventions" -> [d EXCEPT !.inventions = TRUE]
    [] OTHER -> d

IsInsert(st) == st.op \in {"default_tabs", "import_inventions"}

-----------------------------------------------------------------------------
(* The databases the application has been started on.                      *)

Tabless == UNION {[S -> {0}] : S \in SUBSET Characters}

EmptyDatabase == [columns |-> {}, index |-> "none", ledger |-> {},
                  duplicates |-> FALSE, tabs |-> [c \in {} |-> 0],
                  inventions |-> FALSE]

(* Before the ledger: the table of the first release, and what the first n *)
(* of the upgrade scripts have added to it.                                *)
Scripts == <<2, 3, 4, 5, 6, 7, 8, 11>>
Legacy(n, tabs, duplicates) ==
  [columns |-> {<<"characters", "">>}
                 \cup UNION {ColumnsOf(Scripts[i]) : i \in 1 .. n},
   index |-> IF n >= 4 THEN "unique" ELSE "plain",
   ledger |-> {},
   duplicates |-> n < 4 /\ Cardinality(DOMAIN tabs) > 1 /\ duplicates,
   tabs |-> IF n = 8 THEN [c \in DOMAIN tabs |-> 1] ELSE tabs,
   inventions |-> FALSE]

(* A release with the first n migrations, started on an empty database.    *)
Released(n, tabs, duplicates) ==
  [columns |-> UNION {ColumnsOf(v) : v \in 1 .. n},
   index |-> IF n >= 5 THEN "unique" ELSE "none",
   ledger |-> 1 .. n,
   duplicates |-> n < 5 /\ Cardinality(DOMAIN tabs) > 1 /\ duplicates,
   tabs |-> IF n >= 11 THEN [c \in DOMAIN tabs |-> 1] ELSE tabs,
   inventions |-> n >= 14]

Init ==
  /\ disk \in {EmptyDatabase}
       \cup {Legacy(n, t, b) : n \in 0 .. 8, t \in Tabless, b \in BOOLEAN}
       \cup {Released(n, t, b) : n \in Versions, t \in Tabless, b \in BOOLEAN}
  /\ conn = disk /\ open = FALSE
  /\ phase = "down" /\ applied = {} /\ at = <<0, 0>> /\ crashes = 0

-----------------------------------------------------------------------------
(* The version after v that the ledger did not have, or one past the last. *)
Pending(v, done) == Min((v + 1 .. Len(MIGRATIONS) + 1) \ done)

Start ==
  /\ phase = "down"
  /\ phase' = "migrating"
  /\ applied' = disk.ledger
  /\ at' = <<Pending(0, disk.ledger), 1>>
  /\ conn' = disk /\ open' = FALSE
  /\ UNCHANGED <<disk, crashes>>

Current == MIGRATIONS[at[1]][at[2]]
InMigration == phase = "migrating" /\ at[1] \in Versions

(* A statement; outside a transaction it commits by itself.                *)
Execute ==
  /\ InMigration
  /\ at[2] \in DOMAIN MIGRATIONS[at[1]]
  /\ ~Fails(Current, conn)
  /\ open' = (open \/ IsInsert(Current))
  /\ conn' = Effect(Current, conn)
  /\ disk' = IF open' THEN disk ELSE conn'
  /\ at' = [at EXCEPT ![2] = @ + 1]
  /\ UNCHANGED <<phase, applied, crashes>>

(* A failing statement rolls back and the start of the application fails.  *)
Abort ==
  /\ InMigration
  /\ at[2] \in DOMAIN MIGRATIONS[at[1]]
  /\ Fails(Current, conn)
  /\ phase' = "down"
  /\ conn' = disk /\ open' = FALSE
  /\ UNCHANGED <<disk, applied, at, crashes>>

(* The ledger's INSERT opens the transaction at the latest.                *)
Record ==
  /\ InMigration
  /\ at[2] = Len(MIGRATIONS[at[1]]) + 1
  /\ conn' = [conn EXCEPT !.ledger = @ \cup {at[1]}]
  /\ open' = TRUE
  /\ at' = <<Pending(at[1], applied), 1>>
  /\ UNCHANGED <<disk, phase, applied, crashes>>

(* The end of engine.begin(): the commit, and the lifespan's yield.        *)
Serve ==
  /\ phase = "migrating" /\ at[1] \notin Versions
  /\ phase' = "serving"
  /\ disk' = conn /\ open' = FALSE
  /\ UNCHANGED <<conn, applied, at, crashes>>

(* The process stops or dies, and SQLite rolls back.                       *)
Crash ==
  /\ phase # "down"
  /\ crashes < MaxCrashes
  /\ crashes' = crashes + 1
  /\ phase' = "down"
  /\ conn' = disk /\ open' = FALSE
  /\ UNCHANGED <<disk, applied, at>>

(* The application at work: create_character.                              *)
Work ==
  /\ phase = "serving"
  /\ \E c \in Characters \ DOMAIN disk.tabs :
       disk' = [disk EXCEPT !.tabs = [d \in DOMAIN disk.tabs \cup {c} |->
                                        IF d = c THEN 1 ELSE disk.tabs[d]]]
  /\ conn' = disk'
  /\ UNCHANGED <<open, phase, applied, at, crashes>>

(* An operator renames a character whose slug is taken.                    *)
Repair ==
  /\ phase = "down" /\ disk.duplicates
  /\ disk' = [disk EXCEPT !.duplicates = FALSE]
  /\ conn' = disk'
  /\ UNCHANGED <<open, phase, applied, at, crashes>>

Upgrade == Start \/ Execute \/ Record \/ Serve \/ Abort

Next == Upgrade \/ Crash \/ Work \/ Repair

Spec == Init /\ [][Next]_vars

-----------------------------------------------------------------------------
(* Properties.                                                             *)

(***************************************************************************)
(* The ledger tells the truth: what a recorded migration is for is in the  *)
(* database, committed with the record or before it.                       *)
(***************************************************************************)
LedgerTruthful ==
  \A v \in disk.ledger :
    /\ ColumnsOf(v) \subseteq disk.columns
    /\ v = 5 => disk.index = "unique" /\ ~disk.duplicates
    /\ v = 11 => \A c \in DOMAIN disk.tabs : disk.tabs[c] > 0
    /\ v = 14 => disk.inventions

(* The default tab is inserted once, whatever a script has inserted before *)
(* and however often the start is cut short.                               *)
OneDefaultTab == \A c \in DOMAIN disk.tabs : disk.tabs[c] <= 1

(* The application serves only on a database that is up to date.           *)
ServesUpToDate == phase = "serving" => disk.ledger = Versions
=============================================================================
