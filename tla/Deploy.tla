------------------------------- MODULE Deploy -------------------------------
(***************************************************************************)
(* Replacing a running release: src/deploy.sh, the backup it streams into  *)
(* the container (src/app/sqlite_backup.py), the snapshot an application   *)
(* uploads when it stops (src/app/main.py, src/app/db_snapshot.py), and    *)
(* the start of the new release, which is Migrations.                      *)
(*                                                                         *)
(* The old container serves until docker compose replaces it: it commits   *)
(* between and after the steps of the script.  A backup is one read        *)
(* transaction and so one step.  Every command of the script may fail, and *)
(* the operator may run it again.                                          *)
(***************************************************************************)
EXTENDS Migrations

CONSTANT MaxDeploys  \* bound: runs of the script

ASSUME DeployAssumption == MaxDeploys \in Nat

VARIABLES
  script,     \* how far the script has come
  running,    \* api_running, as the script has found it
  container,  \* of the old release, of the new one, or none
  backups,    \* the copies of the old release's database in data/backups
  uploads,    \* and those in the object storage
  late,       \* history: characters it has created since the last copy
  deploys

files == <<backups, uploads, late>>
deployment == <<script, running, container, files, deploys>>
allVars == <<vars, deployment>>

DeployTypeOK ==
  /\ TypeOK
  /\ script \in {"idle", "backup", "snapshot", "up", "create", "health", "external",
                 "done", "failed"}
  /\ running \in BOOLEAN
  /\ container \in {"none", "old", "new"}
  /\ late \subseteq Characters
  /\ deploys \in 0 .. MaxDeploys

DeployInit ==
  /\ Init
  /\ container \in IF disk = EmptyDatabase THEN {"none"} ELSE {"none", "old"}
  /\ script = "idle" /\ running = FALSE
  /\ backups = {} /\ uploads = {} /\ late = {}
  /\ deploys = 0

-----------------------------------------------------------------------------
(* deploy.sh.                                                              *)

Running == container = "old" \/ (container = "new" /\ phase # "down")

Goto(from, to) ==
  /\ script = from /\ script' = to
  /\ running' = (running /\ to = "snapshot")
  /\ UNCHANGED <<vars, deploys>>

(* A copy never replaces another (create_sqlite_snapshot refuses to).      *)
Copied(copies) == IF container = "new" THEN copies ELSE copies \cup {disk}

Begin ==
  /\ script \in {"idle", "done", "failed"}
  /\ deploys < MaxDeploys
  /\ deploys' = deploys + 1
  /\ script' = "backup"
  /\ running' = Running
  /\ UNCHANGED <<vars, container, files>>

(* Mutant: a container that does not run has nothing to back up.           *)
BackupRunning ==
  /\ Goto("backup", "snapshot")
  /\ running => Running
  /\ backups' = IF running THEN Copied(backups) ELSE backups
  /\ late' = {}
  /\ UNCHANGED <<container, uploads>>

(* In the running container, which must still be there, or in one of its   *)
(* own; without a file there is nothing to back up.                        *)
Backup ==
  /\ Goto("backup", "snapshot")
  /\ running => Running
  /\ backups' = IF disk = EmptyDatabase THEN backups ELSE Copied(backups)
  /\ late' = {}
  /\ UNCHANGED <<container, uploads>>

Snapshot ==
  /\ Goto("snapshot", "up")
  /\ running => Running
  /\ IF running THEN uploads' = Copied(uploads) /\ late' = {}
     ELSE UNCHANGED <<uploads, late>>
  /\ UNCHANGED <<container, backups>>

(* set -e: a copy that cannot be made, or a build that fails, ends it.     *)
Fail ==
  /\ \E step \in {"backup", "snapshot", "up", "create"} : Goto(step, "failed")
  /\ UNCHANGED <<container, files>>

(* The lifespan's end: a copy is uploaded, unless that fails.              *)
Shutdown ==
  \/ uploads' = Copied(uploads) /\ late' = {}
  \/ UNCHANGED <<uploads, late>>

(* docker compose up: the old container stops.                             *)
Stop ==
  /\ container = "old"
  /\ Goto("up", "create")
  /\ container' = "none"
  /\ Shutdown
  /\ UNCHANGED backups

(* A new one is created.  What has been copied until then does not change  *)
(* any more, nothing reads it, and it is not followed further.             *)
Create ==
  /\ container = "none"
  /\ \E step \in {"up", "create"} : Goto(step, "health")
  /\ container' = "new"
  /\ backups' = {} /\ uploads' = {} /\ late' = {}

(* A container of this release may be left as it is, or be recreated.      *)
Keep ==
  /\ container = "new"
  /\ Goto("up", "health")
  /\ UNCHANGED <<container, files>>

Recreate ==
  /\ container = "new"
  /\ script = "up" /\ script' = "health"
  /\ phase' = "down" /\ conn' = disk /\ open' = FALSE
  /\ UNCHANGED <<disk, applied, at, crashes, running, container, files,
                 deploys>>

(* Mutant: a container that runs is healthy.                               *)
HealthyRunning ==
  /\ Running
  /\ Goto("health", "external")
  /\ UNCHANGED <<container, files>>

(* The request to /health, inside the container and then from outside.     *)
Healthy ==
  /\ phase = "serving"
  /\ Goto("health", "external")
  /\ UNCHANGED <<container, files>>

Reachable ==
  /\ phase = "serving"
  /\ Goto("external", "done")
  /\ UNCHANGED <<container, files>>

(* The tries are used up.                                                  *)
Unhealthy ==
  /\ \E step \in {"health", "external"} : Goto(step, "failed")
  /\ UNCHANGED <<container, files>>

-----------------------------------------------------------------------------
(* The containers.                                                         *)

(* The old release creates a character: with a tab if it knows tabs, and   *)
(* with a slug that is taken if nothing keeps it from that.                *)
OldWork ==
  /\ container = "old"
  /\ \E c \in Characters \ DOMAIN disk.tabs, n \in {0, 1}, b \in BOOLEAN :
       /\ n = 1 => Exists(disk, "character_notes", "")
       /\ n = 0 => 11 \notin disk.ledger
       /\ b => disk.index # "unique" /\ DOMAIN disk.tabs # {}
       /\ disk' = [disk EXCEPT !.duplicates = @ \/ b,
                               !.tabs = [d \in DOMAIN disk.tabs \cup {c} |->
                                           IF d = c THEN n ELSE disk.tabs[d]]]
       /\ late' = late \cup {c}
  /\ conn' = disk'
  /\ UNCHANGED <<open, phase, applied, at, crashes, script, running, container,
                 backups, uploads, deploys>>

NewUpgrade == container = "new" /\ Upgrade /\ UNCHANGED deployment

NewRelease == container = "new" /\ (Crash \/ Work) /\ UNCHANGED deployment

Operator == container # "old" /\ Repair /\ UNCHANGED deployment

DeployNext ==
  \/ Begin \/ Backup \/ Snapshot \/ Fail \/ Stop \/ Create \/ Keep \/ Recreate
  \/ Healthy \/ Reachable \/ Unhealthy
  \/ OldWork \/ NewUpgrade \/ NewRelease \/ Operator

DeploySpec == DeployInit /\ [][DeployNext]_allVars

(* The new container is restarted when its process ends, and a process     *)
(* that runs goes on.  Nobody has to run or to finish the script.          *)
FairDeploySpec == DeploySpec /\ WF_allVars(NewUpgrade)

-----------------------------------------------------------------------------
(* Properties.                                                             *)

(***************************************************************************)
(* The new release is never started on a database without a backup of the  *)
(* same schema; and of the characters it finds, those in no copy have been *)
(* created after the last copy, the shutdown's upload having failed.       *)
(***************************************************************************)
SameSchema(b) == b.ledger = disk.ledger /\ b.columns = disk.columns
Covered ==
  /\ \E b \in backups : SameSchema(b) /\ DOMAIN b.tabs \subseteq DOMAIN disk.tabs
  /\ \A c \in DOMAIN disk.tabs \ late :
       \E b \in backups \cup uploads : SameSchema(b) /\ c \in DOMAIN b.tabs
BackedUp ==
  [][container # container' /\ container' = "new" /\ disk # EmptyDatabase
       => Covered]_allVars

(* The application serves only on a database that is up to date, and the   *)
(* script reports a success only when the new release has served, however  *)
(* often it was restarted meanwhile.                                       *)
SuccessIsUpToDate ==
  /\ ServesUpToDate
  /\ script \in {"external", "done"} => disk.ledger = Versions

(* Once the containers are exchanged, the new release comes to serve from  *)
(* whatever the old one left, if there are no duplicate slugs.             *)
NewComesUp == container = "new" /\ ~disk.duplicates ~> phase = "serving"
=============================================================================
