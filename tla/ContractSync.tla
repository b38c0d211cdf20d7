---------------------------- MODULE ContractSync ----------------------------
(***************************************************************************)
(* Proposing the API contract to the frontend:                             *)
(* src/scripts/sync_frontend_contract.py, run by the job sync-frontend of  *)
(* src/.github/workflows/api-contract.yml for every push to master.        *)
(*                                                                         *)
(* The script asks two remote repositories one question after the other    *)
(* and acts on the answers, and may fail anywhere.  The workflow's         *)
(* concurrency group runs one job at a time; of the jobs that wait for it  *)
(* only the latest to arrive is kept.  Meanwhile master moves on, and the  *)
(* people of the frontend adapt, merge, close, reopen and delete.          *)
(*                                                                         *)
(* A contract stands for its digest.  A head is the name of a branch: of a *)
(* contract and 0, or of a contract and the revision that restored it.     *)
(***************************************************************************)
EXTENDS Naturals, Sequences, Functions

CONSTANTS
  Contracts,     \* what contracts/openapi.json may be
  MaxRevisions,  \* bound: commits on master
  MaxFailures,   \* bound: failures and mishaps
  None           \* no contract

ASSUME ContractAssumption == None \notin Contracts
ASSUME SyncBounds == MaxRevisions \in Nat \ {0} /\ MaxFailures \in Nat

VARIABLES
  master,    \* the contract of each revision of the backend's master
  frontend,  \* the contract in the frontend's master
  branches,  \* the pushed branches: whether people have adapted each
  prs,       \* the pull requests in the order of their creation
  checks,    \* the revisions whose contract job is running
  pending,   \* the revision whose job waits for the concurrency group
  job,       \* the job in the concurrency group
  failures   \* how many jobs and checks have failed, and mishaps

remote == <<master, frontend, branches, prs>>
syncVars == <<master, frontend, branches, prs, checks, pending, job, failures>>

Revisions == 1 .. MaxRevisions
Heads == Contracts \X (0 .. MaxRevisions)
Latest == Len(master)

(* has is the contract in the frontend as the job has checked it out.      *)
NoJob == [at |-> "idle", rev |-> 0, has |-> None, head |-> <<>>]

SyncTypeOK ==
  /\ master \in Seq(Contracts)
  /\ frontend \in Contracts \cup {None}
  /\ branches \in UNION {[S -> BOOLEAN] : S \in SUBSET Heads}
  /\ prs \in Seq([head : Heads, state : {"OPEN", "MERGED", "CLOSED"}])
  /\ checks \subseteq Revisions
  /\ pending \subseteq Revisions
  /\ job \in [at : {"started", "find", "find_again", "branch", "push", "create"},
              rev : Revisions, has : Contracts \cup {None}, head : Heads]
             \cup {NoJob}
  /\ failures \in 0 .. MaxFailures

(* Before the first synchronization.                                       *)
SyncInit == /\ master \in {<<c>> : c \in Contracts}
            /\ frontend = None
            /\ branches = <<>>
            /\ prs = <<>>
            /\ checks = {1}
            /\ pending = {}
            /\ job = NoJob
            /\ failures = 0

-----------------------------------------------------------------------------
(* The workflow.                                                           *)

Push(c) ==
  /\ Latest < MaxRevisions
  /\ master' = Append(master, c)
  /\ checks' = checks \cup {Latest + 1}
  /\ UNCHANGED <<frontend, branches, prs, pending, job, failures>>

(* workflow_dispatch, or a job of the latest revision run once more.       *)
Dispatch ==
  /\ checks' = checks \cup {Latest}
  /\ UNCHANGED <<remote, pending, job, failures>>

(* The contract job has passed: the next job waits, instead of another.    *)
Arrive ==
  /\ \E r \in checks : checks' = checks \ {r} /\ pending' = {r}
  /\ UNCHANGED <<remote, job, failures>>

StartJob ==
  /\ job = NoJob
  /\ \E r \in pending :
       job' = [at |-> "started", rev |-> r, has |-> frontend,
               head |-> <<master[r], 0>>]
  /\ pending' = {}
  /\ UNCHANGED <<remote, checks, failures>>

End == /\ job' = NoJob
       /\ UNCHANGED <<checks, pending, failures>>

(* A check, a command of the script or the machine fails.                  *)
JobFails ==
  /\ failures < MaxFailures
  /\ failures' = failures + 1
  /\ \/ \E r \in checks : checks' = checks \ {r} /\ UNCHANGED job
     \/ job # NoJob /\ job' = NoJob /\ UNCHANGED checks
  /\ UNCHANGED <<remote, pending>>

-----------------------------------------------------------------------------
(* sync_frontend.                                                          *)

At(step) == job.at = step

Continue(step, head) ==
  /\ job' = [job EXCEPT !.at = step, !.head = head]
  /\ UNCHANGED <<remote, checks, pending, failures>>

(* Superseded: master has a newer revision.                                *)
Skip == At("started") /\ job.rev # Latest /\ End /\ UNCHANGED remote

Unchanged ==
  /\ At("started") /\ job.rev = Latest
  /\ job.has = master[job.rev]
  /\ End /\ UNCHANGED remote

Changed ==
  /\ At("started") /\ job.rev = Latest
  /\ job.has # master[job.rev]
  /\ Continue("find", job.head)

Of(head) == {i \in DOMAIN prs : prs[i].head = head}

(* Mutant: gh pr list shows the open ones only.                            *)
FindOpenPr(head) == {prs[i].state : i \in {j \in Of(head) : prs[j].state = "OPEN"}}

(* gh pr list --state all --limit 1: the state of the newest, if any.      *)
FindPr(head) == {prs[i].state : i \in {j \in Of(head) : \A k \in Of(head) : k <= j}}

(* Mutant: merged before is as good as proposed.                           *)
PreserveMerged ==
  /\ At("find") /\ FindPr(job.head) = {"MERGED"}
  /\ End /\ UNCHANGED remote

(* The contract has been merged before, and is restored by this revision.  *)
Restore ==
  /\ At("find")
  /\ FindPr(job.head) = {"MERGED"}
  /\ Continue("find_again", <<job.head[1], job.rev>>)

Preserve ==
  /\ \/ At("find") /\ FindPr(job.head) # {"MERGED"}
     \/ At("find_again")
  /\ FindPr(job.head) # {}
  /\ End /\ UNCHANGED remote

FindNoPr ==
  /\ At("find") \/ At("find_again")
  /\ FindPr(job.head) = {}
  /\ Continue("branch", job.head)

(* Mutant: the remote is not asked for the branch.                         *)
FindBranchNever == At("branch") /\ Continue("push", job.head)

(* git ls-remote: a branch that is there has only lost its pull request.   *)
FindBranch ==
  /\ At("branch")
  /\ Continue(IF job.head \in DOMAIN branches THEN "create" ELSE "push", job.head)

(* Import, generate, commit and push.  (The remote would refuse to replace *)
(* a branch; this is not relied upon here.)                                *)
PushBranch ==
  /\ At("push")
  /\ branches' = [h \in DOMAIN branches \cup {job.head} |->
                    IF h = job.head THEN FALSE ELSE branches[h]]
  /\ job' = [job EXCEPT !.at = "create"]
  /\ UNCHANGED <<master, frontend, prs, checks, pending, failures>>

(* gh pr create, which needs the branch.                                   *)
CreatePr ==
  /\ At("create")
  /\ job.head \in DOMAIN branches
  /\ prs' = Append(prs, [head |-> job.head, state |-> "OPEN"])
  /\ End
  /\ UNCHANGED <<master, frontend, branches>>

(* The branch has been deleted before its pull request was there.          *)
CreateRefused ==
  /\ At("create")
  /\ job.head \notin DOMAIN branches
  /\ End /\ UNCHANGED remote

JobStep == \/ Skip \/ Unchanged \/ Changed \/ Restore \/ Preserve \/ FindNoPr
           \/ FindBranch \/ PushBranch \/ CreatePr \/ CreateRefused

-----------------------------------------------------------------------------
(* The people of the frontend.                                             *)

workflow == <<checks, pending, job, failures>>

Set(i, state) == prs' = [prs EXCEPT ![i].state = state]

(* With the merge the branch may be deleted, and on closing.               *)
Merge(i) ==
  /\ prs[i].state = "OPEN"
  /\ Set(i, "MERGED")
  /\ frontend' = prs[i].head[1]
  /\ branches' \in {branches, Restrict(branches, DOMAIN branches \ {prs[i].head})}
  /\ UNCHANGED <<master, workflow>>

ClosePr(i) ==
  /\ prs[i].state = "OPEN"
  /\ Set(i, "CLOSED")
  /\ branches' \in {branches, Restrict(branches, DOMAIN branches \ {prs[i].head})}
  /\ UNCHANGED <<master, frontend, workflow>>

Reopen(i) ==
  /\ prs[i].state = "CLOSED" /\ prs[i].head \in DOMAIN branches
  /\ Set(i, "OPEN")
  /\ UNCHANGED <<master, frontend, branches, workflow>>

Adapt(h) ==
  /\ branches' = [branches EXCEPT ![h] = TRUE]
  /\ UNCHANGED <<master, frontend, prs, workflow>>

(* Before the branch has a pull request this is a mishap.                  *)
DeleteBranch(h) ==
  /\ \A i \in Of(h) : prs[i].state # "OPEN"
  /\ branches' = Restrict(branches, DOMAIN branches \ {h})
  /\ failures' = IF Of(h) = {} THEN failures + 1 ELSE failures
  /\ failures' <= MaxFailures
  /\ UNCHANGED <<master, frontend, prs, checks, pending, job>>

People == \/ \E i \in DOMAIN prs : Merge(i) \/ ClosePr(i) \/ Reopen(i)
          \/ \E h \in DOMAIN branches : Adapt(h) \/ DeleteBranch(h)

SyncNext == \/ \E c \in Contracts : Push(c)
            \/ Dispatch \/ Arrive \/ StartJob \/ JobFails \/ JobStep \/ People

SyncSpec == SyncInit /\ [][SyncNext]_syncVars

(* Jobs go on, and the workflow is dispatched again and again.             *)
FairSyncSpec == /\ SyncSpec
                /\ WF_syncVars(Dispatch) /\ WF_syncVars(Arrive) /\ WF_syncVars(StartJob)
                /\ WF_syncVars(JobStep)

-----------------------------------------------------------------------------
(* Properties.                                                             *)

(* However often the job fails and is repeated, a branch gets one pull     *)
(* request, and none again after that one was closed or merged.            *)
OnePrPerHead == \A i, j \in DOMAIN prs : prs[i].head = prs[j].head => i = j

(* What people have changed on a branch is theirs: a repeated job resumes  *)
(* with it as it is.                                                       *)
AdaptationsKept ==
  [][\A h \in DOMAIN branches \cap DOMAIN branches' :
       branches[h] => branches'[h]]_syncVars

(* The contract of master comes to be the frontend's or is proposed to it, *)
(* also after failures, and when it is an earlier one restored.            *)
Proposed ==
  \/ frontend = master[Latest]
  \/ \E i \in DOMAIN prs :
       \/ prs[i].head = <<master[Latest], 0>> /\ prs[i].state # "MERGED"
       \/ prs[i].head = <<master[Latest], Latest>>
ContractProposed == []<>Proposed
=============================================================================
