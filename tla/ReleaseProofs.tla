---------------------------- MODULE ReleaseProofs ----------------------------
(***************************************************************************)
(* Proofs about what happens to a release outside the application: its     *)
(* deployment with the migrations of its start (Deploy, Migrations), and   *)
(* the proposal of its contract to the frontend (ContractSync).            *)
(***************************************************************************)
EXTENDS Deploy, ContractSync, SequenceTheorems, FunctionTheorems, TLAPS

-----------------------------------------------------------------------------
(* ContractSync.                                                           *)

PullRequest == [head : Heads, state : {"OPEN", "MERGED", "CLOSED"}]
Branches == UNION {[S -> BOOLEAN] : S \in SUBSET Heads}

LEMMA BranchesDomain ==
  ASSUME NEW f
  PROVE  f \in Branches <=> DOMAIN f \subseteq Heads /\ f \in [DOMAIN f -> BOOLEAN]
  BY DEF Branches

LEMMA RestrictBranches ==
  ASSUME NEW f \in Branches, NEW S
  PROVE  /\ Restrict(f, DOMAIN f \ S) \in Branches
         /\ DOMAIN Restrict(f, DOMAIN f \ S) = DOMAIN f \ S
         /\ \A h \in DOMAIN f \ S : Restrict(f, DOMAIN f \ S)[h] = f[h]
<1> DEFINE g == Restrict(f, DOMAIN f \ S)
<1>1. g = [h \in DOMAIN f \ S |-> f[h]]
  BY DEF Restrict
<1> HIDE DEF g
<1>2. DOMAIN g = DOMAIN f \ S /\ \A h \in DOMAIN g : g[h] = f[h]
  BY <1>1
<1>3. DOMAIN g \subseteq Heads /\ g \in [DOMAIN g -> BOOLEAN]
  BY <1>1, <1>2, BranchesDomain
<1>4. g \in Branches
  BY <1>3, BranchesDomain
<1>. QED
  BY <1>2, <1>4 DEF g

(* A step deletes the branches of S or none.                               *)
LEMMA Shrunk ==
  ASSUME NEW f \in Branches, NEW S, NEW g \in {f, Restrict(f, DOMAIN f \ S)}
  PROVE  /\ g \in Branches /\ DOMAIN g \subseteq DOMAIN f
         /\ \A h \in DOMAIN g : g[h] = f[h]
<1>1. CASE g = f
  BY <1>1
<1>2. CASE g = Restrict(f, DOMAIN f \ S)
  BY <1>2, RestrictBranches
<1>. QED
  BY <1>1, <1>2

(* Jobs are about revisions that exist.                                    *)
Known ==
  /\ Latest \in Revisions
  /\ checks \cup pending \subseteq 1 .. Latest

(* What a job has found out is still so when it acts on it: nobody else    *)
(* opens pull requests or pushes branches.                                 *)
Asked ==
  /\ job.at \in {"branch", "push", "create"} => Of(job.head) = {}
  /\ job.at = "push" => job.head \notin DOMAIN branches

SyncInv == SyncTypeOK /\ Known /\ OnePrPerHead /\ Asked

(* A pull request that changes its state stays that of its branch.         *)
LEMMA SetState ==
  ASSUME prs \in Seq(PullRequest), NEW i \in DOMAIN prs,
         NEW state \in {"OPEN", "MERGED", "CLOSED"}, Set(i, state)
  PROVE  /\ prs' \in Seq(PullRequest) /\ DOMAIN prs' = DOMAIN prs
         /\ \A j \in DOMAIN prs : prs'[j].head = prs[j].head
<1> DEFINE p == [prs[i] EXCEPT !.state = state]
<1>1. prs' = [prs EXCEPT ![i] = p] /\ i \in 1 .. Len(prs)
  BY DEF Set
<1>2. prs[i] \in PullRequest
  BY ElementOfSeq
<1>3. p \in PullRequest /\ p.head = prs[i].head
  BY <1>2 DEF PullRequest
<1> HIDE DEF p
<1>4. prs' \in Seq(PullRequest) /\ DOMAIN prs' = DOMAIN prs
  BY <1>1, <1>3, ExceptSeq
<1>. QED
  BY <1>1, <1>3, <1>4

(* No step of people opens a pull request or adds a branch.                *)
LEMMA PeopleKeep ==
  ASSUME SyncInv, People
  PROVE  /\ SyncTypeOK'
         /\ DOMAIN prs' = DOMAIN prs /\ \A j \in DOMAIN prs : prs'[j].head = prs[j].head
         /\ DOMAIN branches' \subseteq DOMAIN branches
         /\ \A h \in DOMAIN branches' : branches[h] => branches'[h]
         /\ UNCHANGED <<master, checks, pending, job>>
<1>p. prs \in Seq(PullRequest) /\ branches \in Branches
  BY DEF SyncInv, SyncTypeOK, PullRequest, Branches
<1>h. \A i \in DOMAIN prs : prs[i].head \in Heads
  <2>1. \A i \in DOMAIN prs : prs[i] \in PullRequest
    BY <1>p, ElementOfSeq
  <2>. QED
    BY <2>1 DEF PullRequest
<1>s. /\ \A h \in DOMAIN branches : branches[h] \in BOOLEAN
      /\ DOMAIN branches \subseteq Heads
  BY <1>p, BranchesDomain
<1>r. SUFFICES
        /\ prs' \in Seq(PullRequest) /\ branches' \in Branches
        /\ frontend' \in Contracts \cup {None} /\ failures' \in 0 .. MaxFailures
        /\ DOMAIN prs' = DOMAIN prs /\ \A j \in DOMAIN prs : prs'[j].head = prs[j].head
        /\ DOMAIN branches' \subseteq DOMAIN branches
        /\ \A h \in DOMAIN branches' : branches[h] => branches'[h]
        /\ UNCHANGED <<master, checks, pending, job>>
  BY DEF SyncInv, SyncTypeOK, PullRequest, Branches, Revisions, Heads
<1>f. failures \in 0 .. MaxFailures /\ frontend \in Contracts \cup {None}
  BY DEF SyncInv, SyncTypeOK
<1>1. ASSUME NEW i \in DOMAIN prs, Merge(i) PROVE <1>r!1
  <2>1. /\ prs' \in Seq(PullRequest) /\ DOMAIN prs' = DOMAIN prs
        /\ \A j \in DOMAIN prs : prs'[j].head = prs[j].head
    BY <1>1, <1>p, SetState DEF Merge
  <2>2. frontend' \in Contracts \cup {None}
    BY <1>1, <1>h DEF Merge, Heads
  <2>3. /\ branches' \in Branches /\ DOMAIN branches' \subseteq DOMAIN branches
        /\ \A h \in DOMAIN branches' : branches'[h] = branches[h]
    <3>1. branches' \in {branches, Restrict(branches, DOMAIN branches \ {prs[i].head})}
      BY <1>1 DEF Merge
    <3>. QED
      BY <1>p, <3>1, Shrunk
  <2>. QED
    BY <1>1, <1>f, <2>1, <2>2, <2>3 DEF Merge, workflow
<1>2. ASSUME NEW i \in DOMAIN prs, ClosePr(i) PROVE <1>r!1
  <2>1. /\ prs' \in Seq(PullRequest) /\ DOMAIN prs' = DOMAIN prs
        /\ \A j \in DOMAIN prs : prs'[j].head = prs[j].head
    BY <1>2, <1>p, SetState DEF ClosePr
  <2>2. /\ branches' \in Branches /\ DOMAIN branches' \subseteq DOMAIN branches
        /\ \A h \in DOMAIN branches' : branches'[h] = branches[h]
    <3>1. branches' \in {branches, Restrict(branches, DOMAIN branches \ {prs[i].head})}
      BY <1>2 DEF ClosePr
    <3>. QED
      BY <1>p, <3>1, Shrunk
  <2>. QED
    BY <1>2, <1>f, <2>1, <2>2 DEF ClosePr, workflow
<1>3. ASSUME NEW i \in DOMAIN prs, Reopen(i) PROVE <1>r!1
  <2>1. /\ prs' \in Seq(PullRequest) /\ DOMAIN prs' = DOMAIN prs
        /\ \A j \in DOMAIN prs : prs'[j].head = prs[j].head
    BY <1>3, <1>p, SetState DEF Reopen
  <2>. QED
    BY <1>3, <1>p, <1>f, <2>1 DEF Reopen, workflow
<1>4. ASSUME NEW h \in DOMAIN branches, Adapt(h) PROVE <1>r!1
  <2>1. /\ DOMAIN branches' = DOMAIN branches
        /\ \A k \in DOMAIN branches : branches'[k] = (k = h \/ branches[k])
    BY <1>4, <1>s DEF Adapt
  <2>2. branches' \in Branches
    BY <1>4, <1>p, BranchesDomain DEF Adapt
  <2>. QED
    BY <1>4, <1>p, <1>f, <2>1, <2>2 DEF Adapt, workflow
<1>5. ASSUME NEW h \in DOMAIN branches, DeleteBranch(h) PROVE <1>r!1
  <2>1. /\ branches' \in Branches /\ DOMAIN branches' \subseteq DOMAIN branches
        /\ \A k \in DOMAIN branches' : branches'[k] = branches[k]
    <3>1. branches' \in {branches, Restrict(branches, DOMAIN branches \ {h})}
      BY <1>5 DEF DeleteBranch
    <3>. QED
      BY <1>p, <3>1, Shrunk
  <2>2. failures' \in 0 .. MaxFailures
    BY <1>5, <1>f, SyncBounds DEF DeleteBranch
  <2>. QED
    BY <1>5, <1>p, <1>f, <2>1, <2>2 DEF DeleteBranch
<1>. QED
  BY <1>1, <1>2, <1>3, <1>4, <1>5 DEF People

(* The steps of the workflow leave the remote repositories alone, but for  *)
(* a revision that is pushed, and no job goes on in them.                  *)
WorkflowStep ==
  \/ \E c \in Contracts : Push(c)
  \/ Dispatch \/ Arrive \/ StartJob \/ JobFails

JobType == [at : {"started", "find", "find_again", "branch", "push", "create"},
            rev : Revisions, has : Contracts \cup {None}, head : Heads]

LEMMA KnownRevision ==
  ASSUME SyncInv, NEW r \in checks \cup pending
  PROVE  r \in Revisions /\ master[r] \in Contracts /\ <<master[r], 0>> \in Heads
<1>1. master \in Seq(Contracts) /\ r \in 1 .. Len(master) /\ Len(master) <= MaxRevisions
  <2>1. master \in Seq(Contracts) /\ r \in 1 .. Len(master)
    BY DEF SyncInv, SyncTypeOK, Known, Latest
  <2>2. Len(master) \in 1 .. MaxRevisions
    BY DEF SyncInv, Known, Latest, Revisions
  <2>. QED
    BY <2>1, <2>2, SyncBounds
<1>2. master[r] \in Contracts
  BY <1>1, ElementOfSeq
<1>3. r \in 1 .. MaxRevisions /\ 0 \in 0 .. MaxRevisions
  BY <1>1, SyncBounds
<1>. QED
  BY <1>2, <1>3 DEF Revisions, Heads

LEMMA WorkflowKeeps ==
  ASSUME SyncInv, WorkflowStep
  PROVE  /\ SyncTypeOK' /\ Known'
         /\ UNCHANGED <<prs, branches>>
         /\ job' = job \/ job'.at \in {"idle", "started"}
<1>t. /\ master \in Seq(Contracts) /\ Len(master) \in Revisions
      /\ checks \subseteq 1 .. Len(master) /\ pending \subseteq 1 .. Len(master)
      /\ job \in JobType \cup {NoJob} /\ failures \in 0 .. MaxFailures
      /\ frontend \in Contracts \cup {None}
  BY DEF SyncInv, SyncTypeOK, Known, Latest, JobType
<1>m. MaxRevisions \in Nat \ {0} /\ MaxFailures \in Nat
  BY SyncBounds
<1>n. Len(master) \in 1 .. Len(master) /\ Len(master) \in 1 .. MaxRevisions
  BY <1>t, <1>m DEF Revisions
<1>r. SUFFICES
        /\ master' \in Seq(Contracts) /\ Len(master') \in Revisions
        /\ checks' \subseteq 1 .. Len(master') /\ pending' \subseteq 1 .. Len(master')
        /\ job' \in JobType \cup {NoJob} /\ failures' \in 0 .. MaxFailures
        /\ UNCHANGED <<frontend, prs, branches>>
        /\ job' = job \/ job'.at \in {"idle", "started"}
  <2>1. 1 .. Len(master') \subseteq Revisions
    BY <1>m, <1>r DEF Revisions
  <2>2. NoJob' = NoJob /\ Revisions' = Revisions /\ Heads' = Heads
    BY DEF NoJob, Revisions, Heads
  <2>3. SyncTypeOK'
    BY <1>r, <2>1, <2>2 DEF SyncInv, SyncTypeOK, JobType
  <2>4. Known'
    BY <1>r, <2>2 DEF Known, Latest
  <2>. QED
    BY <1>r, <2>3, <2>4
<1>1. ASSUME NEW c \in Contracts, Push(c) PROVE <1>r!1
  <2>1. /\ master' \in Seq(Contracts) /\ Len(master') = Len(master) + 1
        /\ Len(master) < MaxRevisions
    BY <1>1, <1>t, AppendProperties DEF Push, Latest
  <2>2. checks' = checks \cup {Len(master) + 1}
    BY <1>1 DEF Push, Latest
  <2> DEFINE n == Len(master)
  <2>n. n \in Nat /\ n + 1 \in 1 .. MaxRevisions
    BY <1>m, <1>n, <2>1
  <2>s. 1 .. n \subseteq 1 .. (n + 1) /\ n + 1 \in 1 .. (n + 1)
    BY <2>n
  <2>3. Len(master') \in Revisions /\ checks' \subseteq 1 .. Len(master')
        /\ pending \subseteq 1 .. Len(master')
    BY <1>t, <2>n, <2>s, <2>1, <2>2 DEF Revisions
  <2>. QED
    BY <1>1, <1>t, <2>1, <2>3 DEF Push
<1>2. CASE Dispatch
  <2>1. checks' = checks \cup {Len(master)} /\ UNCHANGED <<remote, pending, job, failures>>
    BY <1>2 DEF Dispatch, Latest
  <2>2. checks' \subseteq 1 .. Len(master)
    BY <1>t, <1>n, <2>1
  <2>. QED
    BY <1>t, <2>1, <2>2 DEF remote
<1>3. CASE Arrive
  BY <1>3, <1>t DEF Arrive, remote
<1>4. CASE StartJob
  <2>1. PICK r \in pending :
          job' = [at |-> "started", rev |-> r, has |-> frontend,
                  head |-> <<master[r], 0>>]
    BY <1>4 DEF StartJob
  <2>2. job' \in JobType /\ job'.at = "started"
    BY <1>t, <2>1, KnownRevision DEF JobType
  <2>. QED
    BY <1>4, <1>t, <2>2 DEF StartJob, remote
<1>5. CASE JobFails
  <2>1. job' \in {job, NoJob} /\ checks' \subseteq checks /\ failures' = failures + 1
    BY <1>5 DEF JobFails
  <2>2. failures' \in 0 .. MaxFailures
    BY <1>5, <1>t, <1>m, <2>1 DEF JobFails
  <2>. QED
    <3>1. NoJob.at = "idle"
      BY DEF NoJob
    <3>. QED
      BY <1>5, <1>t, <2>1, <2>2, <3>1 DEF JobFails, remote
<1>. QED
  BY <1>1, <1>2, <1>3, <1>4, <1>5 DEF WorkflowStep

(* What the newest pull request of a branch says is all there is to say:   *)
(* where gh pr list finds none there is none.                              *)
LEMMA FoundNone ==
  ASSUME SyncInv, NEW h, FindPr(h) = {}
  PROVE  Of(h) = {}
<1> SUFFICES ASSUME NEW i \in Of(h) PROVE FALSE
  OBVIOUS
<1>d. DOMAIN prs = 1 .. Len(prs) /\ Len(prs) \in Nat
  <2>1. prs \in Seq(PullRequest)
    BY DEF SyncInv, SyncTypeOK, PullRequest
  <2>. QED
    BY <2>1
<1>1. i \in Nat /\ \A k \in Of(h) : k = i
  BY <1>d DEF Of, SyncInv, OnePrPerHead
<1>2. prs[i].state \in FindPr(h)
  BY <1>1 DEF FindPr
<1>. QED
  BY <1>2

(* A job that is at a step has a revision and a branch.                    *)
LEMMA JobAt ==
  ASSUME SyncInv, job.at # "idle"
  PROVE  job \in JobType /\ job.head \in Heads
<1>1. job \in JobType \cup {NoJob}
  BY DEF SyncInv, SyncTypeOK, JobType
<1>2. job \in JobType
  BY <1>1 DEF NoJob
<1>. QED
  BY <1>2 DEF JobType

(* The steps that leave the remote repositories alone.                     *)
LEMMA QuietStep ==
  ASSUME SyncInv, UNCHANGED <<remote, checks, pending, failures>>,
         job' \in JobType \cup {NoJob},
         job'.at \in {"branch", "push", "create"} => Of(job'.head) = {},
         job'.at = "push" => job'.head \notin DOMAIN branches
  PROVE  SyncInv'
<1>1. UNCHANGED <<master, frontend, branches, prs>>
  BY DEF remote
<1>2. NoJob' = NoJob /\ Revisions' = Revisions /\ Heads' = Heads
  BY DEF NoJob, Revisions, Heads
<1>3. SyncTypeOK' /\ Known'
  BY <1>1, <1>2 DEF SyncInv, SyncTypeOK, JobType, Known, Latest
<1>4. OnePrPerHead' /\ \A h : (Of(h))' = Of(h)
  BY <1>1 DEF SyncInv, OnePrPerHead, Of
<1>5. Asked'
  BY <1>1, <1>4 DEF Asked, Of
<1>. QED
  BY <1>3, <1>4, <1>5 DEF SyncInv

(* A job that ends is nowhere.                                             *)
LEMMA EndOfJob ==
  ASSUME SyncInv, End, UNCHANGED remote
  PROVE  SyncInv'
<1>1. job' = NoJob /\ job'.at = "idle" /\ UNCHANGED <<checks, pending, failures>>
  BY DEF End, NoJob
<1>. QED
  BY <1>1, QuietStep

(* A job that goes on to another step keeps its revision.                  *)
LEMMA NextStep ==
  ASSUME SyncInv, job \in JobType, NEW head \in Heads,
         NEW step \in {"find", "find_again", "branch", "push", "create"},
         Continue(step, head)
  PROVE  /\ job' \in JobType /\ job'.at = step /\ job'.head = head
         /\ UNCHANGED <<remote, checks, pending, failures>>
  BY DEF Continue, JobType

LEMMA JobKeeps ==
  ASSUME SyncInv, JobStep
  PROVE  /\ SyncInv'
         /\ \A h \in DOMAIN branches \cap DOMAIN branches' : branches[h] => branches'[h]
<1>a. OnePrPerHead /\ Asked
  BY DEF SyncInv
<1>q. ASSUME UNCHANGED remote
      PROVE  \A h \in DOMAIN branches \cap DOMAIN branches' : branches[h] => branches'[h]
  BY <1>q DEF remote
<1>1. CASE Skip \/ Unchanged \/ Preserve
  <2>1. End /\ UNCHANGED remote
    BY <1>1 DEF Skip, Unchanged, Preserve
  <2>. QED
    BY <2>1, <1>q, EndOfJob
<1>2. CASE Changed
  <2>1. job \in JobType /\ job.head \in Heads
    BY <1>2, JobAt DEF Changed, At
  <2>2. /\ job' \in JobType /\ job'.at = "find" /\ job'.head = job.head
        /\ UNCHANGED <<remote, checks, pending, failures>>
    BY <1>2, <2>1, NextStep DEF Changed
  <2>. QED
    BY <2>2, <1>q, QuietStep
<1>3. CASE Restore
  <2>1. job \in JobType /\ job.head \in Heads
    BY <1>3, JobAt DEF Restore, At
  <2>2. <<job.head[1], job.rev>> \in Heads
    <3>1. job.rev \in 1 .. MaxRevisions
      BY <2>1 DEF JobType, Revisions
    <3>2. job.rev \in 0 .. MaxRevisions
      BY <3>1, SyncBounds
    <3>3. job.head[1] \in Contracts
      BY <2>1 DEF Heads
    <3>. QED
      BY <3>2, <3>3 DEF Heads
  <2>3. /\ job' \in JobType /\ job'.at = "find_again"
        /\ UNCHANGED <<remote, checks, pending, failures>>
    BY <1>3, <2>1, <2>2, NextStep DEF Restore
  <2>. QED
    BY <2>3, <1>q, QuietStep
<1>4. CASE FindNoPr
  <2>1. job \in JobType /\ job.head \in Heads
    BY <1>4, JobAt DEF FindNoPr, At
  <2>2. /\ job' \in JobType /\ job'.at = "branch" /\ job'.head = job.head
        /\ UNCHANGED <<remote, checks, pending, failures>>
    BY <1>4, <2>1, NextStep DEF FindNoPr
  <2>3. Of(job'.head) = {}
    BY <1>4, <1>a, <2>2, FoundNone DEF FindNoPr
  <2>. QED
    BY <2>2, <2>3, <1>q, QuietStep
<1>5. CASE FindBranch
  <2>1. job \in JobType /\ job.head \in Heads /\ job.at = "branch"
    BY <1>5, JobAt DEF FindBranch, At
  <2> DEFINE step == IF job.head \in DOMAIN branches THEN "create" ELSE "push"
  <2>2. /\ job' \in JobType /\ job'.at = step /\ job'.head = job.head
        /\ UNCHANGED <<remote, checks, pending, failures>>
    BY <1>5, <2>1, NextStep DEF FindBranch
  <2>3. Of(job'.head) = {}
    BY <1>a, <2>1, <2>2 DEF Asked
  <2>. QED
    BY <2>2, <2>3, <1>q, QuietStep
<1>6. CASE PushBranch
  <2>1. job \in JobType /\ job.head \in Heads /\ job.at = "push"
    BY <1>6, JobAt DEF PushBranch, At
  <2>2. Of(job.head) = {} /\ job.head \notin DOMAIN branches
    BY <1>a, <2>1 DEF Asked
  <2>3. job' \in JobType /\ job'.at = "create" /\ job'.head = job.head
    BY <1>6, <2>1 DEF PushBranch, JobType
  <2>4. /\ DOMAIN branches' = DOMAIN branches \cup {job.head}
        /\ branches'[job.head] = FALSE
        /\ \A h \in DOMAIN branches : branches'[h] = branches[h]
    BY <1>6, <2>2 DEF PushBranch
  <2>5. branches \in Branches /\ branches' \in Branches
    <3>1. branches \in Branches
      BY DEF SyncInv, SyncTypeOK, Branches
    <3>2. /\ DOMAIN branches \subseteq Heads
          /\ \A h \in DOMAIN branches : branches[h] \in BOOLEAN
      BY <3>1, BranchesDomain
    <3>3. branches' \in [DOMAIN branches' -> BOOLEAN]
      BY <1>6, <2>4, <3>2 DEF PushBranch
    <3>. QED
      BY <2>1, <2>4, <3>1, <3>2, <3>3, BranchesDomain
  <2>6. UNCHANGED <<master, frontend, prs, checks, pending, failures>>
    BY <1>6 DEF PushBranch
  <2>7. SyncTypeOK' /\ Known'
    <3>1. NoJob' = NoJob /\ Revisions' = Revisions /\ Heads' = Heads
      BY DEF NoJob, Revisions, Heads
    <3>. QED
      BY <2>3, <2>5, <2>6, <3>1 DEF SyncInv, SyncTypeOK, JobType, Known, Latest, Branches
  <2>8. OnePrPerHead' /\ Asked'
    BY <1>a, <2>2, <2>3, <2>6 DEF OnePrPerHead, Asked, Of
  <2>. QED
    BY <2>2, <2>4, <2>7, <2>8 DEF SyncInv
<1>7. CASE CreatePr
  <2> DEFINE p == [head |-> job.head, state |-> "OPEN"]
  <2>1. job \in JobType /\ job.head \in Heads /\ job.at = "create"
    BY <1>7, JobAt DEF CreatePr, At
  <2>2. Of(job.head) = {}
    BY <1>a, <2>1 DEF Asked
  <2>3. prs \in Seq(PullRequest) /\ p \in PullRequest /\ prs' = Append(prs, p)
    BY <1>7, <2>1 DEF SyncInv, SyncTypeOK, PullRequest, CreatePr
  <2>4. /\ prs' \in Seq(PullRequest) /\ Len(prs) \in Nat
        /\ DOMAIN prs = 1 .. Len(prs) /\ DOMAIN prs' = 1 .. (Len(prs) + 1)
        /\ prs'[Len(prs) + 1] = p
        /\ \A i \in DOMAIN prs : prs'[i] = prs[i]
    BY <2>3, AppendProperties
  <2>5. job' = NoJob /\ job'.at = "idle"
        /\ UNCHANGED <<master, frontend, branches, checks, pending, failures>>
    BY <1>7 DEF CreatePr, End, NoJob
  <2>6. SyncTypeOK' /\ Known'
    <3>1. NoJob' = NoJob /\ Revisions' = Revisions /\ Heads' = Heads
      BY DEF NoJob, Revisions, Heads
    <3>. QED
      BY <2>4, <2>5, <3>1 DEF SyncInv, SyncTypeOK, PullRequest, Known, Latest
  <2>7. OnePrPerHead'
    <3> SUFFICES ASSUME NEW i \in DOMAIN prs', NEW j \in DOMAIN prs',
                        prs'[i].head = prs'[j].head
                 PROVE  i = j
      BY DEF OnePrPerHead
    <3>1. \A k \in DOMAIN prs : prs'[k].head # job.head
      BY <2>2, <2>4 DEF Of
    <3>2. prs'[Len(prs) + 1].head = job.head
      BY <2>4
    <3>3. \A k \in DOMAIN prs' : k \in DOMAIN prs \/ k = Len(prs) + 1
      BY <2>4
    <3>. QED
      BY <1>a, <2>4, <3>1, <3>2, <3>3 DEF OnePrPerHead
  <2>. QED
    BY <2>5, <2>6, <2>7 DEF SyncInv, Asked
<1>8. CASE CreateRefused
  BY <1>8, <1>q, EndOfJob DEF CreateRefused
<1>. QED
  BY <1>1, <1>2, <1>3, <1>4, <1>5, <1>6, <1>7, <1>8 DEF JobStep

(* The invariant, and what people have changed on a branch, over a step of *)
(* anyone.                                                                 *)
LEMMA SyncStep ==
  ASSUME SyncInv, [SyncNext]_syncVars
  PROVE  /\ SyncInv'
         /\ \A h \in DOMAIN branches \cap DOMAIN branches' : branches[h] => branches'[h]
<1>a. OnePrPerHead /\ Asked
  BY DEF SyncInv
<1>1. CASE WorkflowStep
  <2>1. /\ SyncTypeOK' /\ Known' /\ UNCHANGED <<prs, branches>>
        /\ job' = job \/ job'.at \in {"idle", "started"}
    BY <1>1, WorkflowKeeps
  <2>2. OnePrPerHead' /\ Asked'
    BY <1>a, <2>1 DEF OnePrPerHead, Asked, Of
  <2>. QED
    BY <2>1, <2>2 DEF SyncInv
<1>2. CASE JobStep
  BY <1>2, JobKeeps
<1>3. CASE People
  <2>1. /\ SyncTypeOK'
        /\ DOMAIN prs' = DOMAIN prs /\ \A j \in DOMAIN prs : prs'[j].head = prs[j].head
        /\ DOMAIN branches' \subseteq DOMAIN branches
        /\ \A h \in DOMAIN branches' : branches[h] => branches'[h]
        /\ UNCHANGED <<master, checks, pending, job>>
    BY <1>3, PeopleKeep
  <2>2. OnePrPerHead' /\ Asked' /\ Known'
    BY <1>a, <2>1 DEF SyncInv, OnePrPerHead, Asked, Of, Known, Latest, Revisions
  <2>. QED
    BY <2>1, <2>2 DEF SyncInv
<1>4. CASE UNCHANGED syncVars
  <2>1. UNCHANGED <<master, frontend, branches, prs, checks, pending, job, failures>>
    BY <1>4 DEF syncVars
  <2>2. NoJob' = NoJob /\ Revisions' = Revisions /\ Heads' = Heads
    BY DEF NoJob, Revisions, Heads
  <2>. QED
    BY <2>1, <2>2 DEF SyncInv, SyncTypeOK, Known, Latest, OnePrPerHead, Asked, Of
<1>. QED
  BY <1>1, <1>2, <1>3, <1>4 DEF SyncNext, WorkflowStep

LEMMA SyncStart ==
  ASSUME SyncInit
  PROVE  SyncInv
<1>1. PICK c \in Contracts : master = <<c>>
  BY DEF SyncInit
<1>2. master \in Seq(Contracts) /\ Len(master) = 1 /\ 1 \in Revisions
  BY <1>1, SyncBounds DEF Revisions
<1>3. prs \in Seq(PullRequest) /\ DOMAIN prs = {} /\ DOMAIN branches = {}
  BY DEF SyncInit
<1>4. branches \in Branches
  <2>1. branches = [h \in {} |-> FALSE]
    BY DEF SyncInit
  <2>2. DOMAIN branches \subseteq Heads /\ branches \in [DOMAIN branches -> BOOLEAN]
    BY <2>1
  <2>. QED
    BY <2>2, BranchesDomain
<1>5. checks = {1} /\ pending = {} /\ job = NoJob /\ failures = 0 /\ frontend = None
  BY DEF SyncInit
<1>6. SyncTypeOK
  BY <1>2, <1>3, <1>4, <1>5, SyncBounds DEF SyncTypeOK, PullRequest, Branches
<1>7. Known
  BY <1>2, <1>5 DEF Known, Latest
<1>8. OnePrPerHead /\ Asked
  BY <1>3, <1>5 DEF OnePrPerHead, Asked, NoJob
<1>. QED
  BY <1>6, <1>7, <1>8 DEF SyncInv

(* The inductive invariant of the workflow, its job and the people.        *)
THEOREM SyncInvariant == SyncSpec => []SyncInv
<1>1. SyncInit => SyncInv
  BY SyncStart
<1>2. SyncInv /\ [SyncNext]_syncVars => SyncInv'
  BY SyncStep
<1>. QED
  BY <1>1, <1>2, PTL DEF SyncSpec

(* The values of the variables are what the declarations say: a job is     *)
(* about a revision of master and a branch that its contract names.        *)
THEOREM SyncTypesCorrect == SyncSpec => []SyncTypeOK
<1>1. SyncInv => SyncTypeOK
  BY DEF SyncInv
<1>. QED
  BY <1>1, SyncInvariant, PTL

(* However often the job of sync_frontend fails and is repeated, a branch  *)
(* gets one pull request, and no second one after that is closed or merged *)
(* (gh pr list --state all before gh pr create).                           *)
THEOREM HeadsHaveOnePr == SyncSpec => []OnePrPerHead
<1>1. SyncInv => OnePrPerHead
  BY DEF SyncInv
<1>. QED
  BY <1>1, SyncInvariant, PTL

(* No step of a job takes back what people have changed on a branch: the   *)
(* only one that writes a branch has found it missing (git ls-remote).     *)
THEOREM AdaptationsStay == SyncSpec => AdaptationsKept
<1>1. SyncInv /\ [SyncNext]_syncVars
        => [\A h \in DOMAIN branches \cap DOMAIN branches' :
              branches[h] => branches'[h]]_syncVars
  BY SyncStep
<1>. QED
  BY <1>1, SyncInvariant, PTL DEF SyncSpec, AdaptationsKept

-----------------------------------------------------------------------------
(* Migrations.                                                             *)

LEMMA VersionNumbers == Len(MIGRATIONS) = 14 /\ Versions = 1 .. 14
  BY DEF MIGRATIONS, Versions

(* What a statement of a migration may be.                                 *)
Columns == {"background_url", "gold", "notes", "current_hp", "bonus_health"}
Shape(st, v, i) ==
  \/ \E t : st = Table(t)
  \/ \E t, c : st = Column(t, c)
  \/ v = 1 /\ i = 1 /\ st = TableWith("characters", Columns)
  \/ v = 5 /\ i = 1 /\ st = Run("reject_duplicates")
  \/ v = 5 /\ i = 2 /\ st = Run("drop_plain_index")
  \/ v = 5 /\ i = 3 /\ st = Run("unique_index")
  \/ v = 11 /\ st = Run("default_tabs")
  \/ v = 14 /\ st = Run("import_inventions")

(* How many statements a migration has.                                    *)
HasLength(m, k) == DOMAIN m = 1 .. k /\ Len(m) = k

LEMMA MigrationLengths ==
  /\ \A m \in {initial_schema, character_gold, character_notes, character_current_hp,
               character_bonus_health, character_background_url} : HasLength(m, 1)
  /\ \A m \in {teams, accounts, custom_inventory_tables, character_note_tabs,
               roles_and_character_ownership} : HasLength(m, 2)
  /\ \A m \in {unique_character_slug, hearthstomancer_decks} : HasLength(m, 3)
  /\ HasLength(invengineer_inventions, 4)
<1>1. HasLength(initial_schema, 1)
  BY DEF initial_schema, HasLength
<1>2. HasLength(character_gold, 1)
  BY DEF character_gold, HasLength
<1>3. HasLength(character_notes, 1)
  BY DEF character_notes, HasLength
<1>4. HasLength(character_current_hp, 1)
  BY DEF character_current_hp, HasLength
<1>5. HasLength(character_bonus_health, 1)
  BY DEF character_bonus_health, HasLength
<1>6. HasLength(character_background_url, 1)
  BY DEF character_background_url, HasLength
<1>7. HasLength(teams, 2)
  BY DEF teams, HasLength
<1>8. HasLength(accounts, 2)
  BY DEF accounts, HasLength
<1>9. HasLength(custom_inventory_tables, 2)
  BY DEF custom_inventory_tables, HasLength
<1>10. HasLength(character_note_tabs, 2)
  BY DEF character_note_tabs, HasLength
<1>11. HasLength(roles_and_character_ownership, 2)
  BY DEF roles_and_character_ownership, HasLength
<1>12. HasLength(unique_character_slug, 3)
  BY DEF unique_character_slug, HasLength
<1>13. HasLength(hearthstomancer_decks, 3)
  BY DEF hearthstomancer_decks, HasLength
<1>14. HasLength(invengineer_inventions, 4)
  BY DEF invengineer_inventions, HasLength
<1>. QED
  BY <1>1, <1>2, <1>3, <1>4, <1>5, <1>6, <1>7, <1>8, <1>9, <1>10, <1>11, <1>12, <1>13, <1>14

LEMMA TableFields ==
  ASSUME NEW t
  PROVE  Table(t).op = "table" /\ Table(t).columns = {""}
  BY DEF Table, Statement

LEMMA ColumnFields ==
  ASSUME NEW t, NEW c
  PROVE  Column(t, c).op = "column" /\ Column(t, c).columns = {c}
  BY DEF Column, Statement

LEMMA RunFields ==
  ASSUME NEW name
  PROVE  Run(name).op = name /\ Run(name).columns = {}
  BY DEF Run, Statement

LEMMA TableWithFields ==
  ASSUME NEW t, NEW cols
  PROVE  /\ TableWith(t, cols).op = "table" /\ TableWith(t, cols).table = t
         /\ TableWith(t, cols).columns = {""} \cup cols
  BY DEF TableWith, Statement

LEMMA Statements ==
  ASSUME NEW v \in Versions, NEW i \in DOMAIN MIGRATIONS[v]
  PROVE  Shape(MIGRATIONS[v][i], v, i)
<1>v. v \in 1 .. 14
  BY VersionNumbers
<1>1. CASE v = 1
  <2>1. MIGRATIONS[v] = initial_schema
    BY <1>1 DEF MIGRATIONS
  <2>2. i = 1 /\ initial_schema[1] = TableWith("characters", Columns)
    BY <2>1, MigrationLengths DEF HasLength, initial_schema, Columns
  <2>. QED
    BY <1>1, <2>1, <2>2 DEF Shape
<1>2. CASE v \in {2, 3, 4, 6, 10}
  <2>1. MIGRATIONS[v] \in {character_gold, character_notes, character_current_hp,
                           character_bonus_health, character_background_url}
    BY <1>2 DEF MIGRATIONS
  <2>2. i = 1
    BY <2>1, MigrationLengths DEF HasLength
  <2>3. \E c : MIGRATIONS[v][i] = Column("characters", c)
    BY <2>1, <2>2
       DEF character_gold, character_notes, character_current_hp,
           character_bonus_health, character_background_url
  <2>. QED
    BY <2>3 DEF Shape
<1>3. CASE v = 5
  <2>1. MIGRATIONS[v] = unique_character_slug
    BY <1>3 DEF MIGRATIONS
  <2>2. i = 1 \/ i = 2 \/ i = 3
    BY <2>1, MigrationLengths DEF HasLength
  <2>3. /\ unique_character_slug[1] = Run("reject_duplicates")
        /\ unique_character_slug[2] = Run("drop_plain_index")
        /\ unique_character_slug[3] = Run("unique_index")
    BY DEF unique_character_slug
  <2>. QED
    BY <1>3, <2>1, <2>2, <2>3 DEF Shape
<1>4. CASE v \in {7, 8, 9}
  <2>1. MIGRATIONS[v] \in {teams, accounts, custom_inventory_tables}
    BY <1>4 DEF MIGRATIONS
  <2>2. i = 1 \/ i = 2
    BY <2>1, MigrationLengths DEF HasLength
  <2>3. \E t : MIGRATIONS[v][i] = Table(t)
    BY <2>1, <2>2 DEF teams, accounts, custom_inventory_tables
  <2>. QED
    BY <2>3 DEF Shape
<1>5. CASE v = 11
  <2>1. MIGRATIONS[v] = character_note_tabs
    BY <1>5 DEF MIGRATIONS
  <2>2. i = 1 \/ i = 2
    BY <2>1, MigrationLengths DEF HasLength
  <2>3. /\ character_note_tabs[1] = Table("character_notes")
        /\ character_note_tabs[2] = Run("default_tabs")
    BY DEF character_note_tabs
  <2>. QED
    BY <1>5, <2>1, <2>2, <2>3 DEF Shape
<1>6. CASE v = 12
  <2>1. MIGRATIONS[v] = roles_and_character_ownership
    BY <1>6 DEF MIGRATIONS
  <2>2. i = 1 \/ i = 2
    BY <2>1, MigrationLengths DEF HasLength
  <2>3. /\ roles_and_character_ownership[1] = Column("users", "role")
        /\ roles_and_character_ownership[2] = Column("characters", "owner_user_id")
    BY DEF roles_and_character_ownership
  <2>. QED
    BY <2>1, <2>2, <2>3 DEF Shape
<1>7. CASE v = 13
  <2>1. MIGRATIONS[v] = hearthstomancer_decks
    BY <1>7 DEF MIGRATIONS
  <2>2. i = 1 \/ i = 2 \/ i = 3
    BY <2>1, MigrationLengths DEF HasLength
  <2>3. /\ hearthstomancer_decks[1] = Table("character_decks")
        /\ hearthstomancer_decks[2] = Table("deck_card_definitions")
        /\ hearthstomancer_decks[3] = Table("deck_card_copies")
    BY DEF hearthstomancer_decks
  <2>. QED
    BY <2>1, <2>2, <2>3 DEF Shape
<1>8. CASE v = 14
  <2>1. MIGRATIONS[v] = invengineer_inventions
    BY <1>8 DEF MIGRATIONS
  <2>2. i = 1 \/ i = 2 \/ i = 3 \/ i = 4
    BY <2>1, MigrationLengths DEF HasLength
  <2>3. /\ invengineer_inventions[1] = Column("characters", "invengineer_enabled")
        /\ invengineer_inventions[2] = Table("inventions")
        /\ invengineer_inventions[3] = Table("character_inventions")
        /\ invengineer_inventions[4] = Run("import_inventions")
    BY DEF invengineer_inventions
  <2>. QED
    BY <1>8, <2>1, <2>2, <2>3 DEF Shape
<1>. QED
  BY <1>v, <1>1, <1>2, <1>3, <1>4, <1>5, <1>6, <1>7, <1>8

(* A database, and what a statement leaves in it.                          *)
Tabs == UNION {[S -> 0 .. 2] : S \in SUBSET Characters}
Database ==
  [columns : SUBSET AllColumns, index : {"none", "plain", "unique"},
   ledger : SUBSET Versions, duplicates : BOOLEAN, tabs : Tabs,
   inventions : BOOLEAN]

Made(st, d) ==
  /\ st.op = "table" => Exists(d, st.table, "")
  /\ st.op = "column" => \A c \in st.columns : Exists(d, st.table, c)
  /\ st.op = "reject_duplicates" => ~d.duplicates
  /\ st.op = "drop_plain_index" => d.index # "plain"
  /\ st.op = "unique_index" => d.index = "unique"
  /\ st.op = "default_tabs" => \A c \in DOMAIN d.tabs : d.tabs[c] > 0
  /\ st.op = "import_inventions" => d.inventions

OneTab(d) == \A c \in DOMAIN d.tabs : d.tabs[c] <= 1

(* What no statement takes back.                                           *)
Further(d, e) ==
  /\ d.columns \subseteq e.columns /\ e.ledger = d.ledger
  /\ e.duplicates = d.duplicates
  /\ e.index = "plain" => d.index = "plain"
  /\ d.index = "unique" => e.index = "unique"
  /\ DOMAIN e.tabs = DOMAIN d.tabs
  /\ \A c \in DOMAIN d.tabs : d.tabs[c] > 0 => e.tabs[c] > 0
  /\ OneTab(d) => OneTab(e)
  /\ d.inventions => e.inventions

LEMMA TabsDomain ==
  ASSUME NEW f
  PROVE  f \in Tabs <=> DOMAIN f \subseteq Characters /\ f \in [DOMAIN f -> 0 .. 2]
  BY DEF Tabs

LEMMA DefaultTabsTyped ==
  ASSUME NEW d \in Database
  PROVE  LET t == DefaultTabs(d) IN
         /\ t \in Tabs /\ DOMAIN t = DOMAIN d.tabs
         /\ \A c \in DOMAIN t : t[c] > 0
         /\ OneTab(d) => \A c \in DOMAIN t : t[c] <= 1
<1> DEFINE t == DefaultTabs(d)
<1>1. DOMAIN d.tabs \subseteq Characters /\ \A c \in DOMAIN d.tabs : d.tabs[c] \in 0 .. 2
  <2>1. d.tabs \in Tabs
    BY DEF Database
  <2>. QED
    BY <2>1, TabsDomain
<1>2. /\ DOMAIN t = DOMAIN d.tabs
      /\ \A c \in DOMAIN t : t[c] = IF d.tabs[c] = 0 THEN 1 ELSE d.tabs[c]
  BY DEF DefaultTabs
<1>f. t \in [DOMAIN t -> 0 .. 2]
  <2>1. t = [c \in DOMAIN d.tabs |-> IF d.tabs[c] = 0 THEN 1 ELSE d.tabs[c]]
    BY DEF DefaultTabs
  <2>2. \A c \in DOMAIN d.tabs : (IF d.tabs[c] = 0 THEN 1 ELSE d.tabs[c]) \in 0 .. 2
    BY <1>1
  <2> HIDE DEF t
  <2>. QED
    BY <2>1, <2>2
<1>3. t \in Tabs
  BY <1>1, <1>2, <1>f, TabsDomain
<1>4. \A c \in DOMAIN t : t[c] > 0
  BY <1>1, <1>2
<1>5. OneTab(d) => \A c \in DOMAIN t : t[c] <= 1
  BY <1>1, <1>2 DEF OneTab
<1>. QED
  BY <1>2, <1>3, <1>4, <1>5

LEMMA StatementColumns ==
  ASSUME NEW v \in Versions, NEW i \in DOMAIN MIGRATIONS[v]
  PROVE  {<<MIGRATIONS[v][i].table, c>> : c \in MIGRATIONS[v][i].columns} \subseteq AllColumns
  BY DEF ColumnsOf, AllColumns

(* A statement that creates a table creates the table itself.              *)
LEMMA TableStatements ==
  ASSUME NEW v \in Versions, NEW i \in DOMAIN MIGRATIONS[v],
         MIGRATIONS[v][i].op = "table"
  PROVE  "" \in MIGRATIONS[v][i].columns
<1> SUFFICES ASSUME NEW st, Shape(st, v, i), st.op = "table"
             PROVE  "" \in st.columns
  BY Statements
<1>1. CASE \E t : st = Table(t)
  BY <1>1, TableFields
<1>2. CASE \E t, c : st = Column(t, c)
  BY <1>2, ColumnFields
<1>3. CASE st = TableWith("characters", Columns)
  <2>1. st.columns = {""} \cup Columns
    BY <1>3, TableWithFields
  <2>. QED
    BY <2>1
<1>4. CASE \/ st = Run("reject_duplicates") \/ st = Run("drop_plain_index")
           \/ st = Run("unique_index") \/ st = Run("default_tabs")
           \/ st = Run("import_inventions")
  <2>1. st.op \in {"reject_duplicates", "drop_plain_index", "unique_index",
                   "default_tabs", "import_inventions"}
    BY <1>4, RunFields
  <2>. QED
    BY <2>1
<1>. QED
  BY <1>1, <1>2, <1>3, <1>4 DEF Shape

LEMMA EffectFurther ==
  ASSUME NEW d \in Database, NEW v \in Versions, NEW i \in DOMAIN MIGRATIONS[v]
  PROVE  LET st == MIGRATIONS[v][i]
             e == Effect(st, d)
         IN  /\ e \in Database /\ Further(d, e)
             /\ ~Fails(st, d) /\ (st.op = "unique_index" => d.index # "plain") => Made(st, e)
<1> DEFINE st == MIGRATIONS[v][i]
           e == Effect(st, d)
           cols == {<<st.table, c>> : c \in st.columns}
<1>c. cols \subseteq AllColumns
  BY StatementColumns
<1> HIDE DEF st
<1>s. st.op = "table" => "" \in st.columns
  BY TableStatements DEF st
<1>t. /\ DefaultTabs(d) \in Tabs /\ DOMAIN DefaultTabs(d) = DOMAIN d.tabs
      /\ \A c \in DOMAIN d.tabs : DefaultTabs(d)[c] > 0
      /\ OneTab(d) => \A c \in DOMAIN d.tabs : DefaultTabs(d)[c] <= 1
  BY DefaultTabsTyped
<1>d. Further(d, d)
  BY DEF Further
<1>1. CASE st.op = "table" /\ Exists(d, st.table, "")
  <2>1. e = d
    BY <1>1 DEF Effect
  <2>. QED
    BY <1>1, <1>d, <2>1 DEF Made, st
<1>2. CASE st.op = "column" \/ (st.op = "table" /\ ~Exists(d, st.table, ""))
  <2>1. e = [d EXCEPT !.columns = @ \cup cols]
    BY <1>2 DEF Effect
  <2>2. e \in Database /\ e.columns = d.columns \cup cols /\ Further(d, e)
    BY <2>1, <1>c DEF Database, Further, OneTab
  <2>3. Made(st, e)
    BY <1>2, <2>2, <1>s DEF Made, Exists
  <2>. QED
    BY <2>2, <2>3 DEF st
<1>3. CASE st.op = "drop_plain_index"
  <2>1. e = IF d.index = "plain" THEN [d EXCEPT !.index = "none"] ELSE d
    BY <1>3 DEF Effect, DropPlainIndex
  <2>2. e \in Database /\ e.index # "plain" /\ Further(d, e)
    BY <2>1, <1>d DEF Database, Further, OneTab
  <2>. QED
    BY <1>3, <2>2 DEF Made, st
<1>4. CASE st.op = "unique_index"
  <2>1. e = IF d.index = "none" THEN [d EXCEPT !.index = "unique"] ELSE d
    BY <1>4 DEF Effect
  <2>2. e \in Database /\ (d.index # "plain" => e.index = "unique") /\ Further(d, e)
    BY <2>1, <1>d DEF Database, Further, OneTab
  <2>. QED
    BY <1>4, <2>2 DEF Made, st
<1>5. CASE st.op = "default_tabs"
  <2>1. e = [d EXCEPT !.tabs = DefaultTabs(d)]
    BY <1>5 DEF Effect
  <2>2. e \in Database /\ e.tabs = DefaultTabs(d)
    BY <2>1, <1>t DEF Database
  <2>3. Further(d, e)
    BY <2>1, <2>2, <1>t DEF Database, Further, OneTab
  <2>. QED
    BY <1>5, <2>2, <2>3, <1>t DEF Made, st
<1>6. CASE st.op = "import_inventions"
  <2>1. e = [d EXCEPT !.inventions = TRUE]
    BY <1>6 DEF Effect
  <2>2. e \in Database /\ e.inventions /\ Further(d, e)
    BY <2>1 DEF Database, Further, OneTab
  <2>. QED
    BY <1>6, <2>2 DEF Made, st
<1>7. CASE st.op \notin {"table", "column", "drop_plain_index", "unique_index",
                         "default_tabs", "import_inventions"}
  <2>1. e = d
    BY <1>7 DEF Effect
  <2>2. ~Fails(st, d) => Made(st, e)
    BY <1>7, <2>1 DEF Made, Fails
  <2>. QED
    BY <1>d, <2>1, <2>2 DEF st
<1>. QED
  BY <1>1, <1>2, <1>3, <1>4, <1>5, <1>6, <1>7

LEMMA MadeStays ==
  ASSUME NEW d, NEW e, Further(d, e), NEW st, Made(st, d)
  PROVE  Made(st, e)
  BY DEF Further, Made, Exists

(* What the statements of all migrations leave, and a ledger that is true. *)
Truthful(d) ==
  \A v \in d.ledger :
    /\ ColumnsOf(v) \subseteq d.columns
    /\ v = 5 => d.index = "unique" /\ ~d.duplicates
    /\ v = 11 => \A c \in DOMAIN d.tabs : d.tabs[c] > 0
    /\ v = 14 => d.inventions

(* The statements of a recorded migration need not be executed again.      *)
LEMMA RecordedMade ==
  ASSUME NEW d, Truthful(d), NEW v \in Versions, v \in d.ledger,
         NEW i \in DOMAIN MIGRATIONS[v]
  PROVE  Made(MIGRATIONS[v][i], d)
<1> DEFINE st == MIGRATIONS[v][i]
<1>1. \A c \in st.columns : <<st.table, c>> \in d.columns
  BY DEF Truthful, ColumnsOf
<1>2. st.op = "table" => "" \in st.columns
  BY TableStatements
<1>3. Shape(st, v, i)
  BY Statements
<1> HIDE DEF st
<1>4. (st.op = "table" => Exists(d, st.table, ""))
      /\ (st.op = "column" => \A c \in st.columns : Exists(d, st.table, c))
  BY <1>1, <1>2 DEF Exists
<1>5. CASE st.op \in {"table", "column"}
  BY <1>4, <1>5 DEF Made, st
<1>6. CASE st.op \notin {"table", "column"}
  <2>1. /\ ~ \E t : st = Table(t)
        /\ ~ \E t, c : st = Column(t, c)
        /\ st # TableWith("characters", Columns)
    <3>1. ASSUME NEW t, st = Table(t) PROVE st.op = "table"
      BY <3>1, TableFields
    <3>2. ASSUME NEW t, NEW c, st = Column(t, c) PROVE st.op = "column"
      BY <3>2, ColumnFields
    <3>3. ASSUME st = TableWith("characters", Columns) PROVE st.op = "table"
      BY <3>3, TableWithFields
    <3>. QED
      BY <1>6, <3>1, <3>2, <3>3
  <2>3. CASE v = 5 /\ (st.op \in {"reject_duplicates", "drop_plain_index", "unique_index"})
    BY <2>3 DEF Made, Truthful, st
  <2>4. CASE v = 11 /\ st.op = "default_tabs"
    BY <2>4 DEF Made, Truthful, st
  <2>5. CASE v = 14 /\ st.op = "import_inventions"
    BY <2>5 DEF Made, Truthful, st
  <2>6. /\ v = 5 /\ i = 1 /\ st = Run("reject_duplicates") => st.op = "reject_duplicates"
        /\ v = 5 /\ i = 2 /\ st = Run("drop_plain_index") => st.op = "drop_plain_index"
        /\ v = 5 /\ i = 3 /\ st = Run("unique_index") => st.op = "unique_index"
        /\ v = 11 /\ st = Run("default_tabs") => st.op = "default_tabs"
        /\ v = 14 /\ st = Run("import_inventions") => st.op = "import_inventions"
    BY RunFields
  <2>. QED
    BY <1>3, <2>1, <2>3, <2>4, <2>5, <2>6 DEF Shape
<1>. QED
  BY <1>5, <1>6

AllMade(d) ==
  \A v \in Versions : \A i \in DOMAIN MIGRATIONS[v] : Made(MIGRATIONS[v][i], d)

(* A column that a statement of CREATE TABLE has not added, because the    *)
(* table was there, is added by a later migration.                         *)
LEMMA LaterColumns ==
  ASSUME NEW d, AllMade(d), NEW c \in Columns
  PROVE  Exists(d, "characters", c)
<1>1. \A v \in {2, 3, 4, 6, 10} : v \in Versions /\ 1 \in DOMAIN MIGRATIONS[v]
  <2>1. \A v \in {2, 3, 4, 6, 10} :
          MIGRATIONS[v] \in {character_gold, character_notes, character_current_hp,
                             character_bonus_health, character_background_url}
    BY DEF MIGRATIONS
  <2>. QED
    BY <2>1, MigrationLengths, VersionNumbers DEF HasLength
<1>2. \E v \in {2, 3, 4, 6, 10} : MIGRATIONS[v][1] = Column("characters", c)
  <2>1. /\ MIGRATIONS[2][1] = Column("characters", "gold")
        /\ MIGRATIONS[3][1] = Column("characters", "notes")
        /\ MIGRATIONS[4][1] = Column("characters", "current_hp")
        /\ MIGRATIONS[6][1] = Column("characters", "bonus_health")
        /\ MIGRATIONS[10][1] = Column("characters", "background_url")
    BY DEF MIGRATIONS, character_gold, character_notes, character_current_hp,
           character_bonus_health, character_background_url
  <2>. QED
    BY <2>1 DEF Columns
<1>3. Made(Column("characters", c), d)
  BY <1>1, <1>2 DEF AllMade
<1>4. /\ Column("characters", c).op = "column" /\ Column("characters", c).table = "characters"
      /\ Column("characters", c).columns = {c}
  BY DEF Column, Statement
<1>. QED
  BY <1>3, <1>4 DEF Made

LEMMA AllMadeComplete ==
  ASSUME NEW d, AllMade(d)
  PROVE  /\ \A v \in Versions : ColumnsOf(v) \subseteq d.columns
         /\ d.index = "unique" /\ ~d.duplicates /\ d.inventions
         /\ \A c \in DOMAIN d.tabs : d.tabs[c] > 0
<1>1. ASSUME NEW v \in Versions, NEW i \in DOMAIN MIGRATIONS[v],
             NEW c \in MIGRATIONS[v][i].columns
      PROVE  Exists(d, MIGRATIONS[v][i].table, c)
  <2> DEFINE st == MIGRATIONS[v][i]
  <2>1. Made(st, d) /\ Shape(st, v, i) /\ c \in st.columns
    BY <1>1, Statements DEF AllMade
  <2> HIDE DEF st
  <2> SUFFICES Exists(d, st.table, c)
    BY DEF st
  <2>2. ASSUME NEW t, st = Table(t) PROVE Exists(d, st.table, c)
    <3>1. st.op = "table" /\ c = ""
      BY <2>1, <2>2, TableFields
    <3>. QED
      BY <2>1, <3>1 DEF Made
  <2>3. ASSUME NEW t, NEW k, st = Column(t, k) PROVE Exists(d, st.table, c)
    <3>1. st.op = "column"
      BY <2>3, ColumnFields
    <3>. QED
      BY <2>1, <3>1 DEF Made
  <2>4. CASE st = TableWith("characters", Columns)
    <3>1. st.op = "table" /\ st.table = "characters" /\ st.columns = {""} \cup Columns
      BY <2>4, TableWithFields
    <3>2. CASE c = ""
      BY <2>1, <3>1, <3>2 DEF Made
    <3>3. CASE c \in Columns
      BY <3>1, <3>3, LaterColumns
    <3>. QED
      BY <2>1, <3>1, <3>2, <3>3
  <2>5. ASSUME NEW name, st = Run(name) PROVE FALSE
    BY <2>1, <2>5, RunFields
  <2>. QED
    BY <2>1, <2>2, <2>3, <2>4, <2>5 DEF Shape
<1>2. \A v \in Versions : ColumnsOf(v) \subseteq d.columns
  BY <1>1 DEF ColumnsOf, Exists
<1>3. /\ Made(Run("reject_duplicates"), d) /\ Made(Run("unique_index"), d)
      /\ Made(Run("default_tabs"), d) /\ Made(Run("import_inventions"), d)
  <2>1. /\ MIGRATIONS[5] = unique_character_slug /\ MIGRATIONS[11] = character_note_tabs
        /\ MIGRATIONS[14] = invengineer_inventions
    BY DEF MIGRATIONS
  <2>2. /\ unique_character_slug[1] = Run("reject_duplicates")
        /\ unique_character_slug[3] = Run("unique_index")
        /\ character_note_tabs[2] = Run("default_tabs")
        /\ invengineer_inventions[4] = Run("import_inventions")
    BY DEF unique_character_slug, character_note_tabs, invengineer_inventions
  <2>3. /\ 1 \in DOMAIN MIGRATIONS[5] /\ 3 \in DOMAIN MIGRATIONS[5]
        /\ 2 \in DOMAIN MIGRATIONS[11] /\ 4 \in DOMAIN MIGRATIONS[14]
    BY <2>1, MigrationLengths DEF HasLength
  <2>4. 5 \in Versions /\ 11 \in Versions /\ 14 \in Versions
    BY VersionNumbers
  <2>. QED
    BY <2>1, <2>2, <2>3, <2>4 DEF AllMade
<1>4. /\ Run("reject_duplicates").op = "reject_duplicates"
      /\ Run("unique_index").op = "unique_index"
      /\ Run("default_tabs").op = "default_tabs"
      /\ Run("import_inventions").op = "import_inventions"
  BY RunFields
<1>. QED
  BY <1>2, <1>3, <1>4 DEF Made

(* The migration that is next after v, where the first n are recorded.     *)
LEMMA PendingNext ==
  ASSUME NEW n \in 0 .. 14, NEW v \in 0 .. 14, v = 0 \/ n <= v
  PROVE  Pending(v, 1 .. n) = IF v < n THEN n + 1 ELSE v + 1
<1> DEFINE S == (v + 1 .. Len(MIGRATIONS) + 1) \ (1 .. n)
           m == IF v < n THEN n + 1 ELSE v + 1
<1>1. Len(MIGRATIONS) = 14
  BY VersionNumbers
<1>2. m \in S /\ \A x \in S : m <= x
  BY <1>1
<1>3. \A x \in S : (\A y \in S : x <= y) => x = m
  BY <1>1, <1>2
<1> HIDE DEF S, m
<1>4. Min(S) = m
  BY <1>2, <1>3 DEF Min
<1>. QED
  BY <1>4 DEF Pending, S, m

LEMMA StatementNumbers ==
  ASSUME NEW v \in Versions
  PROVE  /\ Len(MIGRATIONS[v]) \in Nat
         /\ DOMAIN MIGRATIONS[v] = 1 .. Len(MIGRATIONS[v])
<1> SUFFICES \E k \in Nat : DOMAIN MIGRATIONS[v] = 1 .. k /\ Len(MIGRATIONS[v]) = k
  OBVIOUS
<1>v. v \in 1 .. 14
  BY VersionNumbers
<1>1. CASE v \in {1, 2, 3, 4, 6, 10}
  <2>1. MIGRATIONS[v] \in {initial_schema, character_gold, character_notes,
                           character_current_hp, character_bonus_health,
                           character_background_url}
    BY <1>1 DEF MIGRATIONS
  <2>. QED
    BY <2>1, MigrationLengths DEF HasLength
<1>2. CASE v \in {7, 8, 9, 11, 12}
  <2>1. MIGRATIONS[v] \in {teams, accounts, custom_inventory_tables, character_note_tabs,
                           roles_and_character_ownership}
    BY <1>2 DEF MIGRATIONS
  <2>. QED
    BY <2>1, MigrationLengths DEF HasLength
<1>3. CASE v \in {5, 13}
  <2>1. MIGRATIONS[v] \in {unique_character_slug, hearthstomancer_decks}
    BY <1>3 DEF MIGRATIONS
  <2>. QED
    BY <2>1, MigrationLengths DEF HasLength
<1>4. CASE v = 14
  <2>1. MIGRATIONS[v] = invengineer_inventions
    BY <1>4 DEF MIGRATIONS
  <2>. QED
    BY <2>1, MigrationLengths DEF HasLength
<1>. QED
  BY <1>v, <1>1, <1>2, <1>3, <1>4

(* The statements that have been executed are done, those of the recorded  *)
(* migrations and those before the next one.                               *)
Before(v, i) == v < at[1] \/ (v = at[1] /\ i < at[2])

(* The ledger has the first migrations.                                    *)
InOrder ==
  \E n \in 0 .. 14 : /\ disk.ledger = 1 .. n
                     /\ phase = "migrating" => n < at[1]

UpgradeInv ==
  /\ TypeOK /\ LedgerTruthful /\ OneTab(disk) /\ OneTab(conn) /\ InOrder
  /\ open => phase = "migrating"
  /\ phase = "migrating" =>
       /\ applied = disk.ledger
       /\ at[1] \in 1 .. 15
       /\ conn.ledger = 1 .. (at[1] - 1)
       /\ \A v \in Versions : \A i \in DOMAIN MIGRATIONS[v] :
            Before(v, i) => Made(MIGRATIONS[v][i], conn)
  /\ ServesUpToDate

LEMMA Truth == LedgerTruthful <=> Truthful(disk)
  BY DEF LedgerTruthful, Truthful

LEMMA TruthStays ==
  ASSUME NEW d, NEW e, Truthful(d), Further(d, e)
  PROVE  Truthful(e)
  BY DEF Truthful, Further

LEMMA TypeFacts ==
  ASSUME TypeOK
  PROVE  /\ disk \in Database /\ conn \in Database
         /\ at \in Seq(Nat) /\ Len(at) = 2 /\ at[1] \in Nat /\ at[2] \in Nat
         /\ (~open => conn = disk) /\ open \in BOOLEAN
         /\ applied \subseteq Versions /\ crashes \in 0 .. MaxCrashes
<1>1. at \in Seq(Nat) /\ Len(at) = 2
  BY DEF TypeOK
<1>2. at[1] \in Nat /\ at[2] \in Nat
  <2>1. 1 \in 1 .. Len(at) /\ 2 \in 1 .. Len(at)
    BY <1>1
  <2>. QED
    BY <1>1, <2>1, ElementOfSeq
<1>. QED
  BY <1>1, <1>2 DEF TypeOK, Database, Tabs

LEMMA TypeAgain ==
  ASSUME disk' \in Database, conn' \in Database, phase' \in {"down", "migrating", "serving"},
         applied' \subseteq Versions, at' \in Seq(Nat), Len(at') = 2,
         open' \in BOOLEAN, ~open' => conn' = disk', crashes' \in 0 .. MaxCrashes
  PROVE  TypeOK'
  BY DEF TypeOK, Database, Tabs, AllColumns, ColumnsOf, Versions, MIGRATIONS

(* A process that is not there: what was not committed is gone.            *)
LEMMA DownKeeps ==
  ASSUME UpgradeInv, phase' = "down", conn' = disk, open' = FALSE,
         UNCHANGED <<disk, applied, at>>, crashes' \in 0 .. MaxCrashes
  PROVE  UpgradeInv'
<1>1. TypeOK'
  BY TypeFacts, TypeAgain DEF UpgradeInv, TypeOK
<1>2. LedgerTruthful' /\ OneTab(disk)' /\ OneTab(conn)' /\ ServesUpToDate'
  BY DEF UpgradeInv, LedgerTruthful, OneTab, ServesUpToDate
<1>3. InOrder'
  BY DEF UpgradeInv, InOrder
<1>. QED
  BY <1>1, <1>2, <1>3 DEF UpgradeInv

LEMMA StartKeeps ==
  ASSUME UpgradeInv, Start
  PROVE  UpgradeInv'
<1>t. TypeOK /\ Truthful(disk) /\ disk \in Database /\ crashes \in 0 .. MaxCrashes
  BY Truth, TypeFacts DEF UpgradeInv
<1>1. /\ phase' = "migrating" /\ applied' = disk.ledger /\ conn' = disk /\ open' = FALSE
      /\ at' = <<Pending(0, disk.ledger), 1>> /\ UNCHANGED <<disk, crashes>>
  BY DEF Start
<1>2. PICK n \in 0 .. 14 : disk.ledger = 1 .. n
  BY DEF UpgradeInv, InOrder
<1>3. at' = <<n + 1, 1>>
  <2>1. Pending(0, 1 .. n) = IF 0 < n THEN n + 1 ELSE 0 + 1
    <3>1. 0 \in 0 .. 14
      OBVIOUS
    <3>. QED
      BY <3>1, PendingNext
  <2>. QED
    BY <1>1, <1>2, <2>1
<1>4. TypeOK'
  <2>1. disk.ledger \subseteq Versions
    BY <1>t DEF Database
  <2>2. at' \in Seq(Nat) /\ Len(at') = 2
    BY <1>3
  <2>. QED
    BY <1>1, <1>t, <2>1, <2>2, TypeAgain
<1>5. LedgerTruthful' /\ OneTab(disk)' /\ OneTab(conn)' /\ ServesUpToDate'
  BY <1>1 DEF UpgradeInv, LedgerTruthful, OneTab, ServesUpToDate
<1>6. InOrder' /\ at'[1] \in 1 .. 15 /\ conn'.ledger = 1 .. (at'[1] - 1)
  <2>1. at'[1] = n + 1 /\ n < n + 1 /\ n + 1 \in 1 .. 15 /\ (n + 1) - 1 = n
    BY <1>3
  <2>. QED
    BY <1>1, <1>2, <2>1 DEF InOrder
<1>7. ASSUME NEW v \in Versions, NEW i \in DOMAIN MIGRATIONS[v], Before(v, i)'
      PROVE  Made(MIGRATIONS[v][i], disk)
  <2>1. v \in 1 .. n
    <3>1. v \in 1 .. 14 /\ i \in Nat /\ i >= 1
      <4>1. i \in 1 .. Len(MIGRATIONS[v]) /\ Len(MIGRATIONS[v]) \in Nat
        BY StatementNumbers
      <4>. QED
        BY <4>1, VersionNumbers
    <3>2. at'[1] = n + 1 /\ at'[2] = 1
      BY <1>3
    <3>. QED
      BY <1>7, <3>1, <3>2 DEF Before
  <2>. QED
    BY <1>t, <1>2, <2>1, RecordedMade
<1>8. \A v \in Versions : \A i \in DOMAIN MIGRATIONS[v] :
        Before(v, i)' => Made(MIGRATIONS[v][i], conn)'
  BY <1>1, <1>7 DEF Made, Exists
<1>. QED
  BY <1>1, <1>4, <1>5, <1>6, <1>8 DEF UpgradeInv

(* The plain index has been dropped when the unique one is created.        *)
LEMMA PlainDropped ==
  ASSUME UpgradeInv, Execute
  PROVE  Current.op = "unique_index" => conn.index # "plain"
<1>1. /\ at[1] \in Versions /\ phase = "migrating"
      /\ at[2] \in DOMAIN MIGRATIONS[at[1]]
  BY DEF Execute, InMigration
<1>2. Shape(Current, at[1], at[2])
  BY <1>1, Statements DEF Current
<1> SUFFICES ASSUME Current.op = "unique_index" PROVE conn.index # "plain"
  OBVIOUS
<1>3. at[1] = 5 /\ at[2] = 3
  <2>1. /\ \A t : Table(t).op = "table"
        /\ \A t, c : Column(t, c).op = "column"
    BY TableFields, ColumnFields
  <2>4. TableWith("characters", Columns).op = "table"
    BY DEF TableWith, Statement
  <2>2. /\ Run("reject_duplicates").op = "reject_duplicates"
        /\ Run("drop_plain_index").op = "drop_plain_index"
        /\ Run("default_tabs").op = "default_tabs"
        /\ Run("import_inventions").op = "import_inventions"
    BY RunFields
  <2>. QED
    BY <1>2, <2>1, <2>2, <2>4 DEF Shape
<1>4. 5 \in Versions /\ 2 \in DOMAIN MIGRATIONS[5] /\ MIGRATIONS[5][2] = Run("drop_plain_index")
  <2>1. MIGRATIONS[5] = unique_character_slug
    BY DEF MIGRATIONS
  <2>2. unique_character_slug[2] = Run("drop_plain_index")
    BY DEF unique_character_slug
  <2>3. DOMAIN unique_character_slug = 1 .. 3
    BY MigrationLengths DEF HasLength
  <2>4. 2 \in 1 .. 3 /\ 5 \in 1 .. 14
    OBVIOUS
  <2>5. 5 \in Versions
    BY <2>4, VersionNumbers
  <2>6. 2 \in DOMAIN MIGRATIONS[5]
    BY <2>1, <2>3, <2>4
  <2>. QED
    BY <2>1, <2>2, <2>5, <2>6
<1>5. Made(Run("drop_plain_index"), conn)
  <2>1. Before(5, 2)
    <3>1. 5 = at[1] /\ 2 < at[2]
      BY <1>3, TypeFacts DEF UpgradeInv
    <3>. QED
      BY <3>1 DEF Before
  <2>. QED
    BY <1>1, <1>4, <2>1 DEF UpgradeInv
<1>6. Run("drop_plain_index").op = "drop_plain_index"
  BY RunFields
<1>. QED
  BY <1>5, <1>6 DEF Made

LEMMA ExecuteKeeps ==
  ASSUME UpgradeInv, Execute
  PROVE  UpgradeInv'
<1>t. /\ TypeOK /\ Truthful(disk) /\ OneTab(disk) /\ OneTab(conn)
      /\ disk \in Database /\ conn \in Database
      /\ at[1] \in Nat /\ at[2] \in Nat /\ (~open => conn = disk)
  BY Truth, TypeFacts DEF UpgradeInv
<1>1. /\ InMigration /\ at[1] \in Versions /\ at[2] \in DOMAIN MIGRATIONS[at[1]]
      /\ phase = "migrating" /\ phase' = "migrating"
      /\ ~Fails(Current, conn) /\ conn' = Effect(Current, conn)
      /\ open' = (open \/ IsInsert(Current)) /\ disk' = IF open' THEN disk ELSE conn'
      /\ at' = [at EXCEPT ![2] = @ + 1] /\ UNCHANGED <<applied, crashes>>
  BY DEF Execute, InMigration
<1>2. conn' \in Database /\ Further(conn, conn') /\ Made(Current, conn')
  BY <1>1, <1>t, PlainDropped, EffectFurther DEF Current
<1>3. /\ disk' \in Database /\ Truthful(disk') /\ OneTab(disk') /\ OneTab(conn')
      /\ disk'.ledger = disk.ledger /\ conn'.ledger = conn.ledger
  <2>1. OneTab(conn') /\ conn'.ledger = conn.ledger
    BY <1>2, <1>t DEF Further
  <2>2. CASE open'
    BY <1>1, <1>t, <2>1, <2>2
  <2>3. CASE ~open'
    <3>1. ~open /\ disk' = conn' /\ conn = disk
      BY <1>1, <1>t, <2>3
    <3>. QED
      BY <1>2, <1>t, <2>1, <3>1, TruthStays
  <2>. QED
    BY <2>1, <2>2, <2>3
<1>4. at' \in Seq(Nat) /\ Len(at') = 2 /\ at'[1] = at[1] /\ at'[2] = at[2] + 1
  <2>1. at \in Seq(Nat) /\ Len(at) = 2 /\ 2 \in 1 .. Len(at) /\ 1 \in 1 .. Len(at)
    BY <1>t DEF TypeOK
  <2>2. at[2] + 1 \in Nat /\ at' = [at EXCEPT ![2] = at[2] + 1]
    BY <1>1, <1>t
  <2>. QED
    BY <2>1, <2>2, ExceptSeq
<1>5. TypeOK'
  <2>1. open' \in BOOLEAN /\ (~open' => conn' = disk')
    BY <1>1
  <2>. QED
    BY <1>1, <1>2, <1>3, <1>4, <1>t, <2>1, TypeFacts, TypeAgain
<1>6. LedgerTruthful' /\ OneTab(disk)' /\ OneTab(conn)' /\ ServesUpToDate' /\ InOrder'
  BY <1>1, <1>3, <1>4
     DEF UpgradeInv, LedgerTruthful, Truthful, OneTab, ServesUpToDate, InOrder
<1>7. applied' = disk'.ledger /\ at'[1] \in 1 .. 15 /\ conn'.ledger = 1 .. (at'[1] - 1)
  BY <1>1, <1>3, <1>4 DEF UpgradeInv
<1>8. ASSUME NEW v \in Versions, NEW i \in DOMAIN MIGRATIONS[v], Before(v, i)'
      PROVE  Made(MIGRATIONS[v][i], conn')
  <2>1. v \in Nat /\ i \in Nat
    <3>1. i \in 1 .. Len(MIGRATIONS[v]) /\ Len(MIGRATIONS[v]) \in Nat
      BY StatementNumbers
    <3>. QED
      BY <3>1, VersionNumbers
  <2>2. Before(v, i) \/ (v = at[1] /\ i = at[2])
    BY <1>4, <1>8, <1>t, <2>1 DEF Before
  <2>3. CASE Before(v, i)
    <3>1. Made(MIGRATIONS[v][i], conn)
      BY <1>1, <2>3 DEF UpgradeInv
    <3>. QED
      BY <1>2, <3>1, MadeStays
  <2>4. CASE v = at[1] /\ i = at[2]
    BY <1>2, <2>4 DEF Current
  <2>. QED
    BY <2>2, <2>3, <2>4
<1>9. \A v \in Versions : \A i \in DOMAIN MIGRATIONS[v] :
        Before(v, i)' => Made(MIGRATIONS[v][i], conn)'
  BY <1>8 DEF Made, Exists
<1>. QED
  BY <1>1, <1>5, <1>6, <1>7, <1>9 DEF UpgradeInv

LEMMA RecordKeeps ==
  ASSUME UpgradeInv, Record
  PROVE  UpgradeInv'
<1>t. /\ TypeOK /\ Truthful(disk) /\ OneTab(disk) /\ OneTab(conn)
      /\ disk \in Database /\ conn \in Database
      /\ at[1] \in Nat /\ at[2] \in Nat
  BY Truth, TypeFacts DEF UpgradeInv
<1>1. /\ phase = "migrating" /\ phase' = "migrating" /\ at[1] \in Versions
      /\ at[2] = Len(MIGRATIONS[at[1]]) + 1
      /\ conn' = [conn EXCEPT !.ledger = @ \cup {at[1]}] /\ open' = TRUE
      /\ at' = <<Pending(at[1], applied), 1>> /\ UNCHANGED <<disk, applied, crashes>>
  BY DEF Record, InMigration
<1>2. PICK n \in 0 .. 14 : disk.ledger = 1 .. n /\ n < at[1]
  BY <1>1 DEF UpgradeInv, InOrder
<1>3. at[1] \in 1 .. 14
  BY <1>1, VersionNumbers
<1>4. at'[1] = at[1] + 1 /\ at'[2] = 1 /\ at' \in Seq(Nat) /\ Len(at') = 2
  <2>1. at[1] \in 0 .. 14 /\ n <= at[1] /\ ~(at[1] < n)
    BY <1>2, <1>3
  <2>2. Pending(at[1], 1 .. n) = at[1] + 1
    BY <2>1, PendingNext
  <2>3. applied = 1 .. n
    BY <1>1, <1>2 DEF UpgradeInv
  <2>4. at' = <<at[1] + 1, 1>>
    BY <1>1, <2>2, <2>3
  <2>. QED
    BY <1>t, <2>4
<1>5. /\ conn' \in Database /\ OneTab(conn') /\ Further([conn EXCEPT !.ledger = @ \cup {at[1]}], conn')
      /\ conn'.ledger = conn.ledger \cup {at[1]}
  BY <1>1, <1>t DEF Database, OneTab, Further
<1>6. conn'.ledger = 1 .. (at'[1] - 1) /\ at'[1] \in 1 .. 15
  <2>1. conn.ledger = 1 .. (at[1] - 1)
    BY <1>1 DEF UpgradeInv
  <2>2. (1 .. (at[1] - 1)) \cup {at[1]} = 1 .. at[1]
    BY <1>3
  <2>3. at'[1] - 1 = at[1] /\ at'[1] \in 1 .. 15
    BY <1>3, <1>4
  <2>. QED
    BY <1>5, <2>1, <2>2, <2>3
<1>7. TypeOK'
  BY <1>1, <1>4, <1>5, <1>t, TypeFacts, TypeAgain
<1>8. LedgerTruthful' /\ OneTab(disk)' /\ OneTab(conn)' /\ ServesUpToDate'
  BY <1>1, <1>5 DEF UpgradeInv, LedgerTruthful, OneTab, ServesUpToDate
<1>9. InOrder'
  <2>1. n < at'[1]
    BY <1>2, <1>3, <1>4
  <2>. QED
    BY <1>1, <1>2, <2>1 DEF InOrder
<1>10. ASSUME NEW v \in Versions, NEW i \in DOMAIN MIGRATIONS[v], Before(v, i)'
       PROVE  Made(MIGRATIONS[v][i], conn)'
  <2>1. v \in Nat /\ i \in Nat /\ i >= 1 /\ i <= Len(MIGRATIONS[v])
        /\ Len(MIGRATIONS[v]) \in Nat
    <3>1. i \in 1 .. Len(MIGRATIONS[v]) /\ Len(MIGRATIONS[v]) \in Nat
      BY StatementNumbers
    <3>. QED
      BY <3>1, VersionNumbers
  <2>2. v < at[1] + 1
    BY <1>4, <1>10, <1>t, <2>1 DEF Before
  <2>3. Before(v, i)
    <3>1. CASE v < at[1]
      BY <3>1 DEF Before
    <3>2. CASE v = at[1]
      BY <1>1, <2>1, <3>2 DEF Before
    <3>. QED
      BY <1>t, <2>1, <2>2, <3>1, <3>2
  <2>4. Made(MIGRATIONS[v][i], conn)
    BY <1>1, <2>3 DEF UpgradeInv
  <2>. QED
    BY <1>1, <1>t, <2>4 DEF Made, Exists, Database
<1>. QED
  BY <1>1, <1>6, <1>7, <1>8, <1>9, <1>10 DEF UpgradeInv

LEMMA ServeKeeps ==
  ASSUME UpgradeInv, Serve
  PROVE  UpgradeInv' /\ disk'.ledger = Versions
<1>t. /\ TypeOK /\ OneTab(conn) /\ disk \in Database /\ conn \in Database
      /\ at \in Seq(Nat) /\ Len(at) = 2
  BY TypeFacts DEF UpgradeInv
<1>1. /\ phase = "migrating" /\ phase' = "serving" /\ at[1] \notin Versions
      /\ disk' = conn /\ open' = FALSE /\ UNCHANGED <<conn, applied, at, crashes>>
  BY DEF Serve
<1>2. at[1] = 15
  BY <1>1, VersionNumbers DEF UpgradeInv
<1>3. conn.ledger = 1 .. 14 /\ conn.ledger = Versions
  <2>1. conn.ledger = 1 .. (at[1] - 1)
    BY <1>1 DEF UpgradeInv
  <2>2. at[1] - 1 = 14
    BY <1>2
  <2>. QED
    BY <2>1, <2>2, VersionNumbers
<1>4. AllMade(conn)
  <2>1. ASSUME NEW v \in Versions, NEW i \in DOMAIN MIGRATIONS[v]
        PROVE  Before(v, i)
    BY <1>2, VersionNumbers DEF Before
  <2>. QED
    BY <1>1, <2>1 DEF AllMade, UpgradeInv
<1>5. Truthful(conn)
  BY <1>3, <1>4, AllMadeComplete DEF Truthful
<1>6. TypeOK'
  BY <1>1, <1>t, TypeFacts, TypeAgain
<1>7. LedgerTruthful' /\ OneTab(disk)' /\ OneTab(conn)' /\ ServesUpToDate'
  BY <1>1, <1>t, <1>3, <1>5 DEF LedgerTruthful, Truthful, OneTab, ServesUpToDate, Versions
<1>8. InOrder'
  BY <1>1, <1>3 DEF InOrder
<1>. QED
  BY <1>1, <1>3, <1>6, <1>7, <1>8 DEF UpgradeInv

LEMMA AbortKeeps ==
  ASSUME UpgradeInv, Abort \/ Crash
  PROVE  UpgradeInv'
<1>1. /\ phase' = "down" /\ conn' = disk /\ open' = FALSE
      /\ UNCHANGED <<disk, applied, at>> /\ crashes' \in 0 .. MaxCrashes
  <2>1. crashes \in 0 .. MaxCrashes
    BY TypeFacts DEF UpgradeInv
  <2>. QED
    BY <2>1, CrashAssumption DEF Abort, Crash
<1>. QED
  BY <1>1, DownKeeps

(* A process that does not migrate changes rows, here characters and their *)
(* slugs; neither the schema nor the ledger.                               *)
LEMMA RowsKeep ==
  ASSUME UpgradeInv, phase # "migrating", disk' \in Database, conn' = disk',
         UNCHANGED <<open, phase, applied, at, crashes>>,
         disk'.ledger = disk.ledger, disk'.columns = disk.columns,
         disk'.index = disk.index, disk'.inventions = disk.inventions,
         disk'.duplicates => disk.duplicates \/ 5 \notin disk.ledger,
         11 \in disk.ledger => \A c \in DOMAIN disk'.tabs : disk'.tabs[c] > 0,
         OneTab(disk')
  PROVE  UpgradeInv'
<1>1. TypeOK'
  <2>1. open = FALSE
    BY TypeFacts DEF UpgradeInv
  <2>2. UNCHANGED at => at' \in Seq(Nat) /\ Len(at') = 2
    BY TypeFacts DEF UpgradeInv
  <2>. QED
    BY <2>1, <2>2, TypeFacts, TypeAgain DEF UpgradeInv, TypeOK
<1>2. LedgerTruthful'
  BY DEF UpgradeInv, LedgerTruthful
<1>3. OneTab(disk)' /\ OneTab(conn)' /\ ServesUpToDate' /\ InOrder'
  BY DEF UpgradeInv, OneTab, ServesUpToDate, InOrder
<1>. QED
  BY <1>1, <1>2, <1>3 DEF UpgradeInv

(* A character is created, with n default tabs.                            *)
Created(c, n) == [d \in DOMAIN disk.tabs \cup {c} |-> IF d = c THEN n ELSE disk.tabs[d]]

LEMMA CreatedTabs ==
  ASSUME disk \in Database, NEW c \in Characters \ DOMAIN disk.tabs, NEW n \in {0, 1}
  PROVE  /\ Created(c, n) \in Tabs
         /\ DOMAIN Created(c, n) = DOMAIN disk.tabs \cup {c} /\ Created(c, n)[c] = n
         /\ \A d \in DOMAIN disk.tabs : Created(c, n)[d] = disk.tabs[d]
         /\ OneTab(disk) => \A d \in DOMAIN Created(c, n) : Created(c, n)[d] <= 1
<1> DEFINE tabs == Created(c, n)
<1>1. DOMAIN disk.tabs \subseteq Characters /\ \A d \in DOMAIN disk.tabs : disk.tabs[d] \in 0 .. 2
  <2>1. disk.tabs \in Tabs
    BY DEF Database
  <2>. QED
    BY <2>1, TabsDomain
<1>2. /\ DOMAIN tabs = DOMAIN disk.tabs \cup {c} /\ tabs[c] = n
      /\ \A d \in DOMAIN disk.tabs : tabs[d] = disk.tabs[d]
  BY DEF Created
<1>3. tabs \in [DOMAIN tabs -> 0 .. 2]
  BY <1>1 DEF Created
<1> HIDE DEF tabs
<1>4. tabs \in Tabs
  BY <1>1, <1>2, <1>3, TabsDomain
<1>5. OneTab(disk) => \A d \in DOMAIN tabs : tabs[d] <= 1
  BY <1>2 DEF OneTab
<1>. QED
  BY <1>2, <1>4, <1>5 DEF tabs

LEMMA WorkKeeps ==
  ASSUME UpgradeInv, Work
  PROVE  UpgradeInv' /\ disk'.ledger = disk.ledger
<1>t. disk \in Database /\ Truthful(disk) /\ OneTab(disk)
  BY Truth, TypeFacts DEF UpgradeInv
<1>1. PICK c \in Characters \ DOMAIN disk.tabs : disk' = [disk EXCEPT !.tabs = Created(c, 1)]
  BY DEF Work, Created
<1>2. /\ Created(c, 1) \in Tabs
      /\ DOMAIN Created(c, 1) = DOMAIN disk.tabs \cup {c} /\ Created(c, 1)[c] = 1
      /\ \A d \in DOMAIN disk.tabs : Created(c, 1)[d] = disk.tabs[d]
      /\ \A d \in DOMAIN Created(c, 1) : Created(c, 1)[d] <= 1
  BY <1>t, CreatedTabs
<1>3. /\ disk' \in Database /\ disk'.tabs = Created(c, 1)
      /\ disk'.ledger = disk.ledger /\ disk'.columns = disk.columns
      /\ disk'.index = disk.index /\ disk'.inventions = disk.inventions
      /\ disk'.duplicates = disk.duplicates
  BY <1>t, <1>1, <1>2 DEF Database
<1>4. 11 \in disk.ledger => \A d \in DOMAIN disk'.tabs : disk'.tabs[d] > 0
  <2>1. 11 \in disk.ledger => \A d \in DOMAIN disk.tabs : disk.tabs[d] > 0
    BY <1>t DEF Truthful
  <2>. QED
    BY <1>2, <1>3, <2>1
<1>5. OneTab(disk')
  BY <1>2, <1>3 DEF OneTab
<1>. QED
  BY <1>3, <1>4, <1>5, RowsKeep DEF Work

(* The old release knows the migrations of its ledger: it gives a tab if   *)
(* it has them, and takes no slug twice if the unique index is there.      *)
LEMMA OldWorkKeeps ==
  ASSUME UpgradeInv, phase = "down", OldWork
  PROVE  /\ UpgradeInv' /\ disk'.ledger = disk.ledger /\ disk'.columns = disk.columns
         /\ \E c : /\ DOMAIN disk'.tabs = DOMAIN disk.tabs \cup {c}
                   /\ late' = late \cup {c} /\ c \in Characters
<1>t. disk \in Database /\ Truthful(disk) /\ OneTab(disk)
  BY Truth, TypeFacts DEF UpgradeInv
<1>1. PICK c \in Characters \ DOMAIN disk.tabs, n \in {0, 1}, b \in BOOLEAN :
        /\ n = 0 => 11 \notin disk.ledger
        /\ b => disk.index # "unique"
        /\ disk' = [disk EXCEPT !.duplicates = @ \/ b, !.tabs = Created(c, n)]
        /\ late' = late \cup {c}
  BY DEF OldWork, Created
<1>2. /\ Created(c, n) \in Tabs
      /\ DOMAIN Created(c, n) = DOMAIN disk.tabs \cup {c} /\ Created(c, n)[c] = n
      /\ \A d \in DOMAIN disk.tabs : Created(c, n)[d] = disk.tabs[d]
      /\ \A d \in DOMAIN Created(c, n) : Created(c, n)[d] <= 1
  BY <1>t, CreatedTabs
<1>3. /\ disk' \in Database /\ disk'.tabs = Created(c, n)
      /\ disk'.ledger = disk.ledger /\ disk'.columns = disk.columns
      /\ disk'.index = disk.index /\ disk'.inventions = disk.inventions
      /\ disk'.duplicates = (disk.duplicates \/ b)
  BY <1>t, <1>1, <1>2 DEF Database
<1>4. 11 \in disk.ledger => \A d \in DOMAIN disk'.tabs : disk'.tabs[d] > 0
  <2>1. 11 \in disk.ledger => \A d \in DOMAIN disk.tabs : disk.tabs[d] > 0
    BY <1>t DEF Truthful
  <2>2. 11 \in disk.ledger => n = 1
    BY <1>1
  <2>. QED
    BY <1>2, <1>3, <2>1, <2>2
<1>5. disk'.duplicates => disk.duplicates \/ 5 \notin disk.ledger
  BY <1>1, <1>3, <1>t DEF Truthful
<1>6. OneTab(disk')
  BY <1>2, <1>3 DEF OneTab
<1>7. UpgradeInv'
  BY <1>3, <1>4, <1>5, <1>6, RowsKeep DEF OldWork
<1>. QED
  BY <1>1, <1>2, <1>3, <1>7

LEMMA RepairKeeps ==
  ASSUME UpgradeInv, Repair
  PROVE  /\ UpgradeInv' /\ disk'.ledger = disk.ledger /\ disk'.columns = disk.columns
         /\ disk'.tabs = disk.tabs
<1>1. disk \in Database /\ Truthful(disk) /\ OneTab(disk)
  BY Truth, TypeFacts DEF UpgradeInv
<1>2. disk' = [disk EXCEPT !.duplicates = FALSE]
  BY DEF Repair
<1>3. /\ disk' \in Database /\ disk'.tabs = disk.tabs /\ ~disk'.duplicates
      /\ disk'.ledger = disk.ledger /\ disk'.columns = disk.columns
      /\ disk'.index = disk.index /\ disk'.inventions = disk.inventions
  BY <1>1, <1>2 DEF Database
<1>4. /\ 11 \in disk.ledger => \A c \in DOMAIN disk'.tabs : disk'.tabs[c] > 0
      /\ OneTab(disk')
  BY <1>1, <1>3 DEF Truthful, OneTab
<1>. QED
  BY <1>3, <1>4, RowsKeep DEF Repair

(* The databases the application has been started on.                      *)
LEMMA InitialUpgrade ==
  ASSUME Init
  PROVE  UpgradeInv
<1>1. /\ conn = disk /\ open = FALSE /\ phase = "down" /\ applied = {}
      /\ at = <<0, 0>> /\ crashes = 0
  BY DEF Init
<1> DEFINE Good == /\ disk \in Database /\ Truthful(disk) /\ OneTab(disk)
                   /\ \E n \in 0 .. 14 : disk.ledger = 1 .. n
<1>2. Good
  <2>t. ASSUME NEW t \in Tabless
        PROVE  /\ t \in Tabs /\ [c \in DOMAIN t |-> 1] \in Tabs
               /\ \A c \in DOMAIN t : t[c] = 0
    <3>1. PICK S \in SUBSET Characters : t \in [S -> {0}]
      BY DEF Tabless
    <3>2. t \in [S -> 0 .. 2] /\ [c \in DOMAIN t |-> 1] \in [S -> 0 .. 2]
      BY <3>1
    <3>. QED
      BY <3>1, <3>2 DEF Tabs
  <2>e. 1 .. 0 = {}
    OBVIOUS
  <2>1. CASE disk = EmptyDatabase
    <3>1. disk.ledger = {} /\ disk.tabs = [c \in {} |-> 0]
      BY <2>1 DEF EmptyDatabase
    <3>2. [c \in {} |-> 0] \in Tabs
      <4>1. [c \in {} |-> 0] \in [{} -> 0 .. 2]
        OBVIOUS
      <4>. QED
        BY <4>1 DEF Tabs
    <3>. QED
      BY <2>1, <2>e, <3>1, <3>2 DEF EmptyDatabase, Database, Truthful, OneTab
  <2>2. ASSUME NEW n \in 0 .. 8, NEW t \in Tabless, NEW b \in BOOLEAN,
               disk = Legacy(n, t, b)
        PROVE  Good
    <3>1. disk.ledger = {} /\ disk.tabs \in {t, [c \in DOMAIN t |-> 1]}
      BY <2>2 DEF Legacy
    <3>2. disk.columns \subseteq AllColumns
      <4>1. \A i \in 1 .. n : Scripts[i] \in Versions
        BY VersionNumbers DEF Scripts
      <4>2. <<"characters", "">> \in AllColumns
        <5>1. MIGRATIONS[1] = initial_schema /\ 1 \in Versions
          BY VersionNumbers DEF MIGRATIONS
        <5>2. 1 \in DOMAIN initial_schema
          BY MigrationLengths DEF HasLength
        <5>3. /\ initial_schema[1].table = "characters" /\ "" \in initial_schema[1].columns
          BY DEF initial_schema, TableWith, Statement
        <5>4. /\ MIGRATIONS[1][1].table = "characters" /\ "" \in MIGRATIONS[1][1].columns
              /\ 1 \in DOMAIN MIGRATIONS[1]
          BY <5>1, <5>2, <5>3
        <5>. QED
          BY <5>1, <5>4, StatementColumns
      <4>3. disk.columns = {<<"characters", "">>} \cup UNION {ColumnsOf(Scripts[i]) : i \in 1 .. n}
        BY <2>2 DEF Legacy
      <4>. QED
        BY <4>1, <4>2, <4>3 DEF AllColumns
    <3>3. disk.tabs \in Tabs /\ OneTab(disk)
      <4>1. CASE disk.tabs = t
        <5>1. \A c \in DOMAIN t : t[c] = 0
          BY <2>t
        <5>2. disk.tabs \in Tabs
          BY <2>t, <4>1
        <5>3. \A c \in DOMAIN disk.tabs : disk.tabs[c] = 0
          BY <4>1, <5>1
        <5>. QED
          BY <5>2, <5>3 DEF OneTab
      <4>2. CASE disk.tabs = [c \in DOMAIN t |-> 1]
        BY <2>t, <4>2 DEF OneTab
      <4>. QED
        BY <3>1, <4>1, <4>2
    <3>4. disk \in Database
      BY <2>2, <3>1, <3>2, <3>3 DEF Legacy, Database
    <3>. QED
      BY <2>e, <3>1, <3>3, <3>4 DEF Truthful
  <2>3. ASSUME NEW n \in Versions, NEW t \in Tabless, NEW b \in BOOLEAN,
               disk = Released(n, t, b)
        PROVE  Good
    <3>1. n \in 1 .. 14 /\ 1 .. n \subseteq Versions
      BY VersionNumbers
    <3>2. /\ disk.columns = UNION {ColumnsOf(v) : v \in 1 .. n}
          /\ disk.ledger = 1 .. n
          /\ disk.index = IF n >= 5 THEN "unique" ELSE "none"
          /\ disk.tabs = IF n >= 11 THEN [c \in DOMAIN t |-> 1] ELSE t
          /\ disk.inventions = (n >= 14)
      BY <2>3 DEF Released
    <3>d. disk.duplicates = (n < 5 /\ Cardinality(DOMAIN t) > 1 /\ b)
      BY <2>3 DEF Released
    <3>3. disk.tabs \in Tabs /\ OneTab(disk)
      BY <2>t, <3>2 DEF OneTab
    <3>4. disk.columns \subseteq AllColumns
      BY <3>1, <3>2 DEF AllColumns
    <3>5. disk \in Database
      BY <2>3, <3>1, <3>2, <3>3, <3>4 DEF Released, Database
    <3>6. Truthful(disk)
      <4> SUFFICES ASSUME NEW v \in 1 .. n
                   PROVE  /\ ColumnsOf(v) \subseteq disk.columns
                          /\ v = 5 => disk.index = "unique" /\ ~disk.duplicates
                          /\ v = 11 => \A c \in DOMAIN disk.tabs : disk.tabs[c] > 0
                          /\ v = 14 => disk.inventions
        BY <3>2 DEF Truthful
      <4>n. v \in Nat /\ n \in Nat /\ v <= n
        BY <3>1
      <4>1. ColumnsOf(v) \subseteq disk.columns
        BY <3>2
      <4>2. v = 5 => disk.index = "unique" /\ ~disk.duplicates
        <5>1. v = 5 => n >= 5 /\ ~(n < 5)
          BY <4>n
        <5>2. v = 5 => disk.index = "unique"
          BY <3>2, <5>1
        <5>3. v = 5 => ~disk.duplicates
          BY <3>d, <5>1
        <5>. QED
          BY <5>2, <5>3
      <4>3. v = 11 => \A c \in DOMAIN disk.tabs : disk.tabs[c] > 0
        BY <4>n, <3>2
      <4>4. v = 14 => disk.inventions
        BY <4>n, <3>2
      <4>. QED
        BY <4>1, <4>2, <4>3, <4>4
    <3>7. n \in 0 .. 14
      BY <3>1
    <3>. QED
      BY <3>2, <3>3, <3>5, <3>6, <3>7
  <2>4. \/ disk = EmptyDatabase
        \/ \E n \in 0 .. 8, t \in Tabless, b \in BOOLEAN : disk = Legacy(n, t, b)
        \/ \E n \in Versions, t \in Tabless, b \in BOOLEAN : disk = Released(n, t, b)
    BY DEF Init
  <2>. QED
    BY <2>1, <2>2, <2>3, <2>4
<1>3. TypeOK
  <2>1. at \in Seq(Nat) /\ Len(at) = 2
    BY <1>1
  <2>2. crashes \in 0 .. MaxCrashes
    BY <1>1, CrashAssumption
  <2>. QED
    BY <1>1, <1>2, <2>1, <2>2 DEF TypeOK, Database, Tabs
<1>4. LedgerTruthful /\ OneTab(disk) /\ OneTab(conn) /\ InOrder /\ ServesUpToDate
  BY <1>1, <1>2, Truth DEF InOrder, ServesUpToDate
<1>. QED
  BY <1>1, <1>3, <1>4 DEF UpgradeInv

(* A start of the new release, and a step of an operator: the ledger       *)
(* changes only by having all migrations.                                  *)
LEMMA UpgradeKeeps ==
  ASSUME UpgradeInv, Upgrade \/ Crash \/ Work
  PROVE  UpgradeInv' /\ (disk'.ledger = disk.ledger \/ disk'.ledger = Versions)
<1>1. CASE Start
  BY <1>1, StartKeeps DEF Start
<1>2. CASE Execute
  <2>1. UpgradeInv'
    BY <1>2, ExecuteKeeps
  <2>2. applied = disk.ledger /\ applied' = disk'.ledger /\ applied' = applied
    BY <1>2, <2>1 DEF UpgradeInv, Execute, InMigration
  <2>. QED
    BY <2>1, <2>2
<1>3. CASE Record
  BY <1>3, RecordKeeps DEF Record
<1>4. CASE Serve
  BY <1>4, ServeKeeps
<1>5. CASE Abort \/ Crash
  BY <1>5, AbortKeeps DEF Abort, Crash
<1>6. CASE Work
  BY <1>6, WorkKeeps
<1>. QED
  BY <1>1, <1>2, <1>3, <1>4, <1>5, <1>6 DEF Upgrade

-----------------------------------------------------------------------------
(* Deploy.                                                                 *)

(* Until the containers are exchanged every copy is of the schema that the *)
(* database has, and since the script's last backup all characters but the *)
(* late ones are in one.                                                   *)
CopiesInv ==
  container # "new" =>
    /\ phase = "down" /\ (container = "old" => disk.columns # {})
    /\ \A b \in backups \cup uploads : SameSchema(b) /\ DOMAIN b.tabs \subseteq DOMAIN disk.tabs
    /\ script \in {"snapshot", "up", "create"} /\ disk # EmptyDatabase =>
         /\ backups # {}
         /\ \A c \in DOMAIN disk.tabs \ late : \E b \in backups \cup uploads : c \in DOMAIN b.tabs

DeployInv == UpgradeInv /\ DeployTypeOK /\ CopiesInv /\ SuccessIsUpToDate

LEMMA SameUpgrade ==
  ASSUME UpgradeInv, UNCHANGED vars
  PROVE  UpgradeInv'
<1>1. UNCHANGED <<disk, conn, open, phase, applied, at, crashes>>
  BY DEF vars
<1>2. TypeOK'
  BY <1>1 DEF UpgradeInv, TypeOK, AllColumns, ColumnsOf, Versions, MIGRATIONS
<1>3. \A v \in Versions : \A i \in DOMAIN MIGRATIONS[v] :
        /\ Before(v, i)' <=> Before(v, i)
        /\ Made(MIGRATIONS[v][i], conn)' <=> Made(MIGRATIONS[v][i], conn)
  BY <1>1 DEF Before, Made, Exists
<1>4. LedgerTruthful' /\ OneTab(disk)' /\ OneTab(conn)' /\ InOrder' /\ ServesUpToDate'
  BY <1>1 DEF UpgradeInv, LedgerTruthful, OneTab, InOrder, ServesUpToDate
<1>. QED
  BY <1>1, <1>2, <1>3, <1>4 DEF UpgradeInv

(* The steps of the script but for the one that stops the new release.     *)
ScriptStep == Begin \/ Backup \/ Snapshot \/ Fail \/ Stop \/ Create \/ Keep
              \/ Healthy \/ Reachable \/ Unhealthy

LEMMA ScriptLeavesDatabase ==
  ASSUME ScriptStep
  PROVE  UNCHANGED vars
  BY DEF ScriptStep, Begin, Backup, Snapshot, Fail, Stop, Create, Keep, Healthy,
         Reachable, Unhealthy, Goto

LEMMA DatabaseStep ==
  ASSUME DeployInv, [DeployNext]_allVars
  PROVE  UpgradeInv' /\ (disk'.ledger = disk.ledger \/ disk'.ledger = Versions)
<1>i. UpgradeInv
  BY DEF DeployInv
<1>1. CASE ScriptStep \/ UNCHANGED allVars
  <2>1. UNCHANGED vars
    BY <1>1, ScriptLeavesDatabase DEF allVars
  <2>. QED
    BY <1>i, <2>1, SameUpgrade DEF vars
<1>2. CASE Recreate
  <2>1. crashes' \in 0 .. MaxCrashes
    BY <1>i, <1>2, TypeFacts DEF Recreate, UpgradeInv
  <2>. QED
    BY <1>i, <1>2, <2>1, DownKeeps DEF Recreate
<1>3. CASE OldWork
  <2>1. phase = "down"
    BY <1>3 DEF OldWork, DeployInv, CopiesInv
  <2>. QED
    BY <1>i, <1>3, <2>1, OldWorkKeeps
<1>4. CASE NewUpgrade \/ NewRelease
  BY <1>i, <1>4, UpgradeKeeps DEF NewUpgrade, NewRelease
<1>5. CASE Operator
  BY <1>i, <1>5, RepairKeeps DEF Operator
<1>. QED
  BY <1>1, <1>2, <1>3, <1>4, <1>5 DEF DeployNext, ScriptStep

LEMMA ScriptKeeps ==
  ASSUME DeployInv, [DeployNext]_allVars
  PROVE  DeployTypeOK' /\ SuccessIsUpToDate'
<1>u. /\ UpgradeInv' /\ TypeOK' /\ ServesUpToDate'
      /\ (disk'.ledger = disk.ledger \/ disk'.ledger = Versions)
  BY DatabaseStep DEF UpgradeInv
<1>t. /\ script \in {"idle", "backup", "snapshot", "up", "create", "health", "external",
                     "done", "failed"}
      /\ running \in BOOLEAN /\ container \in {"none", "old", "new"}
      /\ late \subseteq Characters /\ deploys \in 0 .. MaxDeploys
      /\ script \in {"external", "done"} => disk.ledger = Versions
      /\ phase = "serving" => disk.ledger = Versions
  BY DEF DeployInv, DeployTypeOK, SuccessIsUpToDate, ServesUpToDate
<1>v. Versions' = Versions
  BY DEF Versions, MIGRATIONS
<1> SUFFICES /\ script' \in {"idle", "backup", "snapshot", "up", "create", "health",
                             "external", "done", "failed"}
             /\ running' \in BOOLEAN /\ container' \in {"none", "old", "new"}
             /\ late' \subseteq Characters /\ deploys' \in 0 .. MaxDeploys
             /\ script' \in {"external", "done"} => disk'.ledger = Versions
  BY <1>u, <1>v DEF DeployTypeOK, SuccessIsUpToDate
<1>1. CASE Begin
  BY <1>1, <1>t, DeployAssumption DEF Begin, Running, files
<1>2. CASE Backup \/ Snapshot \/ Stop \/ Create
  BY <1>2, <1>t DEF Backup, Snapshot, Stop, Create, Shutdown, Goto
<1>3. CASE Fail \/ Keep \/ Unhealthy
  BY <1>3, <1>t DEF Fail, Keep, Unhealthy, Goto, files
<1>4. CASE Recreate
  BY <1>4, <1>t DEF Recreate, files
<1>5. CASE Healthy \/ Reachable
  BY <1>5, <1>t, <1>u DEF Healthy, Reachable, Goto, files
<1>6. CASE OldWork
  <2>1. phase = "down"
    BY <1>6 DEF OldWork, DeployInv, CopiesInv
  <2>2. late' \subseteq Characters
    BY <1>6, <1>t, <2>1, OldWorkKeeps DEF DeployInv
  <2>. QED
    BY <1>6, <1>t, <1>u, <2>2 DEF OldWork
<1>7. CASE NewUpgrade \/ NewRelease \/ Operator \/ UNCHANGED allVars
  BY <1>7, <1>t, <1>u
     DEF NewUpgrade, NewRelease, Operator, deployment, files, allVars
<1>. QED
  BY <1>1, <1>2, <1>3, <1>4, <1>5, <1>6, <1>7 DEF DeployNext

(* The copies, over the steps after which the new release is not there.    *)
LEMMA CopiesKeep ==
  ASSUME DeployInv, [DeployNext]_allVars
  PROVE  CopiesInv'
<1> SUFFICES ASSUME container' # "new" PROVE CopiesInv'
  BY DEF CopiesInv
<1>c. container # "new"
  <2>1. CASE Begin \/ Fail \/ Keep \/ Recreate \/ Healthy \/ Reachable \/ Unhealthy
    BY <2>1 DEF Begin, Fail, Keep, Recreate, Healthy, Reachable, Unhealthy
  <2>2. CASE Backup \/ Snapshot \/ Stop \/ Create \/ OldWork
    BY <2>2 DEF Backup, Snapshot, Stop, Create, OldWork
  <2>3. CASE NewUpgrade \/ NewRelease \/ Operator \/ UNCHANGED allVars
    BY <2>3 DEF NewUpgrade, NewRelease, Operator, deployment, allVars
  <2>. QED
    BY <2>1, <2>2, <2>3 DEF DeployNext
<1>i. /\ phase = "down" /\ (container = "old" => disk.columns # {})
      /\ \A b \in backups \cup uploads :
           /\ b.ledger = disk.ledger /\ b.columns = disk.columns
           /\ DOMAIN b.tabs \subseteq DOMAIN disk.tabs
      /\ script \in {"snapshot", "up", "create"} /\ disk # EmptyDatabase =>
           /\ backups # {}
           /\ \A c \in DOMAIN disk.tabs \ late :
                \E b \in backups \cup uploads : c \in DOMAIN b.tabs
  BY <1>c DEF DeployInv, CopiesInv, SameSchema
<1>e. EmptyDatabase' = EmptyDatabase
  BY DEF EmptyDatabase
<1> SUFFICES
      /\ phase' = "down" /\ (container' = "old" => disk'.columns # {})
      /\ \A b \in backups' \cup uploads' :
           /\ b.ledger = disk'.ledger /\ b.columns = disk'.columns
           /\ DOMAIN b.tabs \subseteq DOMAIN disk'.tabs
      /\ script' \in {"snapshot", "up", "create"} /\ disk' # EmptyDatabase =>
           /\ backups' # {}
           /\ \A c \in DOMAIN disk'.tabs \ late' :
                \E b \in backups' \cup uploads' : c \in DOMAIN b.tabs
  BY <1>e DEF CopiesInv, SameSchema
<1>1. CASE Begin \/ Fail \/ Unhealthy \/ UNCHANGED allVars
  <2>1. UNCHANGED <<disk, phase, container, backups, uploads, late>>
    BY <1>1 DEF Begin, Fail, Unhealthy, Goto, files, vars, allVars, deployment
  <2>2. script' = script \/ script' \notin {"snapshot", "up", "create"}
    BY <1>1 DEF Begin, Fail, Unhealthy, Goto, allVars, deployment
  <2>. QED
    BY <1>i, <2>1, <2>2
<1>2. CASE Backup
  <2>1. /\ UNCHANGED <<disk, phase, container, uploads>>
        /\ backups' = IF disk = EmptyDatabase THEN backups ELSE backups \cup {disk}
    BY <1>2, <1>c DEF Backup, Goto, vars, Copied
  <2>. QED
    BY <1>i, <2>1
<1>3. CASE Snapshot
  <2>1. /\ UNCHANGED <<disk, phase, container, backups>> /\ script = "snapshot"
        /\ \/ uploads' = uploads \cup {disk}
           \/ UNCHANGED <<uploads, late>>
    BY <1>3, <1>c DEF Snapshot, Goto, vars, Copied
  <2>2. CASE uploads' = uploads \cup {disk}
    BY <1>i, <2>1, <2>2
  <2>3. CASE UNCHANGED <<uploads, late>>
    BY <1>i, <2>1, <2>3
  <2>. QED
    BY <2>1, <2>2, <2>3
<1>4. CASE Stop
  <2>1. /\ UNCHANGED <<disk, phase, backups>> /\ script = "up" /\ container' = "none"
        /\ \/ uploads' = uploads \cup {disk}
           \/ UNCHANGED <<uploads, late>>
    BY <1>4, <1>c DEF Stop, Shutdown, Goto, vars, Copied
  <2>2. CASE uploads' = uploads \cup {disk}
    BY <1>i, <2>1, <2>2
  <2>3. CASE UNCHANGED <<uploads, late>>
    BY <1>i, <2>1, <2>3
  <2>. QED
    BY <2>1, <2>2, <2>3
<1>5. CASE Create \/ Keep \/ Recreate \/ Healthy \/ Reachable \/ NewUpgrade \/ NewRelease
  <2>1. FALSE
    BY <1>5, <1>c, <1>i DEF Create, Keep, Recreate, Healthy, Reachable, NewUpgrade, NewRelease
  <2>. QED
    BY <2>1
<1>6. CASE OldWork
  <2>1. PICK c : /\ DOMAIN disk'.tabs = DOMAIN disk.tabs \cup {c} /\ late' = late \cup {c}
                 /\ disk'.ledger = disk.ledger /\ disk'.columns = disk.columns
    BY <1>6, <1>i, OldWorkKeeps DEF DeployInv
  <2>2. UNCHANGED <<phase, container, script, backups, uploads>> /\ container = "old"
    BY <1>6 DEF OldWork
  <2>3. disk # EmptyDatabase
    BY <1>i, <2>2 DEF EmptyDatabase
  <2>. QED
    BY <1>i, <2>1, <2>2, <2>3
<1>7. CASE Operator
  <2>1. /\ disk.duplicates /\ disk'.ledger = disk.ledger /\ disk'.columns = disk.columns
        /\ disk'.tabs = disk.tabs
    BY <1>7, RepairKeeps DEF Operator, Repair, DeployInv
  <2>2. UNCHANGED <<phase, container, script, backups, uploads, late>>
    BY <1>7 DEF Operator, Repair, deployment, files
  <2>3. disk # EmptyDatabase
    BY <2>1 DEF EmptyDatabase
  <2>. QED
    BY <1>i, <2>1, <2>2, <2>3
<1>. QED
  BY <1>1, <1>2, <1>3, <1>4, <1>5, <1>6, <1>7 DEF DeployNext

LEMMA InitialDeploy ==
  ASSUME DeployInit
  PROVE  DeployInv
<1>1. /\ UpgradeInv /\ phase = "down"
      /\ script = "idle" /\ running = FALSE /\ container \in {"none", "old"}
      /\ backups = {} /\ uploads = {} /\ late = {} /\ deploys = 0
      /\ container = "old" => disk # EmptyDatabase
  <2>i. Init
    BY DEF DeployInit
  <2>1. UpgradeInv /\ phase = "down"
    <3>1. UpgradeInv
      BY <2>i, InitialUpgrade
    <3>2. phase = "down"
      BY <2>i DEF Init
    <3>. QED
      BY <3>1, <3>2
  <2>2. container \in IF disk = EmptyDatabase THEN {"none"} ELSE {"none", "old"}
    BY DEF DeployInit
  <2>. QED
    BY <2>1, <2>2 DEF DeployInit
<1>2. disk # EmptyDatabase => disk.columns # {}
  <2>1. 1 \in Versions /\ ColumnsOf(1) # {}
    <3>1. MIGRATIONS[1] = initial_schema /\ 1 \in Versions
      BY VersionNumbers DEF MIGRATIONS
    <3>2. 1 \in DOMAIN initial_schema
      BY MigrationLengths DEF HasLength
    <3>3. "" \in initial_schema[1].columns
      BY DEF initial_schema, TableWith, Statement
    <3>4. 1 \in DOMAIN MIGRATIONS[1] /\ "" \in MIGRATIONS[1][1].columns
      BY <3>1, <3>2, <3>3
    <3>5. {<<MIGRATIONS[1][1].table, c>> : c \in MIGRATIONS[1][1].columns}
            \subseteq ColumnsOf(1)
      BY <3>4 DEF ColumnsOf
    <3>. QED
      BY <3>1, <3>4, <3>5
  <2>2. ASSUME NEW n, NEW t, NEW b, disk = Legacy(n, t, b) PROVE disk.columns # {}
    BY <2>2 DEF Legacy
  <2>3. ASSUME NEW n \in Versions, NEW t, NEW b, disk = Released(n, t, b)
        PROVE  disk.columns # {}
    <3>1. 1 \in 1 .. n
      BY VersionNumbers
    <3>2. disk.columns = UNION {ColumnsOf(v) : v \in 1 .. n}
      BY <2>3 DEF Released
    <3>. QED
      BY <2>1, <3>1, <3>2
  <2>4. \/ disk = EmptyDatabase
        \/ \E n \in 0 .. 8, t \in Tabless, b \in BOOLEAN : disk = Legacy(n, t, b)
        \/ \E n \in Versions, t \in Tabless, b \in BOOLEAN : disk = Released(n, t, b)
    BY DEF DeployInit, Init
  <2>. QED
    BY <2>2, <2>3, <2>4
<1>3. DeployTypeOK
  <2>1. TypeOK
    BY <1>1 DEF UpgradeInv
  <2>2. 0 \in 0 .. MaxDeploys
    BY DeployAssumption
  <2>. QED
    BY <1>1, <2>1, <2>2 DEF DeployTypeOK
<1>4. CopiesInv
  BY <1>1, <1>2 DEF CopiesInv
<1>5. SuccessIsUpToDate
  BY <1>1 DEF SuccessIsUpToDate, UpgradeInv
<1>. QED
  BY <1>1, <1>3, <1>4, <1>5 DEF DeployInv

(* The inductive invariant of the script, the containers and the start of  *)
(* the new release.                                                        *)
THEOREM DeployInvariant == DeploySpec => []DeployInv
<1>1. DeployInit => DeployInv
  BY InitialDeploy
<1>2. DeployInv /\ [DeployNext]_allVars => DeployInv'
  BY DatabaseStep, ScriptKeeps, CopiesKeep DEF DeployInv
<1>. QED
  BY <1>1, <1>2, PTL DEF DeploySpec

(* The values of the variables are what the declarations say, and what the *)
(* migrating connection sees is what is committed while its transaction    *)
(* has not been opened.                                                    *)
THEOREM DeployTypesCorrect == DeploySpec => []DeployTypeOK
<1>1. DeployInv => DeployTypeOK
  BY DEF DeployInv
<1>. QED
  BY <1>1, DeployInvariant, PTL

(* What a migration in the ledger is for is in the database, from whatever *)
(* release or upgrade script it comes and wherever run_migrations is cut   *)
(* short.                                                                  *)
THEOREM LedgerIsTruthful == DeploySpec => []LedgerTruthful
<1>1. DeployInv => LedgerTruthful
  BY DEF DeployInv, UpgradeInv
<1>. QED
  BY <1>1, DeployInvariant, PTL

(* No character gets its default tab twice, from the script, the backfill  *)
(* of _character_note_tabs, however often that is begun, or create_character. *)
THEOREM TabsAreSingle == DeploySpec => []OneDefaultTab
<1>1. DeployInv => OneDefaultTab
  BY DEF DeployInv, UpgradeInv, OneTab, OneDefaultTab
<1>. QED
  BY <1>1, DeployInvariant, PTL

(* The application serves only after all migrations, and deploy.sh reports *)
(* a success only of a release that has.                                   *)
THEOREM SuccessMeansUpToDate == DeploySpec => []SuccessIsUpToDate
<1>1. DeployInv => SuccessIsUpToDate
  BY DEF DeployInv
<1>. QED
  BY <1>1, DeployInvariant, PTL

(* deploy.sh exchanges the containers only when there is a backup of the   *)
(* same schema, which with the uploads has all characters but those        *)
(* created after the last copy.                                            *)
THEOREM AlwaysBackedUp == DeploySpec => BackedUp
<1>1. ASSUME DeployInv, [DeployNext]_allVars, container # container',
             container' = "new", disk # EmptyDatabase
      PROVE  Covered
  <2>1. Create
    <3>1. CASE Begin \/ Fail \/ Keep \/ Recreate \/ Healthy \/ Reachable \/ Unhealthy
      BY <1>1, <3>1 DEF Begin, Fail, Keep, Recreate, Healthy, Reachable, Unhealthy
    <3>2. CASE Backup \/ Snapshot \/ Stop \/ OldWork
      BY <1>1, <3>2 DEF Backup, Snapshot, Stop, OldWork
    <3>3. CASE NewUpgrade \/ NewRelease \/ Operator \/ UNCHANGED allVars
      BY <1>1, <3>3 DEF NewUpgrade, NewRelease, Operator, deployment, allVars
    <3>. QED
      BY <1>1, <3>1, <3>2, <3>3 DEF DeployNext
  <2>2. container = "none" /\ script \in {"up", "create"}
    BY <2>1 DEF Create, Goto
  <2>. QED
    BY <1>1, <2>2 DEF DeployInv, CopiesInv, Covered
<1>2. DeployInv /\ [DeployNext]_allVars
        => [container # container' /\ container' = "new" /\ disk # EmptyDatabase
              => Covered]_allVars
  BY <1>1
<1>. QED
  BY <1>2, DeployInvariant, PTL DEF DeploySpec, BackedUp
=============================================================================
