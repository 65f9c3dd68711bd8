----------------------- MODULE AgentCoordinationProofs -----------------------
(***************************************************************************)
(* The safety properties of AgentCoordination, for any agents, files and   *)
(* jobs, any number of runs and any number of acts of people.              *)
(*                                                                         *)
(* Three facts carry the proof.  The edit of a person is a content nobody  *)
(* wrote before, so that no hunk fits a part that holds one (EditsAreNew); *)
(* what a run has applied stays staged until somebody touches it           *)
(* (AppliedStands); and whatever is staged during a run was staged before, *)
(* is the run's own or was touched (StagedIsAccounted).                    *)
(***************************************************************************)
EXTENDS AgentCoordination, TLAPS

\* If the content is an edit, it is one that was made.
Made(c) == \A n \in Nat : c = <<"person", n>> => n <= edits

EditsAreNew ==
  \A p \in Paths, h \in Parts :
    /\ Made(repo.head[p][h]) /\ Made(repo.index[p][h])
    /\ Made(repo.tree[p][h]) /\ Made(run.base[p][h])
    /\ mine[p][h] # None => mine[p][h] # repo.head[p][h] /\ mine[p][h] # run.base[p][h]

Early == {"allocate", "spawn", "collect", "conflicts"}
Working == Early \cup {"apply", "commit"}
Reporting == run.at = "cleanup" /\ run.committed

Distinct == \A a, b \in Agents : File(a) = File(b) => a = b

\* How far a run has come.
Progress ==
  /\ run.at # "idle" => run.diff \in [Agents -> Diffs] /\ run.job \in Jobs
  /\ run.at \in Early => run.applied = {}
  /\ run.at \in Working => ~run.committed
  /\ run.at = "conflicts" => run.left = Agents
  /\ run.at = "apply" => run.applied = Agents \ run.left
  /\ run.at = "commit" => run.applied = Agents
  /\ run.at \in {"apply", "commit"} => Distinct

AppliedStands ==
  /\ run.at \in {"apply", "commit"} \/ Reporting =>
       \A a \in run.applied : \A h \in Hunks(a) :
         <<File(a), h>> \notin touched => repo.index[File(a)][h] = Task(a)
  /\ IntegratedIsInHead

StagedIsAccounted ==
  /\ run.at \in Working =>
       \A p \in Paths, h \in Parts : repo.index[p][h] # repo.head[p][h] =>
         \/ <<p, h>> \in run.staged \cup touched
         \/ \E a \in run.applied : p = File(a) /\ h \in Hunks(a)
  /\ CommitIsAccounted

CoordinationInv ==
  TypeOK /\ EditsAreNew /\ Progress /\ AppliedStands /\ StagedIsAccounted /\ EditsSurvive

-----------------------------------------------------------------------------
(* Steps of a run that leave the repository alone                          *)

\* The run goes on, or fails, and keeps what it has.
LEMMA RunStepKeeps ==
  ASSUME CoordinationInv, UNCHANGED <<repo, people, commits>>,
         run' \in Run, worker' \in [Agents -> {"none", "running", "done", "failed", "orphan"}],
         branches' \subseteq Agents \X Jobs,
         run'.job = run.job, run'.diff = run.diff, run'.base = run.base,
         run'.applied = run.applied, run'.staged = run.staged, run'.committed = run.committed,
         run'.patch \in Agents => run'.at \in {"apply", "cleanup", "clean", "crashed"},
         run.at # "idle" \/ run'.at = "idle",
         \/ run'.at = run.at /\ run'.left = run.left
         \/ run.at \in Early /\ run'.at \in Early /\ (run'.at = "conflicts" => run'.left = Agents)
         \/ run.at = "conflicts" /\ run'.at = "apply" /\ run'.left = Agents /\ Distinct
         \/ run.at \in Working /\ run'.at = "cleanup"
         \/ run'.at \in {"clean", "crashed"}
  PROVE  CoordinationInv'
<1>1. TypeOK'
  BY DEF CoordinationInv, TypeOK, people
<1>2. EditsAreNew'
  BY DEF CoordinationInv, EditsAreNew, Made, people
<1>3. Progress'
  BY DEF CoordinationInv, Progress, Early, Working, Distinct, File, Hunks
<1>4. AppliedStands'
  BY DEF CoordinationInv, AppliedStands, IntegratedIsInHead, Progress, Reporting, Early, Working,
         File, Hunks, Task, people
<1>5. StagedIsAccounted'
  BY DEF CoordinationInv, StagedIsAccounted, CommitIsAccounted, Early, Working, File, Hunks, people
<1>6. EditsSurvive'
  BY DEF CoordinationInv, EditsSurvive, people
<1> QED  BY <1>1, <1>2, <1>3, <1>4, <1>5, <1>6 DEF CoordinationInv

LEMMA AfterIs ==
  ASSUME TypeOK, NEW a \in Agents, NEW next \in Phases
  PROVE  /\ After(a, next) \in Run /\ After(a, next).patch = None
         /\ After(a, next).job = run.job /\ After(a, next).diff = run.diff
         /\ After(a, next).base = run.base /\ After(a, next).applied = run.applied
         /\ After(a, next).staged = run.staged /\ After(a, next).committed = run.committed
         /\ \/ /\ run.left = {a} /\ After(a, next).at = next /\ After(a, next).left = Agents
            \/ /\ After(a, next).at = run.at /\ After(a, next).left = run.left \ {a}
BY DEF After, TypeOK, Run

LEMMA FailIs ==
  ASSUME TypeOK, Fail
  PROVE  /\ run' \in Run /\ run'.at = "cleanup" /\ run'.patch = run.patch
         /\ run'.job = run.job /\ run'.diff = run.diff /\ run'.base = run.base
         /\ run'.applied = run.applied /\ run'.staged = run.staged
         /\ run'.committed = run.committed
BY DEF Fail, TypeOK, Run, Phases

LEMMA FailKeeps ==
  ASSUME CoordinationInv, run.at \in Working, Fail,
         UNCHANGED <<repo, worker, branches, people, commits>>
  PROVE  CoordinationInv'
<1>1. TypeOK  BY DEF CoordinationInv
<1> QED  BY <1>1, FailIs, RunStepKeeps DEF TypeOK, Working, Early

LEMMA AfterKeeps ==
  ASSUME CoordinationInv, NEW a \in Agents, run.at \in Early \ {"conflicts"},
         NEW next \in Early, run' = After(a, next), UNCHANGED <<repo, people, commits>>,
         worker' \in [Agents -> {"none", "running", "done", "failed", "orphan"}],
         branches' \subseteq Agents \X Jobs
  PROVE  CoordinationInv'
<1>1. TypeOK /\ next \in Phases  BY DEF CoordinationInv, Early, Phases
<1>2. None \notin Agents  BY CoordinationAssumption
<1> QED  BY <1>1, <1>2, AfterIs, RunStepKeeps DEF Early

LEMMA AllocateWorktreeKeeps ==
  ASSUME CoordinationInv, NEW a \in Agents, AllocateWorktree(a)
  PROVE  CoordinationInv'
<1>1. run.at = "allocate" /\ UNCHANGED <<repo, worker, people, commits>>
  BY DEF AllocateWorktree
<1>2. CASE run' = After(a, "spawn") /\ branches' = branches \cup {Task(a)}
  <2>1. branches' \subseteq Agents \X Jobs
    BY <1>1, <1>2 DEF CoordinationInv, TypeOK, Progress, Task
  <2> QED  BY <1>1, <1>2, <2>1, AfterKeeps DEF CoordinationInv, TypeOK, Early
<1>3. CASE Fail /\ UNCHANGED branches
  BY <1>1, <1>3, FailKeeps DEF Working, Early
<1> QED  BY <1>2, <1>3 DEF AllocateWorktree

LEMMA SpawnKeeps ==
  ASSUME CoordinationInv, NEW a \in Agents, Spawn(a)
  PROVE  CoordinationInv'
<1>1. /\ run.at = "spawn" /\ run' = After(a, "collect")
      /\ worker' = [worker EXCEPT ![a] = "running"]
      /\ UNCHANGED <<repo, branches, people, commits>>
  BY DEF Spawn
<1>2. /\ worker' \in [Agents -> {"none", "running", "done", "failed", "orphan"}]
      /\ branches' \subseteq Agents \X Jobs
  BY <1>1 DEF CoordinationInv, TypeOK
<1> QED  BY <1>1, <1>2, AfterKeeps DEF Early

LEMMA CollectKeeps ==
  ASSUME CoordinationInv, NEW a \in Agents, Collect(a)
  PROVE  CoordinationInv'
<1>1. run.at = "collect" /\ UNCHANGED <<repo, worker, branches, people, commits>>
  BY DEF Collect
<1>2. CASE run' = After(a, "conflicts")
  <2>1. /\ worker' \in [Agents -> {"none", "running", "done", "failed", "orphan"}]
        /\ branches' \subseteq Agents \X Jobs
    BY <1>1 DEF CoordinationInv, TypeOK
  <2> QED  BY <1>1, <1>2, <2>1, AfterKeeps DEF Early
<1>3. CASE Fail
  BY <1>1, <1>3, FailKeeps DEF Working, Early
<1> QED  BY <1>2, <1>3 DEF Collect

LEMMA AssertNoPathConflictsKeeps ==
  ASSUME CoordinationInv, AssertNoPathConflicts
  PROVE  CoordinationInv'
<1>1. run.at = "conflicts" /\ UNCHANGED <<repo, worker, branches, people, commits>>
  BY DEF AssertNoPathConflicts
<1>2. CASE Fail
  BY <1>1, <1>2, FailKeeps DEF Working, Early
<1>3. CASE Distinct /\ run' = [run EXCEPT !.at = "apply"]
  <2>1. /\ run' \in Run /\ run'.at = "apply" /\ run'.patch = run.patch
        /\ run'.job = run.job /\ run'.diff = run.diff /\ run'.base = run.base
        /\ run'.left = Agents /\ run'.applied = run.applied /\ run'.staged = run.staged
        /\ run'.committed = run.committed
    BY <1>1, <1>3 DEF CoordinationInv, TypeOK, Progress, Run, Phases
  <2> QED  BY <1>1, <1>3, <2>1, RunStepKeeps DEF CoordinationInv, TypeOK
<1> QED  BY <1>2, <1>3 DEF AssertNoPathConflicts, Distinct

LEMMA CheckPatchKeeps ==
  ASSUME CoordinationInv, NEW a \in Agents, CheckPatch(a)
  PROVE  CoordinationInv'
<1>1. run.at = "apply" /\ UNCHANGED <<repo, worker, branches, people, commits>>
  BY DEF CheckPatch
<1>2. CASE Fail
  BY <1>1, <1>2, FailKeeps DEF Working
<1>3. CASE run' = [run EXCEPT !.patch = a]
  <2>1. /\ run' \in Run /\ run'.at = "apply"
        /\ run'.job = run.job /\ run'.diff = run.diff /\ run'.base = run.base
        /\ run'.left = run.left /\ run'.applied = run.applied /\ run'.staged = run.staged
        /\ run'.committed = run.committed
    BY <1>1, <1>3 DEF CoordinationInv, TypeOK, Run
  <2> QED  BY <1>1, <2>1, RunStepKeeps DEF CoordinationInv, TypeOK
<1> QED  BY <1>2, <1>3 DEF CheckPatch

LEMMA StepFailsKeeps ==
  ASSUME CoordinationInv, StepFails
  PROVE  CoordinationInv'
<1>1. run.at \in Working
  BY DEF StepFails, Resting, CoordinationInv, TypeOK, Run, Phases, Working, Early
<1> QED  BY <1>1, FailKeeps DEF StepFails

\* The end of a run, however it comes.
LEMMA EndKeeps ==
  ASSUME CoordinationInv, NEW end \in {"clean", "crashed"}, run.at # "idle",
         run' = [run EXCEPT !.at = end], UNCHANGED <<repo, branches, people, commits>>,
         worker' \in [Agents -> {"none", "running", "done", "failed", "orphan"}]
  PROVE  CoordinationInv'
<1>1. /\ run' \in Run /\ run'.at = end /\ run'.job = run.job /\ run'.diff = run.diff
      /\ run'.base = run.base /\ run'.applied = run.applied /\ run'.staged = run.staged
      /\ run'.committed = run.committed /\ branches' \subseteq Agents \X Jobs
  BY DEF CoordinationInv, TypeOK, Run, Phases
<1> QED  BY <1>1, RunStepKeeps

LEMMA CleanupKeeps ==
  ASSUME CoordinationInv, Cleanup
  PROVE  CoordinationInv'
<1>1. worker' \in [Agents -> {"none", "running", "done", "failed", "orphan"}]
  BY DEF Cleanup
<1> QED  BY <1>1, EndKeeps DEF Cleanup

LEMMA CrashKeeps ==
  ASSUME CoordinationInv, Crash
  PROVE  CoordinationInv'
<1>1. worker' \in [Agents -> {"none", "running", "done", "failed", "orphan"}]
  BY DEF Crash, CoordinationInv, TypeOK
<1> QED  BY <1>1, EndKeeps DEF Crash, Resting

LEMMA WorkersKeep ==
  ASSUME CoordinationInv, NEW a \in Agents, WorkerEnds(a) \/ OrphanEnds(a)
  PROVE  CoordinationInv'
<1>1. /\ worker' \in [Agents -> {"none", "running", "done", "failed", "orphan"}]
      /\ UNCHANGED <<repo, run, branches, people, commits>>
  BY DEF WorkerEnds, OrphanEnds, CoordinationInv, TypeOK
<1> QED  BY <1>1, RunStepKeeps DEF CoordinationInv, TypeOK

-----------------------------------------------------------------------------
(* Steps of a run that change the repository, and the next run             *)

LEMMA StartKeeps ==
  ASSUME CoordinationInv, NEW job \in Jobs, NEW diff \in Plans, Start(job, diff)
  PROVE  CoordinationInv'
<1> DEFINE staged == Differ(repo.index, repo.head)
<1>1. /\ run' \in Run /\ run'.at = "allocate" /\ run'.job = job /\ run'.diff = diff
      /\ run'.base = repo.head /\ run'.applied = {} /\ run'.staged = staged
      /\ run'.committed = FALSE /\ run'.patch = None
  BY CoordinationAssumption DEF Start, CoordinationInv, TypeOK, Run, Phases, Differ
<1>2. /\ worker' = [a \in Agents |-> "none"] /\ touched' = {}
      /\ UNCHANGED <<repo, branches, edits, mine, commits>>
  BY DEF Start
<1>3. TypeOK'
  BY <1>1, <1>2, CoordinationAssumption DEF CoordinationInv, TypeOK
<1>4. EditsAreNew'
  BY <1>1, <1>2 DEF CoordinationInv, EditsAreNew, Made
<1>5. Progress'
  BY <1>1, CoordinationAssumption DEF Progress, Early, Working
<1>6. AppliedStands'
  BY <1>1 DEF AppliedStands, Reporting, IntegratedIsInHead
<1>7. StagedIsAccounted'
  BY <1>1, <1>2 DEF CoordinationInv, StagedIsAccounted, CommitIsAccounted, Differ, Places
<1>8. EditsSurvive'
  BY <1>2 DEF CoordinationInv, EditsSurvive
<1> QED  BY <1>3, <1>4, <1>5, <1>6, <1>7, <1>8 DEF CoordinationInv

LEMMA ApplyPatchKeeps ==
  ASSUME CoordinationInv, NEW a \in Agents, ApplyPatch(a)
  PROVE  CoordinationInv'
<1>1. run.at = "apply" /\ run.diff \in [Agents -> Diffs] /\ run.job \in Jobs
  BY DEF ApplyPatch, CoordinationInv, Progress
<1>2. CASE ~Applies(a)
  BY <1>1, <1>2, FailKeeps DEF ApplyPatch, Working
<1>3. CASE Applies(a)
  <2> DEFINE p == File(a)
             after == After(a, "commit")
             file == repo.index[File(a)]
  <2>1. /\ repo' = [repo EXCEPT !.tree[p] = Merged(a, repo.tree[p]),
                                !.index[p] = Merged(a, repo.index[p])]
        /\ run' = [after EXCEPT !.applied = @ \cup {a}]
        /\ UNCHANGED <<worker, branches, people, commits>>
    BY <1>3 DEF ApplyPatch, Patched
  <2>2. p \in Paths /\ Hunks(a) \subseteq Parts /\ Task(a) \in Contents
    BY <1>1 DEF File, Hunks, Diffs, Task, Contents
  <2>3. /\ file = repo.tree[p] /\ file \in [Parts -> Contents]
        /\ \A h \in Hunks(a) : file[h] = run.base[p][h]
    BY <1>3, <2>2 DEF Applies, Fits, CoordinationInv, TypeOK, Files
  <2>4. /\ Merged(a, file) \in [Parts -> Contents]
        /\ \A h \in Parts : Merged(a, file)[h] = IF h \in Hunks(a) THEN Task(a) ELSE file[h]
    BY <2>2, <2>3 DEF Merged
  <2> HIDE DEF file
  <2>5. /\ repo'.head = repo.head
        /\ repo'.index = [repo.index EXCEPT ![p] = Merged(a, file)]
        /\ repo'.tree = [repo.tree EXCEPT ![p] = Merged(a, file)]
        /\ repo' \in [head : Files, index : Files, tree : Files]
    BY <2>1, <2>2, <2>3, <2>4 DEF CoordinationInv, TypeOK, Files, file
  <2> HIDE DEF p
  <2>6. \A q \in Paths : \A h \in Parts :
          /\ repo'.tree[q][h] = IF q = p /\ h \in Hunks(a) THEN Task(a) ELSE repo.tree[q][h]
          /\ repo'.index[q][h] = IF q = p /\ h \in Hunks(a) THEN Task(a) ELSE repo.index[q][h]
    <3>1. file = repo.index[p]  BY DEF file, p
    <3> QED  BY <2>2, <2>3, <2>4, <2>5, <3>1 DEF CoordinationInv, TypeOK, Files
  <2>7. /\ after \in Run /\ after.patch = None /\ after.job = run.job /\ after.diff = run.diff
        /\ after.base = run.base /\ after.applied = run.applied
        /\ after.staged = run.staged /\ after.committed = run.committed
        /\ \/ run.left = {a} /\ after.at = "commit"
           \/ after.at = "apply" /\ after.left = run.left \ {a}
    BY <1>1, AfterIs DEF CoordinationInv, Phases
  <2> HIDE DEF after
  <2>8. /\ run' \in Run /\ run'.patch = None /\ run'.job = run.job /\ run'.diff = run.diff
        /\ run'.base = run.base /\ run'.applied = run.applied \cup {a}
        /\ run'.staged = run.staged /\ run'.committed = run.committed
        /\ \/ run.left = {a} /\ run'.at = "commit"
           \/ run'.at = "apply" /\ run'.left = run.left \ {a}
    BY <2>1, <2>7 DEF Run
  <2>9. run.committed = FALSE /\ run.applied = Agents \ run.left /\ Distinct
    BY <1>1 DEF CoordinationInv, TypeOK, Run, Progress, Working
  <2>10. \A b \in Agents : File(b)' = File(b) /\ Hunks(b)' = Hunks(b) /\ Task(b)' = Task(b)
    BY <2>8 DEF File, Hunks, Task
  <2>11. \A b \in Agents : File(b) \in Paths /\ Hunks(b) \subseteq Parts
    BY <1>1 DEF File, Hunks, Diffs
  <2>12. TypeOK'
    BY <2>1, <2>5, <2>8, <2>9, CoordinationAssumption DEF CoordinationInv, TypeOK, people
  <2>13. EditsAreNew'
    <3>1. \A n \in Nat : Task(a) # <<"person", n>>  BY CoordinationAssumption DEF Task
    <3>2. \A n \in Nat : Task(a) = <<"person", n>> => n <= edits'  BY <3>1
    <3>3. \A x : Made(x) => \A n \in Nat : x = <<"person", n>> => n <= edits'
      BY <2>1 DEF Made, people
    <3>4. ASSUME NEW q \in Paths, NEW h \in Parts
          PROVE  /\ Made(repo.head[q][h])' /\ Made(repo.index[q][h])'
                 /\ Made(repo.tree[q][h])' /\ Made(run.base[q][h])'
      <4>1. /\ Made(repo.head[q][h]) /\ Made(repo.index[q][h])
            /\ Made(repo.tree[q][h]) /\ Made(run.base[q][h])
        BY DEF CoordinationInv, EditsAreNew
      <4>2. repo'.head[q][h] = repo.head[q][h] /\ run'.base[q][h] = run.base[q][h]
        BY <2>5, <2>8
      <4>3. /\ repo'.index[q][h] = Task(a) \/ repo'.index[q][h] = repo.index[q][h]
            /\ repo'.tree[q][h] = Task(a) \/ repo'.tree[q][h] = repo.tree[q][h]
        BY <2>6
      <4>4. \A n \in Nat : repo'.head[q][h] = <<"person", n>> => n <= edits'
        BY <3>3, <4>1, <4>2
      <4>5. \A n \in Nat : run'.base[q][h] = <<"person", n>> => n <= edits'
        BY <3>3, <4>1, <4>2
      <4>6. \A n \in Nat : repo'.index[q][h] = <<"person", n>> => n <= edits'
        BY <3>2, <3>3, <4>1, <4>3
      <4>7. \A n \in Nat : repo'.tree[q][h] = <<"person", n>> => n <= edits'
        BY <3>2, <3>3, <4>1, <4>3
      <4> QED  BY <4>4, <4>5, <4>6, <4>7 DEF Made
    <3>5. \A q \in Paths, h \in Parts :
            mine'[q][h] # None => mine'[q][h] # repo'.head[q][h] /\ mine'[q][h] # run'.base[q][h]
      BY <2>1, <2>5, <2>8 DEF CoordinationInv, EditsAreNew, people
    <3> QED  BY <3>4, <3>5 DEF EditsAreNew
  <2>14. Progress'
    BY <1>1, <2>8, <2>9, <2>10 DEF Progress, Early, Working, Distinct
  <2>15. AppliedStands'
    <3>1. ASSUME NEW b \in run.applied \cup {a}, NEW h \in Hunks(b), <<File(b), h>> \notin touched
          PROVE  repo'.index[File(b)][h] = Task(b)
      <4>1. b \in Agents /\ File(b) \in Paths /\ h \in Parts
        BY <2>11, <3>1 DEF CoordinationInv, TypeOK, Run
      <4>2. CASE b = a  BY <2>6, <4>1, <4>2 DEF p
      <4>3. CASE b # a
        <5>1. File(b) # p  BY <2>9, <4>1, <4>3 DEF Distinct, p
        <5>2. repo.index[File(b)][h] = Task(b)
          BY <1>1, <3>1, <4>3 DEF CoordinationInv, AppliedStands
        <5> QED  BY <2>6, <4>1, <5>1, <5>2
      <4> QED  BY <4>2, <4>3
    <3>2. \A b \in run'.applied : b \in Agents  BY <2>8 DEF Run
    <3> QED  BY <2>1, <2>8, <2>9, <2>10, <3>1, <3>2
             DEF AppliedStands, IntegratedIsInHead, Reporting, people
  <2>16. StagedIsAccounted'
    <3>1. ASSUME NEW q \in Paths, NEW h \in Parts, repo'.index[q][h] # repo'.head[q][h]
          PROVE  \/ <<q, h>> \in run.staged \cup touched
                 \/ \E b \in run.applied \cup {a} : q = File(b) /\ h \in Hunks(b)
      <4>1. CASE q = p /\ h \in Hunks(a)  BY <4>1 DEF p
      <4>2. CASE ~(q = p /\ h \in Hunks(a))
        <5>1. repo.index[q][h] # repo.head[q][h]
          BY <2>5, <2>6, <3>1, <4>2
        <5> QED  BY <1>1, <5>1 DEF CoordinationInv, StagedIsAccounted, Working
      <4> QED  BY <4>1, <4>2
    <3>2. run.applied \cup {a} \subseteq Agents  BY DEF CoordinationInv, TypeOK, Run
    <3> QED  BY <2>1, <2>8, <2>10, <3>1, <3>2
             DEF CoordinationInv, StagedIsAccounted, CommitIsAccounted, people
  <2>17. EditsSurvive'
    <3>1. \A h \in Hunks(a) : mine[p][h] = None
      BY <2>2, <2>3 DEF CoordinationInv, EditsAreNew, EditsSurvive, p
    <3> QED  BY <2>1, <2>6, <3>1 DEF CoordinationInv, EditsSurvive, people
  <2> QED  BY <2>12, <2>13, <2>14, <2>15, <2>16, <2>17 DEF CoordinationInv
<1> QED  BY <1>2, <1>3

\* What is committed is nobody's edit any more.
LEMMA UnrecordedIs ==
  ASSUME TypeOK, repo'.head \in Files, mine' = Unrecorded
  PROVE  /\ mine' \in [Paths -> [Parts -> Contents \cup {None}]]
         /\ \A p \in Paths, h \in Parts : mine'[p][h] # None =>
              mine'[p][h] = mine[p][h] /\ mine'[p][h] # repo'.head[p][h]
BY DEF Unrecorded, TypeOK

LEMMA CommitKeeps ==
  ASSUME CoordinationInv, Commit
  PROVE  CoordinationInv'
<1>1. run.at = "commit" /\ UNCHANGED <<worker, branches, edits, touched>>
  BY DEF Commit
<1>2. CASE Fail /\ UNCHANGED <<repo, mine, commits>>
  BY <1>1, <1>2, FailKeeps DEF Working, people
<1>3. CASE ~(Fail /\ UNCHANGED <<repo, mine, commits>>)
  <2> DEFINE c == [run |-> run.number, own |-> UNION {Own(a) : a \in Agents},
                   staged |-> run.staged, touched |-> touched,
                   changed |-> Differ(repo'.head, repo.head)]
  <2>1. /\ repo' = [repo EXCEPT !.head = repo.index, !.index = repo.index]
        /\ mine' = Unrecorded /\ commits' = commits \cup {c}
        /\ run' = [run EXCEPT !.at = "cleanup", !.committed = TRUE]
    BY <1>3 DEF Commit, Recorded
  <2>2. /\ repo'.head = repo.index /\ repo'.index = repo.index /\ repo'.tree = repo.tree
        /\ repo' \in [head : Files, index : Files, tree : Files]
    BY <2>1 DEF CoordinationInv, TypeOK
  <2>3. /\ run' \in Run /\ run'.at = "cleanup" /\ run'.committed = TRUE
        /\ run'.job = run.job /\ run'.diff = run.diff /\ run'.base = run.base
        /\ run'.applied = run.applied /\ run'.staged = run.staged
    BY <2>1 DEF CoordinationInv, TypeOK, Run, Phases
  <2>4. run.applied = Agents /\ run.diff \in [Agents -> Diffs]
    BY <1>1 DEF CoordinationInv, Progress
  <2>5. /\ mine' \in [Paths -> [Parts -> Contents \cup {None}]]
        /\ \A p \in Paths, h \in Parts : mine'[p][h] # None =>
             mine'[p][h] = mine[p][h] /\ mine'[p][h] # repo'.head[p][h]
    BY <2>1, <2>2, UnrecordedIs DEF CoordinationInv
  <2> HIDE DEF c
  <2>6. TypeOK'
    BY <1>1, <2>2, <2>3, <2>4, <2>5 DEF CoordinationInv, TypeOK
  <2>7. EditsAreNew'
    BY <1>1, <2>2, <2>3, <2>5 DEF CoordinationInv, EditsAreNew, Made
  <2>8. Progress'
    BY <1>1, <2>3, <2>4 DEF CoordinationInv, Progress, Early, Working
  <2>9. AppliedStands'
    <3>1. \A a \in Agents : File(a)' = File(a) /\ Hunks(a)' = Hunks(a) /\ Task(a)' = Task(a)
      BY <2>3 DEF File, Hunks, Task
    <3>2. \A a \in Agents : \A h \in Hunks(a) :
            <<File(a), h>> \notin touched => repo.index[File(a)][h] = Task(a)
      BY <1>1, <2>4 DEF CoordinationInv, AppliedStands
    <3> QED  BY <1>1, <2>2, <2>3, <2>4, <3>1, <3>2 DEF AppliedStands, IntegratedIsInHead
  <2>10. StagedIsAccounted'
    <3>1. c.changed \subseteq c.own \cup c.staged \cup c.touched
      BY <1>1, <2>2, <2>4
         DEF c, CoordinationInv, StagedIsAccounted, Working, Differ, Places, Own
    <3> QED  BY <2>1, <2>3, <3>1
             DEF CoordinationInv, StagedIsAccounted, CommitIsAccounted, Early, Working
  <2>11. EditsSurvive'
    BY <2>2, <2>5 DEF CoordinationInv, EditsSurvive
  <2> QED  BY <2>6, <2>7, <2>8, <2>9, <2>10, <2>11 DEF CoordinationInv
<1> QED  BY <1>2, <1>3

-----------------------------------------------------------------------------
(* People                                                                  *)

LEMMA EditKeeps ==
  ASSUME CoordinationInv, NEW p \in Paths, NEW h \in Parts, Edit(p, h)
  PROVE  CoordinationInv'
<1> DEFINE e == <<"person", edits + 1>>
<1>1. /\ edits < MaxEdits /\ edits' = edits + 1 /\ edits \in Nat
      /\ repo' = [repo EXCEPT !.tree[p][h] = e] /\ mine' = [mine EXCEPT ![p][h] = e]
      /\ touched' = touched \cup {<<p, h>>} /\ UNCHANGED <<work, commits>>
  BY CoordinationAssumption DEF Edit, CoordinationInv, TypeOK
<1>2. e \in Contents /\ edits' \in 0..MaxEdits
  BY <1>1, CoordinationAssumption DEF Contents
<1>3. \A x : Made(x) => x # e /\ \A n \in Nat : x = <<"person", n>> => n <= edits'
  BY <1>1 DEF Made
<1>4. \A n \in Nat : e = <<"person", n>> => n <= edits'
  BY <1>1
<1> HIDE DEF e
<1>5. /\ repo'.head = repo.head /\ repo'.index = repo.index
      /\ repo'.tree = [repo.tree EXCEPT ![p] = [repo.tree[p] EXCEPT ![h] = e]]
      /\ repo' \in [head : Files, index : Files, tree : Files]
      /\ mine' \in [Paths -> [Parts -> Contents \cup {None}]]
  BY <1>1, <1>2 DEF CoordinationInv, TypeOK, Files
<1>6. \A q \in Paths : \A k \in Parts :
        /\ repo'.tree[q][k] = IF q = p /\ k = h THEN e ELSE repo.tree[q][k]
        /\ mine'[q][k] = IF q = p /\ k = h THEN e ELSE mine[q][k]
  BY <1>1, <1>5 DEF CoordinationInv, TypeOK, Files
<1>7. TypeOK'
  BY <1>1, <1>2, <1>5 DEF CoordinationInv, TypeOK, work, Places
<1>8. EditsAreNew'
  <2>1. run' = run  BY <1>1 DEF work
  <2>2. \A q \in Paths : \A k \in Parts :
          Made(repo.head[q][k])' /\ Made(repo.index[q][k])' /\ Made(run.base[q][k])'
    BY <1>3, <1>5, <2>1 DEF CoordinationInv, EditsAreNew, Made
  <2>3. \A q \in Paths : \A k \in Parts : Made(repo.tree[q][k])'
    BY <1>3, <1>4, <1>6 DEF CoordinationInv, EditsAreNew, Made
  <2>4. \A q \in Paths : \A k \in Parts :
          mine'[q][k] # None => mine'[q][k] # repo'.head[q][k] /\ mine'[q][k] # run'.base[q][k]
    BY <1>3, <1>5, <1>6, <2>1 DEF CoordinationInv, EditsAreNew
  <2> QED  BY <2>2, <2>3, <2>4 DEF EditsAreNew
<1>9. Progress'
  BY <1>1 DEF work, CoordinationInv, Progress, Distinct, File
<1>10. AppliedStands'
  BY <1>1, <1>5
     DEF work, CoordinationInv, AppliedStands, IntegratedIsInHead, Reporting, File, Hunks, Task
<1>11. StagedIsAccounted'
  BY <1>1, <1>5
     DEF work, CoordinationInv, StagedIsAccounted, CommitIsAccounted, File, Hunks
<1>12. EditsSurvive'
  BY <1>6 DEF CoordinationInv, EditsSurvive
<1> QED  BY <1>7, <1>8, <1>9, <1>10, <1>11, <1>12 DEF CoordinationInv

LEMMA StageKeeps ==
  ASSUME CoordinationInv, NEW p \in Paths, Stage(p)
  PROVE  CoordinationInv'
<1> DEFINE new == {h \in Parts : repo.index[p][h] # repo.tree[p][h]}
<1>1. /\ repo' = [repo EXCEPT !.index[p] = repo.tree[p]] /\ touched' = touched \cup ({p} \X new)
      /\ UNCHANGED <<work, edits, mine, commits>>
  BY DEF Stage
<1>2. /\ repo'.head = repo.head /\ repo'.tree = repo.tree
      /\ repo'.index = [repo.index EXCEPT ![p] = repo.tree[p]]
      /\ repo' \in [head : Files, index : Files, tree : Files]
  BY <1>1 DEF CoordinationInv, TypeOK, Files
<1>3. \A q \in Paths : repo'.index[q] = IF q = p THEN repo.tree[p] ELSE repo.index[q]
  BY <1>2 DEF CoordinationInv, TypeOK, Files
\* A place that is not touched by this is staged as it was.
<1>4. \A q \in Paths, h \in Parts :
        <<q, h>> \in touched' \/ repo'.index[q][h] = repo.index[q][h]
  BY <1>1, <1>3
<1>5. touched \subseteq touched' /\ touched' \subseteq Places
  BY <1>1 DEF CoordinationInv, TypeOK, Places
<1> HIDE DEF new
<1>6. TypeOK'
  BY <1>1, <1>2, <1>5 DEF CoordinationInv, TypeOK, work
<1>7. EditsAreNew'
  BY <1>1, <1>2, <1>3 DEF work, CoordinationInv, EditsAreNew, Made
<1>8. Progress'
  BY <1>1 DEF work, CoordinationInv, Progress, Distinct, File
<1>9. AppliedStands'
  <2>1. ASSUME NEW a \in run.applied, NEW h \in Hunks(a), <<File(a), h>> \notin touched',
               run.at \in {"apply", "commit"} \/ Reporting
        PROVE  repo'.index[File(a)][h] = Task(a)
    <3>1. repo.index[File(a)][h] = Task(a)
      BY <1>5, <2>1 DEF CoordinationInv, AppliedStands
    <3>2. File(a) \in Paths /\ h \in Parts
      BY <2>1 DEF CoordinationInv, TypeOK, Run, Progress, Reporting, File, Hunks, Diffs
    <3> QED  BY <1>4, <2>1, <3>1, <3>2
  <2> QED  BY <1>1, <1>2, <1>5, <2>1
           DEF work, CoordinationInv, AppliedStands, IntegratedIsInHead, Reporting, File, Hunks,
               Task
<1>10. StagedIsAccounted'
  BY <1>1, <1>2, <1>4, <1>5
     DEF work, CoordinationInv, StagedIsAccounted, CommitIsAccounted, File, Hunks
<1>11. EditsSurvive'
  BY <1>1, <1>2 DEF CoordinationInv, EditsSurvive
<1> QED  BY <1>6, <1>7, <1>8, <1>9, <1>10, <1>11 DEF CoordinationInv

LEMMA CommitStagedKeeps ==
  ASSUME CoordinationInv, CommitStaged
  PROVE  CoordinationInv'
<1>1. /\ edits < MaxEdits /\ edits' = edits + 1 /\ edits \in Nat
      /\ repo' = [repo EXCEPT !.head = repo.index] /\ mine' = Unrecorded
      /\ UNCHANGED <<work, touched, commits>>
  BY CoordinationAssumption DEF CommitStaged, CoordinationInv, TypeOK
<1>2. /\ repo'.head = repo.index /\ repo'.index = repo.index /\ repo'.tree = repo.tree
      /\ repo' \in [head : Files, index : Files, tree : Files]
  BY <1>1 DEF CoordinationInv, TypeOK
<1>3. /\ mine' \in [Paths -> [Parts -> Contents \cup {None}]]
      /\ \A p \in Paths, h \in Parts : mine'[p][h] # None =>
             mine'[p][h] = mine[p][h] /\ mine'[p][h] # repo'.head[p][h]
  BY <1>1, <1>2, UnrecordedIs DEF CoordinationInv
<1>4. TypeOK'
  <2>1. edits' \in 0..MaxEdits  BY <1>1, CoordinationAssumption
  <2> QED  BY <1>1, <1>2, <1>3, <2>1 DEF CoordinationInv, TypeOK, work
<1>5. EditsAreNew'
  <2>1. \A x : Made(x) => Made(x)'  BY <1>1 DEF Made
  <2> QED  BY <1>1, <1>2, <1>3, <2>1 DEF work, CoordinationInv, EditsAreNew
<1>6. Progress'
  BY <1>1 DEF work, CoordinationInv, Progress, Distinct, File
<1>7. AppliedStands'
  <2>1. Reporting => run.applied = Agents
    BY DEF CoordinationInv, TypeOK, Reporting
  <2> QED  BY <1>1, <1>2, <2>1
           DEF work, CoordinationInv, AppliedStands, IntegratedIsInHead, Reporting, File, Hunks, Task
<1>8. StagedIsAccounted'
  BY <1>1, <1>2 DEF work, CoordinationInv, StagedIsAccounted, CommitIsAccounted, File, Hunks
<1>9. EditsSurvive'
  BY <1>2, <1>3 DEF CoordinationInv, EditsSurvive
<1> QED  BY <1>4, <1>5, <1>6, <1>7, <1>8, <1>9 DEF CoordinationInv

LEMMA DiscardKeeps ==
  ASSUME CoordinationInv, Discard
  PROVE  CoordinationInv'
<1>1. /\ edits < MaxEdits /\ edits' = edits + 1 /\ edits \in Nat
      /\ repo' = [repo EXCEPT !.index = repo.head, !.tree = repo.head]
      /\ mine' = NoEdits /\ touched' = Places /\ UNCHANGED <<work, commits>>
  BY CoordinationAssumption DEF Discard, CoordinationInv, TypeOK
<1>2. /\ repo'.head = repo.head /\ repo'.index = repo.head /\ repo'.tree = repo.head
      /\ repo' \in [head : Files, index : Files, tree : Files]
  BY <1>1 DEF CoordinationInv, TypeOK
<1>3. TypeOK'
  <2>1. edits' \in 0..MaxEdits  BY <1>1, CoordinationAssumption
  <2> QED  BY <1>1, <1>2, <2>1 DEF CoordinationInv, TypeOK, work, NoEdits
<1>4. EditsAreNew'
  <2>1. \A x : Made(x) => Made(x)'  BY <1>1 DEF Made
  <2> QED  BY <1>1, <1>2, <2>1 DEF work, CoordinationInv, EditsAreNew, NoEdits
<1>5. Progress'
  BY <1>1 DEF work, CoordinationInv, Progress, Distinct, File
<1>6. AppliedStands'
  <2>1. ASSUME NEW a \in Agents, NEW h \in Hunks(a), run.at # "idle"
        PROVE  <<File(a), h>> \in touched'
    BY <1>1, <2>1 DEF CoordinationInv, Progress, File, Hunks, Diffs, Places
  <2> QED  BY <1>1, <2>1
           DEF work, CoordinationInv, TypeOK, Run, AppliedStands, IntegratedIsInHead, Reporting,
               File, Hunks, Task
<1>7. StagedIsAccounted'
  BY <1>1, <1>2 DEF work, CoordinationInv, StagedIsAccounted, CommitIsAccounted, File, Hunks
<1>8. EditsSurvive'
  BY <1>1 DEF EditsSurvive, NoEdits
<1> QED  BY <1>3, <1>4, <1>5, <1>6, <1>7, <1>8 DEF CoordinationInv

-----------------------------------------------------------------------------
(* The specification                                                       *)

LEMMA InitKeeps ==
  Init => CoordinationInv
<1> SUFFICES ASSUME Init  PROVE CoordinationInv
  OBVIOUS
<1>1. AllBase \in Files /\ \A p \in Paths, h \in Parts : AllBase[p][h] = Base
  BY DEF AllBase, Files, Contents
<1>2. /\ repo.head = AllBase /\ repo.index = AllBase /\ repo.tree = AllBase
      /\ repo \in [head : Files, index : Files, tree : Files]
  BY <1>1 DEF Init
<1>3. /\ run \in Run /\ run.at = "idle" /\ run.base = AllBase /\ run.patch = None
      /\ run.committed = FALSE
  BY <1>1, CoordinationAssumption DEF Init, Run, Phases
<1>4. /\ worker = [a \in Agents |-> "none"] /\ branches = {} /\ edits = 0 /\ touched = {}
      /\ mine = NoEdits /\ commits = {}
  BY DEF Init
<1>5. TypeOK
  BY <1>2, <1>3, <1>4, CoordinationAssumption DEF TypeOK, NoEdits
<1>6. EditsAreNew
  BY <1>1, <1>2, <1>3, <1>4 DEF EditsAreNew, Made, Base, NoEdits
<1>7. Progress /\ AppliedStands
  BY <1>3 DEF Progress, AppliedStands, IntegratedIsInHead, Reporting, Early, Working
<1>8. StagedIsAccounted /\ EditsSurvive
  BY <1>3, <1>4 DEF StagedIsAccounted, CommitIsAccounted, EditsSurvive, NoEdits, Early, Working
<1> QED  BY <1>5, <1>6, <1>7, <1>8 DEF CoordinationInv

LEMMA NextKeeps ==
  ASSUME CoordinationInv, Next
  PROVE  CoordinationInv'
<1>1. CASE \E job \in Jobs, diff \in Plans : Start(job, diff)
  BY <1>1, StartKeeps
<1>2. CASE \E a \in Agents : RunStep(a)
  BY <1>2, AllocateWorktreeKeeps, SpawnKeeps, CollectKeeps, CheckPatchKeeps, ApplyPatchKeeps
     DEF RunStep
<1>3. CASE AssertNoPathConflicts  BY <1>3, AssertNoPathConflictsKeeps
<1>4. CASE Commit  BY <1>4, CommitKeeps
<1>5. CASE StepFails  BY <1>5, StepFailsKeeps
<1>6. CASE Cleanup  BY <1>6, CleanupKeeps
<1>7. CASE Crash  BY <1>7, CrashKeeps
<1>8. CASE \E a \in Agents : WorkerEnds(a) \/ OrphanEnds(a)  BY <1>8, WorkersKeep
<1>9. CASE \E p \in Paths : Stage(p) \/ \E h \in Parts : Edit(p, h)
  BY <1>9, EditKeeps, StageKeeps
<1>10. CASE CommitStaged  BY <1>10, CommitStagedKeeps
<1>11. CASE Discard  BY <1>11, DiscardKeeps
<1> QED
  BY <1>1, <1>2, <1>3, <1>4, <1>5, <1>6, <1>7, <1>8, <1>9, <1>10, <1>11
  DEF Next, CoordinatorStep

LEMMA StutterKeeps ==
  ASSUME CoordinationInv, UNCHANGED vars
  PROVE  CoordinationInv'
<1>1. UNCHANGED <<repo, run, worker, branches, people, commits>>
  BY DEF vars, work
<1> QED  BY <1>1, RunStepKeeps DEF CoordinationInv, TypeOK

\* The inductive invariant holds in every reachable state.
THEOREM Invariance == Spec => []CoordinationInv
<1>1. CoordinationInv /\ [Next]_vars => CoordinationInv'
  BY NextKeeps, StutterKeeps
<1> QED  BY <1>1, InitKeeps, PTL DEF Spec

\* Every variable has its type, a patch is in hand only while patches are applied, and
\* a run that committed has applied them all (Coordinator.run).
THEOREM TypeCorrect == Spec => []TypeOK
<1>1. CoordinationInv => TypeOK  BY DEF CoordinationInv
<1> QED  BY <1>1, Invariance, PTL

\* A run that reports its commit has the work of all its agents in it (integrate).
THEOREM Integration == Spec => []IntegratedIsInHead
<1>1. CoordinationInv => IntegratedIsInHead  BY DEF CoordinationInv, AppliedStands
<1> QED  BY <1>1, Invariance, PTL

\* No edit of a person that is not committed is overwritten by a run (integrate).
THEOREM EditsAreSafe == Spec => []EditsSurvive
<1>1. CoordinationInv => EditsSurvive  BY DEF CoordinationInv
<1> QED  BY <1>1, Invariance, PTL

\* What an integration commit changes has an origin (integrate).
THEOREM Accounting == Spec => []CommitIsAccounted
<1>1. CoordinationInv => CommitIsAccounted  BY DEF CoordinationInv, StagedIsAccounted
<1> QED  BY <1>1, Invariance, PTL
=============================================================================
