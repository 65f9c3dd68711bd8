-------------------------- MODULE AgentCoordination --------------------------
(***************************************************************************)
(* Developer agent coordination (src/src/fa3_developer_agent_coordination  *)
(* .py) with the Codex adapter (src/src/fa3_codex_adapter.py): runs of a   *)
(* Coordinator on one repository, one after the other.  A run gives every  *)
(* agent a worktree and a task, waits for the workers, applies their diffs *)
(* to the shared working tree one by one and commits what is staged.  It   *)
(* may fail at any step and be killed between any two.  People edit, stage *)
(* and commit in the same working tree meanwhile.                          *)
(*                                                                         *)
(* A worker is a Python process that runs codex and waits for it; it may   *)
(* change one file, that of its task, or else it fails.  A file has parts, *)
(* each as large as a hunk of a diff with its context: a diff fits a file  *)
(* in which others changed other parts.  The content of a part is          *)
(* identified with who wrote it last.  A git command is one step.  Each    *)
(* run has a control directory of its own, as in all uses, so that its     *)
(* mailboxes and cursors are read by nobody else; they are left out.       *)
(***************************************************************************)
EXTENDS Naturals, FiniteSets

CONSTANTS Agents,    \* every run has a task for each of them
          Jobs,      \* the sets of tasks: a job run again is a retry
          Paths,     \* files of the repository
          Parts,     \* parts of a file
          Plans,     \* what the diffs of a run's agents may change: a path and some parts each
          MaxRuns,   \* bound: runs of a Coordinator
          MaxEdits,  \* bound: edits, commits and resets by people
          None


Diffs == [path : Paths, parts : SUBSET Parts \ {{}}]

ASSUME CoordinationAssumption ==
  /\ Plans \subseteq [Agents -> Diffs]
  /\ IsFiniteSet(Agents) /\ Cardinality(Agents) > 1
  /\ MaxRuns \in Nat /\ MaxEdits \in Nat
  /\ {None, "person"} \cap Agents = {}

VARIABLES repo,      \* the commit, the index and the working tree
          run,       \* the latest run: where it is, and its locals
          worker,    \* worker[a]: the process of the agent in that run
          branches,  \* candidate branches, which nobody deletes
          edits,     \* how many of these there were
          touched,   \* places edited, staged or reset by people since the run began (history)
          mine,      \* mine[p][h]: the edit of part h of p that is not committed yet (history)
          commits    \* what each integration commit changed (history)

work == <<run, worker, branches>>
people == <<edits, touched, mine>>
vars == <<repo, work, people, commits>>

Base == <<"base", 0>>
Contents == {Base} \cup (Agents \X Jobs) \cup ({"person"} \X (1..MaxEdits))
Files == [Paths -> [Parts -> Contents]]
Places == Paths \X Parts
Phases == {"idle", "allocate", "spawn", "collect", "conflicts", "apply", "commit",
           "cleanup", "clean", "crashed"}

Run == [number : 0..MaxRuns, at : Phases, job : Jobs \cup {None},
        diff : Plans \cup {None}, base : Files, left : SUBSET Agents,
        patch : Agents \cup {None}, applied : SUBSET Agents, staged : SUBSET Places,
        committed : BOOLEAN]

AllBase == [p \in Paths |-> [h \in Parts |-> Base]]
NoEdits == [p \in Paths |-> [h \in Parts |-> None]]
\* The places where two versions of the repository differ.
Differ(one, other) == {pl \in Places : one[pl[1]][pl[2]] # other[pl[1]][pl[2]]}

Init ==
  /\ repo = [head |-> AllBase, index |-> AllBase, tree |-> AllBase]
  /\ run = [number |-> 0, at |-> "idle", job |-> None, diff |-> None, base |-> AllBase,
            left |-> {}, patch |-> None, applied |-> {}, staged |-> {}, committed |-> FALSE]
  /\ worker = [a \in Agents |-> "none"]
  /\ branches = {}
  /\ edits = 0
  /\ touched = {}
  /\ mine = NoEdits
  /\ commits = {}

-----------------------------------------------------------------------------
(* A run                                                                   *)

Resting == run.at \in {"idle", "clean", "crashed"}

Task(a) == <<a, run.job>>

\* A patch of a is taken in the place of its file.
File(a) == run.diff[a].path
Hunks(a) == run.diff[a].parts
Own(a) == {File(a)} \X Hunks(a)

\* Coordinator.__init__ and the beginning of run.  What each worker will change, if it
\* ends well, belongs to its task.
Start(job, diff) ==
  /\ Resting
  /\ run.number < MaxRuns
  /\ run' = [number |-> run.number + 1, at |-> "allocate", job |-> job, diff |-> diff,
             base |-> repo.head, left |-> Agents, patch |-> None, applied |-> {},
             staged |-> Differ(repo.index, repo.head), committed |-> FALSE]
  /\ worker' = [a \in Agents |-> "none"]
  /\ touched' = {}
  /\ UNCHANGED <<repo, branches, edits, mine, commits>>

\* The run goes to its finally block.
Fail == run' = [run EXCEPT !.at = "cleanup"]

\* The last agent is not waited for.
MutAfter(a, next) ==
  IF Cardinality(run.left) <= 2
  THEN [run EXCEPT !.at = next, !.left = Agents, !.patch = None]
  ELSE [run EXCEPT !.left = @ \ {a}, !.patch = None]

\* One agent is done; after the last the next part of the run begins.
After(a, next) ==
  IF run.left = {a} THEN [run EXCEPT !.at = next, !.left = Agents, !.patch = None]
                    ELSE [run EXCEPT !.left = @ \ {a}, !.patch = None]

\* git worktree add -b fails if the branch exists.
AllocateWorktree(a) ==
  /\ run.at = "allocate" /\ a \in run.left
  /\ \/ /\ Task(a) \notin branches
        /\ branches' = branches \cup {Task(a)}
        /\ run' = After(a, "spawn")
     \/ /\ Task(a) \in branches
        /\ Fail
        /\ UNCHANGED branches
  /\ UNCHANGED <<repo, worker, people, commits>>

Spawn(a) ==
  /\ run.at = "spawn" /\ a \in run.left
  /\ worker' = [worker EXCEPT ![a] = "running"]
  /\ run' = After(a, "collect")
  /\ UNCHANGED <<repo, branches, people, commits>>

\* The worker made its change, or none, or another one, or committed, and so failed.
WorkerEnds(a) ==
  /\ worker[a] = "running"
  /\ \E how \in {"done", "failed"} : worker' = [worker EXCEPT ![a] = how]
  /\ UNCHANGED <<repo, run, branches, people, commits>>

\* A worker is waited for without a timeout.
MutGivesUp(a) == worker[a] = "failed"

\* collect_workers denies the run: the worker failed, or communicate timed out.
GivesUp(a) == worker[a] \in {"failed", "running"}

Collect(a) ==
  /\ run.at = "collect" /\ a \in run.left
  /\ \/ /\ worker[a] = "done"
        /\ run' = After(a, "conflicts")
     \/ /\ GivesUp(a)
        /\ Fail
  /\ UNCHANGED <<repo, worker, branches, people, commits>>

AssertNoPathConflicts ==
  /\ run.at = "conflicts"
  /\ IF \A a, b \in Agents : File(a) = File(b) => a = b
     THEN run' = [run EXCEPT !.at = "apply"]
     ELSE Fail
  /\ UNCHANGED <<repo, worker, branches, people, commits>>

\* The hunks of the diff find their context in this version of the file.
Fits(a, file) == \A h \in Hunks(a) : file[h] = run.base[File(a)][h]

\* git apply --check looks at the working tree only.
CheckPatch(a) ==
  /\ run.at = "apply" /\ run.patch = None /\ a \in run.left
  /\ IF Fits(a, repo.tree[File(a)])
     THEN run' = [run EXCEPT !.patch = a]
     ELSE Fail
  /\ UNCHANGED <<repo, worker, branches, people, commits>>

\* git apply --cached
MutApplies(a) == Fits(a, repo.index[File(a)])

\* git apply --index wants the file to be staged as it is, all of it.
Applies(a) ==
  /\ repo.tree[File(a)] = repo.index[File(a)]
  /\ Fits(a, repo.index[File(a)])

\* What others changed elsewhere in the file stays.
Merged(a, file) == [h \in Parts |-> IF h \in Hunks(a) THEN Task(a) ELSE file[h]]

Patched(a) ==
  [repo EXCEPT !.tree[File(a)] = Merged(a, @), !.index[File(a)] = Merged(a, @)]

ApplyPatch(a) ==
  /\ run.at = "apply" /\ run.patch = a
  /\ IF Applies(a)
     THEN /\ repo' = Patched(a)
          /\ run' = [After(a, "commit") EXCEPT !.applied = @ \cup {a}]
     ELSE /\ Fail
          /\ UNCHANGED repo
  /\ UNCHANGED <<worker, branches, people, commits>>

\* git commit -a
MutRecorded == repo.tree

\* git commit takes the index as it is.
Recorded == repo.index

Unrecorded ==
  [p \in Paths |-> [h \in Parts |->
     IF mine[p][h] = repo'.head[p][h] THEN None ELSE mine[p][h]]]

\* git commit; with nothing staged it fails
Commit ==
  /\ run.at = "commit"
  /\ \/ /\ repo.index # repo.head
        /\ repo' = [repo EXCEPT !.head = Recorded, !.index = Recorded]
        /\ mine' = Unrecorded
        /\ commits' = commits \cup
             {[run |-> run.number, own |-> UNION {Own(a) : a \in Agents},
               staged |-> run.staged, touched |-> touched,
               changed |-> Differ(repo'.head, repo.head)]}
        /\ run' = [run EXCEPT !.at = "cleanup", !.committed = TRUE]
     \/ /\ repo.index = repo.head
        /\ Fail
        /\ UNCHANGED <<repo, mine, commits>>
  /\ UNCHANGED <<worker, branches, edits, touched>>

\* Whatever a step calls may fail: git, the disk, a hook, a refused message.
StepFails ==
  /\ ~Resting /\ run.at # "cleanup"
  /\ Fail
  /\ UNCHANGED <<repo, worker, branches, people, commits>>

\* A worker that still runs is terminated; the codex process it waits for is not.
Cleanup ==
  /\ run.at = "cleanup"
  /\ run' = [run EXCEPT !.at = "clean"]
  /\ worker' = [a \in Agents |-> IF worker[a] = "running" THEN "orphan" ELSE "none"]
  /\ UNCHANGED <<repo, branches, people, commits>>

\* The codex process ends; its worktree is gone.
OrphanEnds(a) ==
  /\ worker[a] = "orphan"
  /\ worker' = [worker EXCEPT ![a] = "none"]
  /\ UNCHANGED <<repo, run, branches, people, commits>>

\* The process of the run is killed.
Crash ==
  /\ ~Resting
  /\ run' = [run EXCEPT !.at = "crashed"]
  /\ UNCHANGED <<repo, worker, branches, people, commits>>

-----------------------------------------------------------------------------
(* People                                                                  *)

Edit(p, h) ==
  /\ edits < MaxEdits
  /\ edits' = edits + 1
  /\ repo' = [repo EXCEPT !.tree[p][h] = <<"person", edits'>>]
  /\ mine' = [mine EXCEPT ![p][h] = <<"person", edits'>>]
  /\ touched' = touched \cup {<<p, h>>}
  /\ UNCHANGED <<work, commits>>

\* git add
Stage(p) ==
  /\ repo.index[p] # repo.tree[p]
  /\ repo' = [repo EXCEPT !.index[p] = repo.tree[p]]
  /\ touched' = touched \cup ({p} \X {h \in Parts : repo.index[p][h] # repo.tree[p][h]})
  /\ UNCHANGED <<work, edits, mine, commits>>

CommitStaged ==
  /\ edits < MaxEdits
  /\ repo.index # repo.head
  /\ edits' = edits + 1
  /\ repo' = [repo EXCEPT !.head = repo.index]
  /\ mine' = Unrecorded
  /\ UNCHANGED <<work, touched, commits>>

\* git reset --hard
Discard ==
  /\ edits < MaxEdits
  /\ edits' = edits + 1
  /\ repo' = [repo EXCEPT !.index = repo.head, !.tree = repo.head]
  /\ mine' = NoEdits
  /\ touched' = Places
  /\ UNCHANGED <<work, commits>>

RunStep(a) ==
  \/ AllocateWorktree(a) \/ Spawn(a) \/ Collect(a) \/ CheckPatch(a) \/ ApplyPatch(a)

CoordinatorStep ==
  \/ \E a \in Agents : RunStep(a)
  \/ AssertNoPathConflicts \/ Commit \/ StepFails \/ Cleanup

Next ==
  \/ \E job \in Jobs, diff \in Plans : Start(job, diff)
  \/ CoordinatorStep \/ Crash
  \/ \E a \in Agents : WorkerEnds(a) \/ OrphanEnds(a)
  \/ \E p \in Paths : Stage(p) \/ \E h \in Parts : Edit(p, h)
  \/ CommitStaged \/ Discard

\* StepFails is part of no fairness: a run must not have to fail to come to an end.
Spec ==
  /\ Init /\ [][Next]_vars
  /\ WF_vars(AssertNoPathConflicts \/ Commit \/ Cleanup \/ \E a \in Agents : RunStep(a))

-----------------------------------------------------------------------------
(* Properties                                                              *)

\* Every variable has its type; a patch is in hand only while patches are applied, and
\* a run that committed has applied the patch of every agent.
TypeOK ==
  /\ repo \in [head : Files, index : Files, tree : Files]
  /\ run \in Run
  /\ run.patch \in Agents => run.at \in {"apply", "cleanup", "clean", "crashed"}
  /\ run.committed => run.applied = Agents
  /\ worker \in [Agents -> {"none", "running", "done", "failed", "orphan"}]
  /\ branches \subseteq Agents \X Jobs
  /\ edits \in 0..MaxEdits /\ touched \subseteq Places
  /\ mine \in [Paths -> [Parts -> Contents \cup {None}]]

\* The work of every agent of a run that reports its commit is in that commit, part by
\* part, but for parts that people touched meanwhile (integrate, and the evidence of run).
IntegratedIsInHead ==
  run.committed /\ run.at = "cleanup" =>
    \A a \in Agents : \A h \in Hunks(a) :
      <<File(a), h>> \notin touched => repo.head[File(a)][h] = Task(a)

\* No run, finished, failed or killed, overwrites an edit that is not committed, although
\* its patches are applied to files that people edit and stage elsewhere: the diffs were
\* made against the commit, and a hunk has to find its context as it was there (git apply
\* --check, git apply --index).
EditsSurvive ==
  \A p \in Paths, h \in Parts : mine[p][h] # None => repo.tree[p][h] = mine[p][h]

\* An integration commit changes the parts that its own agents changed, and beyond these
\* only what was staged before the run or touched by people during it, in the same files
\* or in others (git commit).
CommitIsAccounted ==
  \A c \in commits : c.changed \subseteq c.own \cup c.staged \cup c.touched

\* Every run comes to an end, whatever its workers do (communicate with a timeout).
RunEnds == ~Resting ~> Resting

=============================================================================
