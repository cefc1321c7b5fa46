-------------------------- MODULE EvidenceRecorder --------------------------
(***************************************************************************)
(* The evidence recorder of scripts/run-operational-fomo-evidence.mjs and  *)
(* the verifier of scripts/verify-operational-fomo-evidence.mjs that reads *)
(* what it left.  Every todo of the plan is worked on in a worktree of its *)
(* own; the recorder writes a start record, runs commands, freezes a       *)
(* manifest, and writes an integration receipt once the work was merged.   *)
(* Several recorders run at once, any of them may be killed between two    *)
(* steps, and people commit, amend, merge and rewrite files meanwhile.     *)
(*                                                                         *)
(* A commit is <<todo, k>>: the k-th commit of the todo's worktree, or,    *)
(* above MaxCommits[todo], the merge of one.  A digest is modelled by what it is *)
(* the digest of: two digests are equal when the contents are.             *)
(***************************************************************************)
EXTENDS Integers, Sequences, FiniteSets

CONSTANTS Todos,              \* the todos of the plan, 1 is the bootstrap
          Deps,               \* the plan's dependency matrix
          WriteSets,          \* the todos with a row of write sets after it
          Recorders,          \* recorder processes
          MaxCommits,         \* todo -> commits of its worktree
          MaxRuns,            \* todo -> command logs
          MaxEvidenceFaults   \* kills, rewritten files, drifted identities

ASSUME EvidenceAssumption ==
    /\ Todos \subseteq Nat /\ 1 \in Todos
    /\ Deps \in [Todos -> SUBSET Todos] /\ WriteSets \subseteq Todos
    /\ MaxCommits \in [Todos -> Nat \ {0}] /\ MaxRuns \in [Todos -> Nat]
    /\ MaxEvidenceFaults \in Nat

NoFile == [none |-> TRUE]
Base == <<0, 0>>
Bootstrap == <<1, 1>>

WorkCommits == UNION {{t} \X (1 .. MaxCommits[t]) : t \in Todos}
MergeOf(c) == <<c[1], c[2] + MaxCommits[c[1]]>>
CommitIds == {Base} \cup WorkCommits \cup {MergeOf(c) : c \in WorkCommits}

VARIABLES identity,      \* of the attempt: "NONE", "APPROVED", "DRIFTED"
          history,       \* commit -> NoFile or its ancestors, parents, paths
          mainHead,      \* the commit the integration branch is at
          worktree,      \* todo -> NoFile or its head and cleanliness
          startRecord, commandRecords, manifest, integration,
          logs,          \* todo -> version of each output file, 0: absent
          narrative,     \* todo -> version of the .txt evidence, 0: absent
          recorder,      \* recorder -> the command it is in the middle of
          reported,      \* todo -> logs whose command was reported finished
          overlapped,    \* todos two runs of which were under way at once
          evidenceFaults

evidenceVars == <<identity, history, mainHead, worktree, startRecord,
                  commandRecords, manifest, integration, logs, narrative,
                  recorder, reported, overlapped, evidenceFaults>>
files == <<startRecord, commandRecords, manifest, integration>>
people == <<history, mainHead, worktree, narrative>>

Free == [command |-> "none"]

MadeCommit(c) == history[c] # NoFile
IsAncestor(a, c) == MadeCommit(c) /\ a \in history[c].ancestors

\* enforceWriteSet: the plan has a write set for the todo, and the commit
\* touched nothing outside it.
Declared(t, c) == t \in WriteSets /\ history[c].paths \in {"declared", "empty"}

EvidenceInit ==
    /\ identity = "NONE"
    /\ history = [c \in CommitIds |->
          CASE c = Base -> [ancestors |-> {Base}, parents |-> <<>>, paths |-> "empty"]
            [] c = Bootstrap -> [ancestors |-> {Base, Bootstrap},
                                 parents |-> <<Base>>, paths |-> "declared"]
            [] OTHER -> NoFile]
    /\ mainHead = Bootstrap
    /\ worktree = [t \in Todos |->
          IF t = 1 THEN [head |-> Bootstrap, clean |-> TRUE] ELSE NoFile]
    /\ startRecord = [t \in Todos |-> NoFile]
    /\ commandRecords = [t \in Todos |-> <<>>]
    /\ manifest = [t \in Todos |-> NoFile]
    /\ integration = [t \in Todos |-> NoFile]
    /\ logs = [t \in Todos |-> [i \in 1 .. MaxRuns[t] |-> 0]]
    /\ narrative = [t \in Todos |-> 0]
    /\ recorder = [r \in Recorders |-> Free]
    /\ reported = [t \in Todos |-> {}]
    /\ overlapped = {}
    /\ evidenceFaults = 0

-----------------------------------------------------------------------------
(* People and their Git repository.                                        *)

PersonOnly == UNCHANGED <<identity, files, logs, recorder, reported,
                          overlapped, evidenceFaults>>

\* A worktree is created at, or moved to, the head of the branch.
Checkout(t) ==
    /\ t # 1
    /\ worktree' = [worktree EXCEPT ![t] = [head |-> mainHead, clean |-> TRUE]]
    /\ PersonOnly /\ UNCHANGED <<history, mainHead, narrative>>

\* The work is committed: only declared paths, some other, or none at all.
CommitWork(t, c, paths) ==
    /\ worktree[t] # NoFile /\ c[1] = t /\ ~MadeCommit(c)
    /\ \A k \in 1 .. c[2] - 1 : MadeCommit(<<t, k>>)
    /\ history' = [history EXCEPT ![c] =
          [ancestors |-> history[worktree[t].head].ancestors \cup {c},
           parents |-> <<worktree[t].head>>, paths |-> paths]]
    /\ worktree' = [worktree EXCEPT ![t] = [head |-> c, clean |-> TRUE]]
    /\ PersonOnly /\ UNCHANGED <<mainHead, narrative>>

\* The tree is changed under a command that is under way, or is put right.
\* (A change at another time only makes the next command refuse to begin.)
Edit(t) ==
    /\ worktree[t] # NoFile
    /\ worktree[t].clean => \E r \in Recorders : recorder[r].command = "run"
                                                  /\ recorder[r].todo = t
    /\ worktree' = [worktree EXCEPT ![t].clean = ~@]
    /\ PersonOnly /\ UNCHANGED <<history, mainHead, narrative>>

\* git merge --no-ff of a worktree's commit into the branch.
MergeWork(t) ==
    /\ worktree[t] # NoFile
    /\ LET c == worktree[t].head m == MergeOf(c) IN
        /\ c \in WorkCommits /\ c[1] = t
        /\ ~IsAncestor(c, mainHead) /\ ~MadeCommit(m)
        /\ history' = [history EXCEPT ![m] =
              [ancestors |-> history[mainHead].ancestors
                             \cup history[c].ancestors \cup {m},
               parents |-> <<mainHead, c>>, paths |-> "empty"]]
        /\ mainHead' = m
    /\ PersonOnly /\ UNCHANGED <<worktree, narrative>>

\* The narrative is written.
WriteNarrative(t) ==
    /\ narrative[t] = 0
    /\ narrative' = [narrative EXCEPT ![t] = 1]
    /\ PersonOnly /\ UNCHANGED <<history, mainHead, worktree>>

-----------------------------------------------------------------------------
(* The recorder.                                                           *)

\* initializeAttempt: the review receipt must be the approved one, of two
\* different reviewers who both saw the base of the bootstrap commit.
Initialize(approved, sameReviewer, reviewedBase) ==
    /\ identity = "NONE"
    /\ worktree[1].clean
    /\ approved /\ ~sameReviewer /\ <<reviewedBase>> = history[worktree[1].head].parents
    /\ identity' = "APPROVED"
    /\ UNCHANGED <<people, files, logs, recorder, reported, overlapped, evidenceFaults>>

ValidateAttempt == identity = "APPROVED"

\* readBaseline: the tasks that have an integration receipt by now.
Baseline == {[todo |-> d, commit |-> integration[d].commit] :
                 d \in {e \in Todos : integration[e] # NoFile}}

\* parseDependencies of the recorder.  It reads every row "| N | ... |" of the
\* plan, the later one of a todo in place of the earlier: the write sets, which
\* follow the matrix and hold no number, leave the todo with no dependency.
ReadDependencies(t) == IF t \in WriteSets THEN {} ELSE Deps[t]

\* The dependency loop of startTask.
DependenciesAreIn(t, head) ==
    \A d \in ReadDependencies(t) :
        \E e \in Baseline : e.todo = d /\ IsAncestor(e.commit, head)

\* countBootstrapWorktrees and the other proofs of a retrospective start.
RetroProof(t) ==
    /\ t = 1 /\ worktree[1].head = Bootstrap /\ Declared(1, Bootstrap)
    /\ Cardinality({x \in Todos : worktree[x] # NoFile /\ worktree[x].head = Bootstrap}) = 1
    /\ Baseline = {}

StartRecord(t, retrospective) ==
    [sha |-> IF retrospective THEN Base ELSE worktree[t].head, baseline |-> Baseline]

Take(r, job) ==
    /\ recorder[r] = Free
    /\ recorder' = [recorder EXCEPT ![r] = job]

Drop(r) == recorder' = [recorder EXCEPT ![r] = Free]

\* startTask up to the write of its record.
BeginStart(r, t, retrospective) ==
    /\ ValidateAttempt
    /\ worktree[t] # NoFile /\ worktree[t].clean
    /\ startRecord[t] = NoFile /\ manifest[t] = NoFile /\ integration[t] = NoFile
    /\ DependenciesAreIn(t, worktree[t].head)
    /\ retrospective => RetroProof(t)
    /\ Take(r, [command |-> "start", todo |-> t, file |-> StartRecord(t, retrospective)])
    /\ UNCHANGED <<identity, people, files, logs, reported, overlapped, evidenceFaults>>

\* runTaskCommand up to the spawn: the records read now are the ones that
\* are written back, with one more, when the child has ended.
BeginRun(r, t, i) ==
    /\ ValidateAttempt
    /\ worktree[t] # NoFile /\ worktree[t].clean
    /\ startRecord[t] # NoFile
    /\ logs[t][i] = 0
    /\ i = 1 + Cardinality({j \in 1 .. MaxRuns[t] : logs[t][j] # 0})
    /\ logs' = [logs EXCEPT ![t][i] = 1]
    /\ Take(r, [command |-> "run", todo |-> t, existing |-> commandRecords[t],
                log |-> i, at |-> worktree[t].head])
    /\ overlapped' = IF \E q \in Recorders : recorder[q].command = "run"
                                              /\ recorder[q].todo = t
                     THEN overlapped \cup {t} ELSE overlapped
    /\ UNCHANGED <<identity, people, files, reported, evidenceFaults>>

\* The command record: what ended, how, and on which commit.
CommandRecord(job, passed) ==
    [log |-> job.log, version |-> logs[job.todo][job.log], passed |-> passed,
     at |-> job.at, cleanAfter |-> worktree[job.todo].clean]

\* replaceJson of the records.
Replaced(job, record) == Append(job.existing, record)

\* The child has closed, with or without success, or was closed at its deadline.
EndRun(r, passed) ==
    /\ recorder[r].command = "run"
    /\ LET job == recorder[r] IN
        /\ commandRecords' = [commandRecords EXCEPT ![job.todo] =
                                 Replaced(job, CommandRecord(job, passed))]
        /\ reported' = [reported EXCEPT ![job.todo] = @ \cup {job.log}]
    /\ Drop(r)
    /\ UNCHANGED <<identity, people, startRecord, manifest, integration, logs,
                   overlapped, evidenceFaults>>

\* The child failed to start, or did not close after its deadline: the command
\* throws, its log stays, and no record of it is written.
RunIsLost(r) ==
    /\ recorder[r].command = "run"
    /\ Drop(r)
    /\ UNCHANGED <<identity, people, files, logs, reported, overlapped, evidenceFaults>>

\* finalizeTask's rule on the commit: exactly one, on the start SHA.
OneCommitOn(sha, c) == MadeCommit(c) /\ history[c].parents = <<sha>>

\* finalizeTask's rule on the commands.
AllPassed(records, c) ==
    /\ records # <<>>
    /\ \A i \in DOMAIN records :
          records[i].passed /\ records[i].cleanAfter /\ records[i].at = c

Manifest(t, c) ==
    [commit |-> c, sha |-> startRecord[t].sha, baseline |-> startRecord[t].baseline,
     commands |-> commandRecords[t], evidence |-> narrative[t],
     paths |-> history[c].paths]

BeginFinalize(r, t) ==
    /\ ValidateAttempt
    /\ worktree[t] # NoFile /\ worktree[t].clean
    /\ startRecord[t] # NoFile /\ manifest[t] = NoFile
    /\ LET c == worktree[t].head IN
        /\ OneCommitOn(startRecord[t].sha, c)
        /\ Declared(t, c)
        /\ AllPassed(commandRecords[t], c)
        /\ narrative[t] # 0
        /\ Take(r, [command |-> "finalize", todo |-> t, file |-> Manifest(t, c)])
    /\ UNCHANGED <<identity, people, files, logs, reported, overlapped, evidenceFaults>>

\* verifyManifestEvidence: every hashed file is still what it was.
EvidenceStands(t, m) ==
    /\ \A i \in DOMAIN m.commands : logs[t][m.commands[i].log] = m.commands[i].version
    /\ narrative[t] = m.evidence

\* integrateTask: which commit may be named the integration of the task.
IntegratesTask(t, c, m) ==
    /\ IsAncestor(c, m)
    /\ IF t = 1 THEN m = c
       ELSE Len(history[m].parents) = 2 /\ IsAncestor(c, history[m].parents[2])

BeginIntegrate(r, t, m) ==
    /\ ValidateAttempt
    /\ manifest[t] # NoFile /\ integration[t] = NoFile
    /\ EvidenceStands(t, manifest[t])
    /\ IntegratesTask(t, manifest[t].commit, m)
    /\ Take(r, [command |-> "integrate", todo |-> t,
                file |-> [commit |-> manifest[t].commit, at |-> m, manifest |-> manifest[t]]])
    /\ UNCHANGED <<identity, people, files, logs, reported, overlapped, evidenceFaults>>

\* The record is renamed into its place, as replaceJson does.
Bug_Linked(old, new) == new

\* atomicJson: link() refuses a name that is taken.
Linked(old, new) == IF old = NoFile THEN new ELSE old

WriteRecord(r) ==
    /\ LET job == recorder[r] IN
        \/ /\ job.command = "start"
           /\ startRecord' = [startRecord EXCEPT ![job.todo] = Linked(@, job.file)]
           /\ UNCHANGED <<manifest, integration>>
        \/ /\ job.command = "finalize"
           /\ manifest' = [manifest EXCEPT ![job.todo] = Linked(@, job.file)]
           /\ UNCHANGED <<startRecord, integration>>
        \/ /\ job.command = "integrate"
           /\ integration' = [integration EXCEPT ![job.todo] = Linked(@, job.file)]
           /\ UNCHANGED <<startRecord, manifest>>
    /\ Drop(r)
    /\ UNCHANGED <<identity, people, commandRecords, logs, reported, overlapped, evidenceFaults>>

-----------------------------------------------------------------------------
(* Faults.                                                                 *)

EvidenceFault ==
    /\ evidenceFaults < MaxEvidenceFaults
    /\ evidenceFaults' = evidenceFaults + 1

\* A recorder is killed; a log it opened stays behind.
Killed(r) ==
    /\ EvidenceFault /\ recorder[r] # Free /\ Drop(r)
    /\ UNCHANGED <<identity, people, files, logs, reported, overlapped>>

\* The plan, the review or the descriptor script is replaced.
Drift ==
    /\ EvidenceFault /\ identity = "APPROVED" /\ identity' = "DRIFTED"
    /\ UNCHANGED <<people, files, logs, recorder, reported, overlapped>>

\* The narrative or a log is rewritten after the fact.
RewriteNarrative(t) ==
    /\ EvidenceFault /\ narrative[t] = 1 /\ narrative' = [narrative EXCEPT ![t] = 2]
    /\ UNCHANGED <<identity, history, mainHead, worktree, files, logs, recorder,
                   reported, overlapped>>

RewriteLog(t, i) ==
    /\ EvidenceFault /\ logs[t][i] = 1 /\ logs' = [logs EXCEPT ![t][i] = 2]
    /\ UNCHANGED <<identity, people, files, recorder, reported, overlapped>>

\* A manifest is rewritten to name another commit.
RewriteManifest(t, c) ==
    /\ EvidenceFault /\ manifest[t] # NoFile /\ MadeCommit(c) /\ manifest[t].commit # c
    /\ manifest' = [manifest EXCEPT ![t].commit = c]
    /\ UNCHANGED <<identity, people, startRecord, commandRecords, integration,
                   logs, recorder, reported, overlapped>>

EvidenceNext ==
    \/ \E t \in Todos : Checkout(t) \/ Edit(t) \/ MergeWork(t) \/ WriteNarrative(t)
    \/ \E c \in WorkCommits, paths \in {"declared", "stray", "empty"} :
          CommitWork(c[1], c, paths)
    \/ \E approved, same \in BOOLEAN, base \in {Base, Bootstrap} :
          Initialize(approved, same, base)
    \/ \E r \in Recorders, t \in Todos :
          \/ \E retrospective \in BOOLEAN : BeginStart(r, t, retrospective)
          \/ \E i \in 1 .. MaxRuns[t] : BeginRun(r, t, i)
          \/ BeginFinalize(r, t)
          \/ \E m \in CommitIds : BeginIntegrate(r, t, m)
    \/ \E r \in Recorders :
          \/ \E passed \in BOOLEAN : EndRun(r, passed)
          \/ RunIsLost(r)
          \/ WriteRecord(r)
          \/ Killed(r)
    \/ Drift
    \/ \E t \in Todos :
          \/ RewriteNarrative(t)
          \/ \E i \in 1 .. MaxRuns[t] : RewriteLog(t, i)
          \/ \E c \in WorkCommits : RewriteManifest(t, c)

EvidenceSpec == EvidenceInit /\ [][EvidenceNext]_evidenceVars

-----------------------------------------------------------------------------
(* The verifier: loadGraph and verifyManifestArtifacts, at a branch head.  *)

\* The dependency loop of loadGraph.
BaselineHolds(t) ==
    \A d \in Deps[t] :
       /\ d < t
       /\ [todo |-> d, commit |-> manifest[d].commit] \in manifest[t].baseline
       /\ IsAncestor(manifest[d].commit, manifest[t].sha)

\* verifyManifestArtifacts.
ArtifactsHold(t) ==
    /\ \A i \in DOMAIN manifest[t].commands : manifest[t].commands[i].at = manifest[t].commit
    /\ EvidenceStands(t, manifest[t])

TaskComplies(t, head) ==
    /\ manifest[t] # NoFile /\ integration[t] # NoFile
    /\ manifest[t].paths # "empty"
    /\ AllPassed(manifest[t].commands, manifest[t].commands[1].at)
    /\ integration[t].manifest = manifest[t]
    /\ integration[t].commit = manifest[t].commit
    /\ IsAncestor(manifest[t].commit, head) /\ IsAncestor(integration[t].at, head)
    /\ history[manifest[t].commit].parents = <<manifest[t].sha>>
    /\ history[manifest[t].commit].paths = manifest[t].paths
    /\ BaselineHolds(t)
    /\ ArtifactsHold(t)

Compliance(head) ==
    /\ ValidateAttempt
    /\ \A t \in Todos : manifest[t] # NoFile
    /\ \A t \in Todos : TaskComplies(t, head)

-----------------------------------------------------------------------------
(* Properties.                                                             *)

\* A start record, a manifest and a receipt are never replaced by a later
\* recorder (run-operational-fomo-evidence.mjs, atomicJson), however many
\* recorders passed the check for an existing record before the write.
RecordsStand ==
    [][\A t \in Todos :
          /\ startRecord[t] # NoFile => startRecord'[t] = startRecord[t]
          /\ integration[t] # NoFile => integration'[t] = integration[t]
          /\ manifest[t] # NoFile /\ evidenceFaults' = evidenceFaults
                => manifest'[t] = manifest[t]]_evidenceVars

\* Every command that was reported as finished is on record, once, so that a
\* failure cannot be lost by running the command again
\* (run-operational-fomo-evidence.mjs, runTaskCommand): finalize refuses a
\* todo with a failure on record.  Two runs of one todo at a time are the
\* exception: each writes back the records it read, with its own.  A child that
\* could not be started or closed is not reported as finished, and not kept.
FailuresAreKept ==
    \A t \in Todos \ overlapped :
       reported[t] = {commandRecords[t][i].log : i \in DOMAIN commandRecords[t]}

\* What the recorder let through, the verifier accepts: when every todo has
\* its receipt and nobody has rewritten a file since, verifyCompliance
\* passes at the head of the branch (verify-operational-fomo-evidence.mjs,
\* loadGraph).  There are four exceptions, which the recorder records and the
\* verifier refuses: a commit that changes no path, a todo that depends on a
\* later one, a bootstrap commit that is not in the branch, since the bootstrap
\* needs no merge (integrateTask), and a start before what the todo depends on
\* was integrated, since the recorder reads no dependencies (ReadDependencies).
RecordedWorkComplies ==
    /\ \A t \in Todos : integration[t] # NoFile
    /\ \A t \in Todos : manifest[t].paths # "empty" /\ \A d \in Deps[t] : d < t
    /\ IsAncestor(manifest[1].commit, mainHead)
    /\ \A t \in Todos : \A d \in Deps[t] : \E e \in startRecord[t].baseline :
          e.todo = d /\ IsAncestor(e.commit, startRecord[t].sha)
    /\ evidenceFaults = 0
    => Compliance(mainHead)

\* Compliance is a proof: the commit of every todo is one commit on its
\* start, in the branch, and each of its logs is what a command that passed
\* on that very commit has written (verify-operational-fomo-evidence.mjs).
ComplianceIsProof ==
    Compliance(mainHead) =>
       \A t \in Todos : LET m == manifest[t] IN
          /\ OneCommitOn(startRecord[t].sha, m.commit)
          /\ IsAncestor(m.commit, mainHead)
          /\ m.commands # <<>>
          /\ \A i \in DOMAIN m.commands :
                m.commands[i].passed /\ m.commands[i].at = m.commit

\* What was recorded stands, and is what compliance proves.
EvidenceIsKept ==
    [](FailuresAreKept /\ RecordedWorkComplies /\ ComplianceIsProof) /\ RecordsStand
=============================================================================
