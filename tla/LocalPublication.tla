-------------------------- MODULE LocalPublication --------------------------
(***************************************************************************)
(* The commands `go` and `maintenance-repair` of cli.ts: each starts one   *)
(* run in a git work tree, lets its actions edit, commit and push, records *)
(* what was published for the verifier, and marks the finding.  Several    *)
(* commands may share the work tree, the store and the finding; nothing    *)
(* but git keeps them apart.                                               *)
(***************************************************************************)
EXTENDS LocalVerification

CONSTANTS
  GoRuns,      \* bound of the model: the runs that `go` may start, and how they publish
  MaxSwitches  \* bound of the model: how often somebody switches the branch

Publications == {"none", "branch", "pull_request"}

ASSUME GoRunsAssumption == GoRuns \subseteq Runs \X Publications
ASSUME SwitchesAssumption == MaxSwitches \in Nat

VARIABLES
  command,   \* per run: the command that started it
  finding,   \* the row of the finding, a labelled issue
  checkout,  \* the branch of the work tree
  edits,     \* the runs with edits in the work tree
  staged,    \* and in the index
  branches,  \* the local branches
  remote,    \* the branches published
  switches

workVars == <<checkout, edits, staged, branches, remote, switches>>
vars == <<verificationVars, command, finding, workVars>>

Steps == {"idle", "implement", "checkout", "stage", "commit", "push", "seal", "record", "mark", "done"}
Base == "main"
BranchNames == Runs \cup {Base}

NoCommand == [step |-> "idle", publication |-> "none", repairs |-> FALSE]
Clean == edits = {} /\ staged = {}

At(r, step) == command[r].step = step
GoesTo(r, step) == command' = [command EXCEPT ![r].step = step]

Executes(r, step, next) ==
  /\ run[r].state = "EXECUTING" /\ At(r, step) /\ GoesTo(r, next)
  /\ UNCHANGED <<verificationVars, finding>>

-----------------------------------------------------------------------------
(* A command begins.                                                         *)

\* The store creates the run after the checks.
Start(r, publication, repairs) ==
  /\ run[r].state = "MISSING"
  /\ publication # "none" => Clean
  /\ run' = [run EXCEPT ![r].state = "EXECUTING"]
  /\ command' = [command EXCEPT ![r] =
       [step |-> "implement", publication |-> publication, repairs |-> repairs]]
  /\ UNCHANGED <<call, finding, workVars>>

Go(r, publication) == Start(r, publication, FALSE)

\* The finding has to be known and eligible, which a labelled issue is.
MaintenanceRepair(r) == finding.state # "NONE" /\ Start(r, "pull_request", TRUE)

\* upsertMaintenanceFinding() leaves the state of a known finding.
Upserted == IF finding.state = "NONE" THEN [state |-> "OPEN", run |-> None] ELSE finding

MaintenanceDiscover ==
  /\ finding' = Upserted
  /\ UNCHANGED <<verificationVars, command, workVars>>

-----------------------------------------------------------------------------
(* The actions of the objective, which the controller of LocalRun carries     *)
(* out: every git command acts on whatever the work tree has become.          *)

Implement(r) ==
  /\ Executes(r, "implement", IF command[r].publication = "none" THEN "seal" ELSE "checkout")
  /\ edits' = edits \cup {r}
  /\ UNCHANGED <<checkout, staged, branches, remote, switches>>

\* From wherever the work tree stands.
CreateBranch(r) ==
  /\ Executes(r, "checkout", "stage") /\ branches[r] = None
  /\ checkout' = r /\ branches' = [branches EXCEPT ![r] = branches[checkout]]
  /\ UNCHANGED <<edits, staged, remote, switches>>

Stage(r) ==
  /\ Executes(r, "stage", "commit")
  /\ staged' = staged \cup edits /\ edits' = {}
  /\ UNCHANGED <<checkout, branches, remote, switches>>

\* Fails if there is nothing to commit.
Commit(r) ==
  /\ Executes(r, "commit", "push") /\ staged # {}
  /\ branches' = [branches EXCEPT ![checkout] = @ \cup staged] /\ staged' = {}
  /\ UNCHANGED <<checkout, edits, remote, switches>>

\* HEAD goes to the branch of the run; then the pull request is opened.
Push(r) ==
  /\ Executes(r, "push", "seal")
  /\ remote' = [remote EXCEPT ![r] = branches[checkout]]
  /\ UNCHANGED <<checkout, edits, staged, branches, switches>>

\* The snapshot is sealed, and the run awaits its verification.
Seal(r) ==
  /\ run[r].state = "EXECUTING" /\ At(r, "seal")
  /\ run' = [run EXCEPT ![r].state = "AWAITING_VERIFICATION", ![r].head = 1, ![r].updated = 1]
  /\ GoesTo(r, IF command[r].publication # "none" THEN "record" ELSE "done")
  /\ UNCHANGED <<call, finding, workVars>>

\* An action fails or a gate refuses it, maybe after the last: the command goes on
\* to the finding.
Stop(r) ==
  /\ run[r].state = "EXECUTING"
  /\ run' = [run EXCEPT ![r].state = IF At(r, "seal") THEN "BLOCKED" ELSE "STOPPED"]
  /\ GoesTo(r, IF command[r].repairs THEN "mark" ELSE "done")
  /\ UNCHANGED <<call, finding, workVars>>

-----------------------------------------------------------------------------
(* recordLocalPublicationSubject() and markMaintenanceRepairQueued().         *)

\* Mutant: the pull request may have any commit.
MutantIsPublished(r) == checkout = r

\* The work tree still stands on the branch of the run, and a pull request has
\* the same commit.
IsPublished(r) ==
  /\ checkout = r
  /\ command[r].publication = "pull_request" => remote[r] = branches[checkout]

RecordSubject(r) ==
  /\ At(r, "record") /\ IsPublished(r)
  /\ SetSubject(r, branches[checkout])
  /\ GoesTo(r, IF command[r].repairs THEN "mark" ELSE "done")
  /\ UNCHANGED <<call, finding, workVars>>

\* Mutant: the finding may be queued already.
MutantMarkable == finding.state # "NONE"

Markable == finding.state = "OPEN"

MarkRepairQueued(r) ==
  /\ At(r, "mark") /\ Markable
  /\ finding' = [state |-> "REPAIR_QUEUED", run |-> r]
  /\ GoesTo(r, "done")
  /\ UNCHANGED <<verificationVars, workVars>>

\* One of the two throws: the command ends there.
CommandThrows(r) ==
  /\ \/ At(r, "record") /\ ~(IsPublished(r) /\ Awaits(r))
     \/ At(r, "mark") /\ ~Markable
  /\ GoesTo(r, "done")
  /\ UNCHANGED <<verificationVars, finding, workVars>>

\* The command dies.  If it had died before, between two actions, `resume` would
\* have carried the run on to here, and not what is left to the command.
CommandDies(r) ==
  /\ At(r, "record") \/ At(r, "mark")
  /\ GoesTo(r, "done")
  /\ UNCHANGED <<verificationVars, finding, workVars>>

-----------------------------------------------------------------------------

\* Somebody switches to another branch, with what is not committed.
Switch(b) ==
  /\ switches < MaxSwitches /\ switches' = switches + 1
  /\ branches[b] # None /\ b # checkout /\ checkout' = b
  /\ UNCHANGED <<verificationVars, command, finding, edits, staged, branches, remote>>

Verify == VerificationNext /\ UNCHANGED <<command, finding, workVars>>

Init ==
  /\ VerificationInit
  /\ command = [r \in Runs |-> NoCommand]
  /\ finding = [state |-> "NONE", run |-> None]
  /\ checkout = Base /\ edits = {} /\ staged = {}
  /\ branches = [b \in BranchNames |-> IF b = Base THEN {} ELSE None]
  /\ remote = [r \in Runs |-> None] /\ switches = 0

Next ==
  \/ MaintenanceDiscover \/ Verify
  \/ \E b \in BranchNames : Switch(b)
  \/ \E started \in GoRuns : Go(started[1], started[2])
  \/ \E r \in Runs :
       \/ MaintenanceRepair(r)
       \/ Implement(r) \/ CreateBranch(r) \/ Stage(r) \/ Commit(r) \/ Push(r)
       \/ Seal(r) \/ Stop(r)
       \/ RecordSubject(r) \/ MarkRepairQueued(r) \/ CommandThrows(r) \/ CommandDies(r)

Spec == Init /\ [][Next]_vars

-----------------------------------------------------------------------------
(* Properties. *)

\* Types; a run without a publication has no subject.
TypeOK ==
  /\ VerificationTypeOK
  /\ command \in [Runs -> [step : Steps, publication : Publications, repairs : BOOLEAN]]
  /\ finding \in [state : {"NONE", "OPEN", "REPAIR_QUEUED"}, run : Runs \cup {None}]
  /\ (finding.state = "REPAIR_QUEUED") = (finding.run # None)
  /\ checkout \in BranchNames
  /\ edits \subseteq Runs /\ staged \subseteq Runs
  /\ branches \in [BranchNames -> Commits \cup {None}]
  /\ remote \in [Runs -> Commits \cup {None}] /\ switches \in 0 .. MaxSwitches
  /\ \A r \in Runs : run[r].subject # None => command[r].publication # "none"

\* The subject of a pull request that a verifier is given is what the branch of
\* the run has at the remote, and stays that, whatever other commands and people
\* did to the work tree between the run's own steps.  (Of a branch without a pull
\* request nothing is asked of the remote, cli.ts:184-201, and it need not be.)
SubjectIsPublished ==
  \A r \in Runs :
    run[r].subject # None /\ command[r].publication = "pull_request" =>
      run[r].subject = remote[r]

\* A finding is queued for one repair, and keeps naming it: of the commands that
\* repair it at once, those that come second fail, and a later discovery does
\* not open it again.
FindingNamesOneRepair ==
  [][finding.state = "REPAIR_QUEUED" => UNCHANGED finding]_finding

\* What the store of a run answers to Judgement: the handoffs that its replay
\* table names, and the attestation that settled it, which names none.  A run that
\* a late worker reopens is no longer presented.
J == INSTANCE Judgement WITH
  Works <- Runs,
  Evidence <- Runs,
  Handoffs <- Documents \cup {Attestation},
  Reopened <- Runs,
  Unnamed <- {Attestation},
  Verdicts <- {"VERIFIED", "FAILED_SAFE"},
  evidence <- [r \in Runs |->
    IF run[r].state \in {"AWAITING_VERIFICATION", "VERIFIED", "FAILED_SAFE"} THEN r ELSE None],
  answered <- [r \in Runs |->
    run[r].replays \cup IF run[r].by = Attestation THEN {run[r].by} ELSE {}],
  verdict <- [r \in Runs |->
    IF run[r].by # None THEN [on |-> r, is |-> run[r].state] ELSE None],
  withdrawn <- {r \in Runs : run[r].state = "DELETED"}

\* No handoff that was answered settles its run, not even after a late worker has
\* put the verdict aside, and between two sealings the run is judged at most once,
\* over both versions of the contract and however many processes record a response
\* at the same time.
ImplementsJudgement == J!JSpec

=============================================================================
