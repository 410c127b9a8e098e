------------------------------- MODULE FreezeRun -------------------------------
(* The freeze of one run: the run boundary copies the committed revision of     *)
(* every source and the Producer Skill into the run's directory, seals what it  *)
(* copied as artifacts and pins the run to them in one transaction. An attempt  *)
(* is a chain of awaits: a pause, a rerun or a cancel ends its rows at once and *)
(* leaves its execution to unwind, and a crash ends the execution and leaves    *)
(* its rows. RunControl has the rows of the other nodes.                        *)
EXTENDS FiniteSets, Integers

CONSTANTS
    Sources,      \* the sources of the workspace
    Attempts,     \* the attempts of the freeze node, claimed in any order
    MaxEdits,     \* bound on what happens to the checkouts and the skill
    MaxCommands,  \* bound on the operator's commands
    MaxCrashes,   \* bound on the crashes of the server
    Refresh,      \* the run refreshes a published wiki
    Published,    \* there is a published wiki to refresh
    Selectable,   \* the surveys its sources need fit in the run's budget
    Overlap       \* a node is claimed while an execution of it unwinds

VARIABLES
    live,      \* the checkouts and the skill directory: revision, clean, skill
    run,       \* runs.state
    node,      \* the current generation of the node: gen, state, cur
    attempt,   \* attempts.state and node_generation
    frozen,    \* frozen_sources_json and frozen_skill_digest
    pinned,    \* the pinned_ columns of the run
    prepared,  \* artifact_preparations in state prepared, by attempt
    outputs,   \* node_outputs of the freeze, by generation
    disk,      \* the run's directory: exists, copies, skill, sealed artifacts
    ex,        \* the execution of each attempt
    up,        \* the store is open
    commands, crashes, edits

vars == <<live, run, node, attempt, frozen, pinned, prepared, outputs, disk, ex, up,
          commands, crashes, edits>>
rows == <<run, node, attempt, frozen, pinned, prepared, outputs>>
bounds == <<commands, crashes, edits>>

None == "none"
Absent == 0    \* no copy of a source, or of the skill
Inputs(revs, skill) == [revs |-> revs, skill |-> skill]
NoInputs == Inputs([s \in Sources |-> Absent], Absent)

(* An artifact is its role and what its tree was made from; the coverage files  *)
(* and the manifest, and the prior wiki of a refresh, are the record.           *)
Artifact(role, inputs) == [role |-> role, of |-> inputs]
InputRoles == {"sources", "skill", "record"}
OutputRole == "attempt_output"
Roles == InputRoles \cup {OutputRole}

NoDir == [exists |-> FALSE, copies |-> NoInputs, work |-> {}, sealed |-> {}]
Idle ==
    [pc |-> "idle", aborted |-> FALSE, inputs |-> NoInputs, copied |-> {}, materialized |-> FALSE]

Init ==
    /\ live = [revs |-> [s \in Sources |-> 1], clean |-> TRUE, skill |-> 1]
    /\ run = "queued"
    /\ node = [gen |-> 0, state |-> "ready", cur |-> None]
    /\ attempt = [a \in Attempts |-> [state |-> None, gen |-> 0]]
    /\ frozen = NoInputs /\ pinned = NoInputs
    /\ prepared = [a \in Attempts |-> {}]
    /\ outputs = [g \in 0..MaxCommands |-> {}]
    /\ disk = NoDir
    /\ ex = [a \in Attempts |-> Idle]
    /\ up = TRUE
    /\ commands = 0 /\ crashes = 0 /\ edits = 0

--------------------------------------------------------------------------------
(* The checkouts and the skill belong to the operator.                          *)
Edit ==
    /\ edits < MaxEdits /\ edits' = edits + 1
    /\ \/ \E s \in Sources : live' = [live EXCEPT !.revs[s] = @ + 1]
       \/ live' = [live EXCEPT !.clean = ~@]
       \/ live' = [live EXCEPT !.skill = @ + 1]
    /\ UNCHANGED <<rows, disk, ex, up, commands, crashes>>

--------------------------------------------------------------------------------
(* An attempt's execution. Each action runs up to the next await.               *)

IsPinned == pinned # NoInputs

IsCurrent(a) ==
    /\ run # "cancelled"
    /\ node.state = "running" /\ node.cur = a /\ node.gen = attempt[a].gen
    /\ attempt[a].state = "running"

At(a, pc) == up /\ ex[a].pc = pc
Goto(a, pc) == ex' = [ex EXCEPT ![a].pc = pc]
Aborted(a) == ex[a].aborted

Claim(a) ==
    /\ up /\ run \in {"queued", "running"} /\ node.state = "ready" /\ attempt[a].state = None
    /\ Overlap \/ \A b \in Attempts : ex[b].pc = "idle"
    /\ run' = "running"
    /\ node' = [node EXCEPT !.state = "running", !.cur = a]
    /\ attempt' = [attempt EXCEPT ![a] = [state |-> "running", gen |-> node.gen]]
    /\ ex' = [ex EXCEPT ![a].pc = "start"]
    /\ UNCHANGED <<live, frozen, pinned, prepared, outputs, disk, up, bounds>>

(* A pinned run never reads the checkouts again. *)
PrepareFreeze(a) ==
    /\ At(a, "start")
    /\ Goto(a, IF IsPinned THEN "retry" ELSE "clearing")
    /\ UNCHANGED <<live, rows, disk, up, bounds>>

(* The end of clearUnpinnedFreezeWork: pinned_digest was read before the await. *)
ClearUnpinnedFreezeWork(a) ==
    /\ At(a, "clearing")
    /\ disk' = NoDir
    /\ Goto(a, IF IsCurrent(a) THEN "boundary" ELSE "idle")
    /\ UNCHANGED <<live, rows, up, bounds>>

(* A git checkout with a revision and nothing to commit; a digest of the skill. *)
ProbeLocalGit == live.clean
SkillDigest == live.skill

AssertSourcesReady(a) ==
    /\ At(a, "boundary")
    /\ \/ /\ Aborted(a) \/ ~ProbeLocalGit
          /\ Goto(a, "catch")
       \/ /\ ~Aborted(a) /\ ProbeLocalGit
          /\ ex' = [ex EXCEPT ![a].pc = "mkdir", ![a].inputs = Inputs(live.revs, SkillDigest)]
    /\ UNCHANGED <<live, rows, disk, up, bounds>>

(* The boundary owns the directory it made, and only that one. *)
MakeRunDir(a) ==
    /\ At(a, "mkdir")
    /\ Goto(a, IF disk.exists THEN "catch" ELSE "copy")
    /\ disk' = [disk EXCEPT !.exists = TRUE]
    /\ UNCHANGED <<live, rows, up, bounds>>

(* Git reads the revision, not the checkout. The parents are made with the copy,*)
(* the copy itself must be new.                                                 *)
MaterializeSource(a, s) ==
    /\ At(a, "copy") /\ s \notin ex[a].copied
    /\ \/ /\ Aborted(a) \/ disk.copies.revs[s] # Absent
          /\ Goto(a, "unwind")
          /\ UNCHANGED disk
       \/ /\ ~Aborted(a) /\ disk.copies.revs[s] = Absent
          /\ disk' = [disk EXCEPT !.exists = TRUE, !.copies.revs[s] = ex[a].inputs.revs[s]]
          /\ LET copied == ex[a].copied \cup {s}
             IN ex' = [ex EXCEPT ![a].copied = copied,
                                 ![a].pc = IF copied = Sources THEN "skill" ELSE "copy"]
    /\ UNCHANGED <<live, rows, up, bounds>>

(* The skill is copied from the live directory and its digest compared.         *)
MaterializeSkillVersion(a) ==
    /\ At(a, "skill")
    /\ \/ /\ Aborted(a) \/ disk.copies.skill # Absent \/ SkillDigest # ex[a].inputs.skill
          /\ Goto(a, "unwind")
          /\ UNCHANGED disk
       \/ /\ ~Aborted(a) /\ disk.copies.skill = Absent /\ SkillDigest = ex[a].inputs.skill
          /\ disk' = [disk EXCEPT !.exists = TRUE, !.copies.skill = SkillDigest]
          /\ ex' = [ex EXCEPT ![a].pc = "record", ![a].materialized = TRUE]
    /\ UNCHANGED <<live, rows, up, bounds>>

CleanupWritableTree(a) ==
    /\ At(a, "unwind")
    /\ disk' = NoDir
    /\ Goto(a, "catch")
    /\ UNCHANGED <<live, rows, up, bounds>>

RecordTrustedFrozenInputs(a) ==
    /\ At(a, "record")
    /\ IF IsCurrent(a)
       THEN /\ frozen' = IF IsPinned THEN frozen ELSE ex[a].inputs
            /\ Goto(a, "stage")
       ELSE Goto(a, "finally") /\ UNCHANGED frozen
    /\ UNCHANGED <<live, run, node, attempt, pinned, prepared, outputs, disk, up, bounds>>

(* The attempt's files, and the coverage files made from the copies: a source   *)
(* whose copy is gone, an aborted signal and a refresh of nothing throw.        *)
\* Mutant: a missing source root is inventoried as an empty source.
SomethingIsThere == disk.exists

CopiesAreThere == \A s \in Sources : disk.copies.revs[s] # Absent

MaterializeCoverageArtifacts(a) ==
    /\ At(a, "stage")
    /\ disk' = [disk EXCEPT !.exists = TRUE, !.work = @ \cup {a}]
    /\ Goto(a, IF Aborted(a) \/ ~CopiesAreThere \/ (Refresh /\ ~Published) THEN "catch"
               ELSE IF IsCurrent(a) THEN "prepare" ELSE "finally")
    /\ UNCHANGED <<live, rows, up, bounds>>

(* What is on disk now; the manifest of a missing directory is the empty one.   *)
Written(a) == IF a \in disk.work THEN ex[a].inputs ELSE NoInputs
Staged(a) ==
    {Artifact("sources", Inputs(disk.copies.revs, Absent)),
     Artifact("skill", Inputs(NoInputs.revs, disk.copies.skill)),
     Artifact("record", Written(a))}
Output(a) == {Artifact(OutputRole, Written(a))}

PrepareFreezeArtifacts(a, pc, artifacts, next) ==
    /\ At(a, pc)
    /\ IF IsCurrent(a)
       THEN /\ prepared' = [prepared EXCEPT ![a] = @ \cup artifacts]
            /\ Goto(a, next)
       ELSE Goto(a, "finally") /\ UNCHANGED prepared
    /\ UNCHANGED <<live, run, node, attempt, frozen, pinned, outputs, disk, up, bounds>>

PrepareInputs(a) == PrepareFreezeArtifacts(a, "prepare", Staged(a), "seal")
PrepareOutput(a) == PrepareFreezeArtifacts(a, "output", Output(a), "sealOutput")

(* A tree is copied if it is still what was prepared, and there at all. *)
Sealable(a, artifacts) ==
    \A x \in artifacts \ disk.sealed : x \in Staged(a) \cup Output(a) /\ x.of # NoInputs

SealPreparation(a, pc, artifacts, next) ==
    /\ At(a, pc)
    /\ \/ /\ ~Sealable(a, artifacts)
          /\ Goto(a, "catch")
          /\ disk' = [disk EXCEPT !.exists = TRUE]
       \/ /\ Sealable(a, artifacts)
          /\ disk' = [disk EXCEPT !.exists = TRUE, !.sealed = @ \cup artifacts]
          /\ Goto(a, IF IsCurrent(a) THEN next ELSE "finally")
    /\ UNCHANGED <<live, rows, up, bounds>>

SealInputs(a) == SealPreparation(a, "seal", prepared[a], "output")
SealOutput(a) ==
    SealPreparation(a, "sealOutput", {x \in prepared[a] : x.role = OutputRole}, "commit")

(* The transaction that pins the run. It throws when a declared output is       *)
(* missing, and when selecting the scouts of the sources throws.                *)
Commits(artifacts) == {x.role : x \in artifacts} = Roles /\ Selectable

CommitRows(a, artifacts) ==
    /\ pinned' = frozen
    /\ outputs' = [outputs EXCEPT ![node.gen] = IF @ = {} THEN artifacts ELSE @]
    /\ attempt' = [attempt EXCEPT ![a].state = "succeeded"]
    /\ node' = [node EXCEPT !.state = "succeeded", !.cur = None]
    /\ prepared' = [prepared EXCEPT ![a] = {}]
    /\ run' = "queued"
    /\ UNCHANGED frozen

CommitFreezeArtifacts(a) ==
    /\ At(a, "commit")
    /\ \/ /\ IsCurrent(a) /\ Commits(prepared[a])
          /\ CommitRows(a, prepared[a])
          /\ Goto(a, "finally")
       \/ /\ ~(IsCurrent(a) /\ Commits(prepared[a]))
          /\ Goto(a, IF IsCurrent(a) THEN "catch" ELSE "finally")
          /\ UNCHANGED rows
    /\ UNCHANGED <<live, disk, up, bounds>>

FailRows(a) ==
    /\ attempt' = [attempt EXCEPT ![a].state = "failed"]
    /\ node' = [node EXCEPT !.state = "failed", !.cur = None]
    /\ prepared' = [prepared EXCEPT ![a] = {}]
    /\ run' = "failed"
    /\ UNCHANGED <<frozen, pinned, outputs>>

(* Every error: the transcript makes the directory again; a retry writes none.  *)
FailFreeze(a, pc) ==
    /\ At(a, pc)
    /\ disk' = [disk EXCEPT !.exists = @ \/ pc = "catch"]
    /\ IF IsCurrent(a) THEN FailRows(a) ELSE UNCHANGED rows
    /\ Goto(a, "finally")
    /\ UNCHANGED <<live, up, bounds>>

(* Orphans what it prepared, and reads whether the run is pinned before the     *)
(* await that removes the run's directory. The attempt is no longer abortable.  *)
Finally(a) ==
    /\ At(a, "finally")
    /\ prepared' = [prepared EXCEPT ![a] = {}]
    /\ Goto(a, IF ex[a].materialized /\ ~IsPinned THEN "sweep" ELSE "idle")
    /\ UNCHANGED <<live, run, node, attempt, frozen, pinned, outputs, disk, up, bounds>>

Sweep(a) ==
    /\ At(a, "sweep")
    /\ disk' = NoDir
    /\ Goto(a, "idle")
    /\ UNCHANGED <<live, rows, up, bounds>>

--------------------------------------------------------------------------------
(* The freeze of a pinned run: the sealed inputs again, and a new output of the *)
(* attempt. Nothing checks that the inputs are still on disk.                   *)

PinnedFreezeRetry(a) ==
    /\ At(a, "retry")
    /\ \/ /\ Aborted(a) \/ ~IsCurrent(a)
          /\ Goto(a, "finally")
          /\ UNCHANGED disk
       \/ /\ ~Aborted(a) /\ IsCurrent(a)
          /\ disk' = [disk EXCEPT !.exists = TRUE, !.work = @ \cup {a}]
          /\ ex' = [ex EXCEPT ![a].pc = "again", ![a].inputs = pinned]
    /\ UNCHANGED <<live, rows, up, bounds>>

PrepareAgain(a) == PrepareFreezeArtifacts(a, "again", Output(a), "sealAgain")

SealAgain(a) ==
    /\ At(a, "sealAgain")
    /\ \/ /\ ~Sealable(a, prepared[a])
          /\ Goto(a, "fail")
          /\ UNCHANGED disk
       \/ /\ Sealable(a, prepared[a])
          /\ disk' = [disk EXCEPT !.exists = TRUE, !.sealed = @ \cup prepared[a]]
          /\ Goto(a, IF IsCurrent(a) THEN "recommit" ELSE "finally")
    /\ UNCHANGED <<live, rows, up, bounds>>

(* The newest generation's output of each role. *)
Reused ==
    LET earlier == {g \in DOMAIN outputs : outputs[g] # {}}
        newest == CHOOSE g \in earlier : \A h \in earlier : h <= g
    IN {x \in outputs[newest] : x.role \in InputRoles}

Recommit(a) ==
    /\ At(a, "recommit")
    /\ \/ /\ IsCurrent(a) /\ Commits(Reused \cup prepared[a])
          /\ CommitRows(a, Reused \cup prepared[a])
          /\ Goto(a, "finally")
       \/ /\ ~(IsCurrent(a) /\ Commits(Reused \cup prepared[a]))
          /\ Goto(a, IF IsCurrent(a) THEN "fail" ELSE "finally")
          /\ UNCHANGED rows
    /\ UNCHANGED <<live, disk, up, bounds>>

Step(a) ==
    \/ PrepareFreeze(a) \/ ClearUnpinnedFreezeWork(a) \/ AssertSourcesReady(a) \/ MakeRunDir(a)
    \/ \E s \in Sources : MaterializeSource(a, s)
    \/ MaterializeSkillVersion(a) \/ CleanupWritableTree(a) \/ RecordTrustedFrozenInputs(a)
    \/ MaterializeCoverageArtifacts(a) \/ PrepareInputs(a) \/ SealInputs(a)
    \/ PrepareOutput(a) \/ SealOutput(a) \/ CommitFreezeArtifacts(a)
    \/ PinnedFreezeRetry(a) \/ PrepareAgain(a) \/ SealAgain(a) \/ Recommit(a)
    \/ FailFreeze(a, "catch") \/ FailFreeze(a, "fail") \/ Finally(a) \/ Sweep(a)

--------------------------------------------------------------------------------
(* The operator. A command ends the rows at once and aborts the execution.      *)

Abortable == {a \in Attempts : ex[a].pc \notin {"idle", "sweep"}}

EndAttempts(state) ==
    /\ attempt' = [a \in Attempts |->
                      IF attempt[a].state = "running"
                      THEN [attempt[a] EXCEPT !.state = state] ELSE attempt[a]]
    /\ ex' = [a \in Attempts |->
                 IF a \in Abortable /\ attempt[a].state = "running"
                 THEN [ex[a] EXCEPT !.aborted = TRUE] ELSE ex[a]]

Command ==
    /\ up /\ commands < MaxCommands /\ commands' = commands + 1
    /\ UNCHANGED <<live, frozen, pinned, prepared, outputs, disk, up, crashes, edits>>

PauseRun ==
    /\ Command
    /\ run \in {"queued", "running"}
    /\ run' = "paused"
    /\ node' = IF node.state = "running" THEN [node EXCEPT !.state = "ready", !.cur = None] ELSE node
    /\ EndAttempts("suspended")

ResumeRun ==
    /\ Command
    /\ run = "paused" /\ run' = "queued"
    /\ UNCHANGED <<node, attempt, ex>>

CancelRun ==
    /\ Command
    /\ run \in {"queued", "running", "paused"}
    /\ run' = "cancelled"
    /\ node' = IF node.state \in {"ready", "running"}
               THEN [node EXCEPT !.state = "cancelled", !.cur = None] ELSE node
    /\ EndAttempts("cancelled")

(* A rerun reads the checkouts again unless the run is pinned.                  *)
RerunNode ==
    /\ Command
    /\ run # "cancelled"
    /\ run' = "queued"
    /\ node' = [gen |-> node.gen + 1, state |-> "ready", cur |-> None]
    /\ EndAttempts("cancelled")

RetryFailedNode ==
    /\ Command
    /\ run # "cancelled" /\ node.state = "failed" /\ IsPinned
    /\ run' = "queued"
    /\ node' = [node EXCEPT !.state = "ready"]
    /\ UNCHANGED <<attempt, ex>>

--------------------------------------------------------------------------------
(* A crash ends every execution. The next open commits what was prepared and    *)
(* sealed by an attempt that is still current, and fails the run of any other.  *)
(* A commit that throws ends the open, and every later one.                     *)

Crash ==
    /\ up /\ crashes < MaxCrashes
    /\ up' = FALSE /\ crashes' = crashes + 1
    /\ ex' = [a \in Attempts |-> Idle]
    /\ UNCHANGED <<live, rows, disk, commands, edits>>

Committable(a) ==
    /\ prepared[a] # {} /\ prepared[a] \subseteq disk.sealed
    /\ \E x \in prepared[a] : x.role = OutputRole
    /\ frozen # NoInputs /\ IsCurrent(a)

RecoverPrepared(a) ==
    /\ ~up /\ Committable(a) /\ Commits(prepared[a])
    /\ CommitRows(a, prepared[a])
    /\ UNCHANGED <<live, disk, ex, up, bounds>>

InterruptRunningAttempts ==
    /\ ~up /\ ~\E a \in Attempts : Committable(a)
    /\ up' = TRUE
    /\ prepared' = [a \in Attempts |-> {}]
    /\ attempt' = [a \in Attempts |->
                      IF attempt[a].state = "running"
                      THEN [attempt[a] EXCEPT !.state = "interrupted"] ELSE attempt[a]]
    /\ IF \E a \in Attempts : attempt[a].state = "running"
       THEN /\ run' = "failed"
            /\ node' = [node EXCEPT !.state = "failed", !.cur = None]
       ELSE UNCHANGED <<run, node>>
    /\ UNCHANGED <<live, frozen, pinned, outputs, disk, ex, bounds>>

--------------------------------------------------------------------------------
Next ==
    \/ Edit
    \/ \E a \in Attempts : Claim(a) \/ Step(a) \/ RecoverPrepared(a)
    \/ PauseRun \/ ResumeRun \/ CancelRun \/ RerunNode \/ RetryFailedNode
    \/ Crash \/ InterruptRunningAttempts

Proceed ==
    \/ \E a \in Attempts : Claim(a) \/ Step(a) \/ RecoverPrepared(a)
    \/ InterruptRunningAttempts

Spec == Init /\ [][Next]_vars /\ WF_vars(Proceed)

--------------------------------------------------------------------------------
TypeOK ==
    /\ run \in {"queued", "running", "paused", "failed", "cancelled"}
    /\ node.gen \in 0..MaxCommands /\ node.cur \in Attempts \cup {None}
    /\ (node.cur # None) = (node.state = "running")
    /\ \A a \in Attempts : ex[a].copied \subseteq Sources

(* What a run is pinned to is what was sealed for it, for every generation of   *)
(* the freeze and whatever executions unwound meanwhile: no role is missing and *)
(* no artifact was made from another revision, or from half of the copies.      *)
PinIsContent ==
    \A g \in DOMAIN outputs : outputs[g] # {} =>
        outputs[g] = {Artifact("sources", Inputs(pinned.revs, Absent)),
                      Artifact("skill", Inputs(NoInputs.revs, pinned.skill)),
                      Artifact("record", pinned), Artifact(OutputRole, pinned)}

(* A run is pinned once: no rerun, late attempt or recovery moves the pin.      *)
KeepsThePin == IsPinned => pinned' = pinned
PinIsForEver == [][KeepsThePin]_vars

(* The artifacts a pinned run names are on disk. The restart's check of a group *)
(* and each attempt's cleaning of the run's directory both depend on the rows.  *)
PinnedIsSealed == \A g \in DOMAIN outputs : outputs[g] \subseteq disk.sealed

(* Every execution unwinds, and a run that can go on does so or has failed.     *)
Quiet ==
    /\ up /\ \A a \in Attempts : ex[a].pc = "idle"
    /\ \/ node.state # "ready" \/ run = "paused"
       \/ \A a \in Attempts : attempt[a].state # None
Settles == []<>Quiet

(* docs/adr and freeze.ts: a failed or cancelled freeze before the pin leaves   *)
(* no work tree. Not so after a crash.                                          *)
WorkIsCleared ==
    (Quiet /\ run \in {"failed", "cancelled"} /\ ~IsPinned) => ~disk.exists

(* A paused freeze goes on when it is resumed, as long as nobody touches the    *)
(* checkouts: nothing but a failing source fails it.                            *)
ResumedFreezeGoesOn == (edits = 0 /\ crashes = 0) => run # "failed"

(* A store that was closed by a crash opens again. *)
StoreReopens == []<>up

================================================================================
