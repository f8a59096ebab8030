---------------------------- MODULE SkillsInstall ----------------------------
(* The installation and update of the managed skills: a snapshot, a plan that    *)
(* preserves the consumer's own work, a lock, a staged tree, a second look, and  *)
(* a commit of renames that is rolled back when one fails.  Several tools may    *)
(* run at once, one may be killed at any step, and the consumer keeps editing.   *)
EXTENDS Naturals, Sequences, FiniteSets

CONSTANTS
    Tools,      \* invocations of the command
    Skills,     \* SKILLS, in order, as a sequence
    Files,      \* resources of a skill
    Kits,       \* the releases: what each holds of every skill's files
    Initial,    \* the contents of the destination at first
    MaxEdits    \* bound of the model: edits by the consumer

None == "none"
Edited == "edited"
SkillSet == {Skills[i] : i \in DOMAIN Skills}
Empty == [f \in Files |-> None]
Bare == [s \in SkillSet |-> Empty]

\* The skills have names of their own, and no release holds what the consumer writes.
SkillsAssumption ==
    /\ Skills \in Seq(SkillSet) /\ Skills # << >>
    /\ \A i, j \in DOMAIN Skills : Skills[i] = Skills[j] => i = j
    /\ \A tree \in Kits \cup {Initial} : tree = [s \in SkillSet |-> [f \in Files |-> tree[s][f]]]
    /\ \A kit \in Kits, s \in SkillSet : kit[s] # Empty /\ \A f \in Files : kit[s][f] # Edited

VARIABLES
    disk,     \* the skill directories; one without files is absent
    base,     \* the managed baseline, as the kit it describes; Bare is absent
    lock,     \* whether the lock file exists
    tool,     \* the state of each invocation
    edits,    \* how many edits were made (history)
    kept      \* the consumer's edits made while nothing was being replaced (history)

vars == <<disk, base, lock, tool, edits, kept>>

NewTool ==
    [pc |-> "idle", kit |-> Bare, update |-> FALSE, original |-> Bare, previous |-> Bare, desired |-> Bare,
     at |-> 1, existed |-> <<>>, backup |-> Bare, backupBase |-> Bare, result |-> "none"]

Init ==
    /\ disk = Initial /\ base = Bare /\ lock = FALSE /\ edits = 0 /\ kept = {}
    /\ tool = [t \in Tools |-> NewTool]

-----------------------------------------------------------------------------
At(t, pc) == tool[t].pc = pc

Set(t, next) == tool' = [tool EXCEPT ![t] = next]

Ends(t, result) == Set(t, [tool[t] EXCEPT !.pc = "done", !.result = result])

Begin(t, kit, update) ==
    /\ At(t, "idle")
    /\ Set(t, [tool[t] EXCEPT !.pc = "snapshot", !.kit = kit, !.update = update])
    /\ UNCHANGED <<disk, base, lock, edits, kept>>

\* snapshot: one skill's files after the other.
Snapshot(t) ==
    /\ At(t, "snapshot")
    /\ LET s == Skills[tool[t].at]
           last == tool[t].at = Len(Skills)
       IN  Set(t, [tool[t] EXCEPT !.original[s] = disk[s], !.pc = IF last THEN "plan" ELSE @,
                                  !.at = IF last THEN 1 ELSE @ + 1])
    /\ UNCHANGED <<disk, base, lock, edits, kept>>

\* With a baseline: a managed file that is neither as installed nor as wanted, or
\* a file in the way of a new one.
ManagedConflict(kit, current, previous) ==
    \E s \in SkillSet, f \in Files :
        /\ current[s][f] # kit[s][f]
        /\ IF previous[s][f] # None THEN current[s][f] # previous[s][f]
           ELSE kit[s][f] # None /\ current[s][f] # None

\* Without one, a skill is adopted only when it is exactly the kit's.
AdoptionConflict(kit, current) == \E s \in SkillSet : current[s] # Empty /\ current[s] # kit[s]

Refused(kit, current, previous, update) ==
    IF previous = Bare THEN AdoptionConflict(kit, current)
    ELSE (~update /\ previous # kit) \/ ManagedConflict(kit, current, previous)

\* Everything there is, less what the last release managed and this one does not,
\* under what this one brings.
Desired(kit, current, previous) ==
    [s \in SkillSet |-> [f \in Files |->
        IF kit[s][f] # None THEN kit[s][f] ELSE IF previous[s][f] # None THEN None ELSE current[s][f]]]

\* state_bytes, plan, and the early return of an installation already there.
Plan(t) ==
    /\ At(t, "plan")
    /\ LET x == tool[t]
           desired == Desired(x.kit, x.original, base)
       IN  IF Refused(x.kit, x.original, base, x.update) THEN Ends(t, "refused")
           ELSE IF desired = x.original /\ base = x.kit THEN Ends(t, "unchanged")
           ELSE Set(t, [x EXCEPT !.pc = "lock", !.previous = base, !.desired = desired])
    /\ UNCHANGED <<disk, base, lock, edits, kept>>

\* The lock file is created anew, or the tool gives up.
Lock(t) ==
    /\ At(t, "lock")
    /\ IF lock THEN Ends(t, "locked") ELSE Set(t, [tool[t] EXCEPT !.pc = "staged"])
    /\ lock' = TRUE
    /\ UNCHANGED <<disk, base, edits, kept>>

\* Fault: the destination is not looked at again under the lock.
UnchangedAssumed(t) == TRUE

StillUnchanged(t) == disk = tool[t].original /\ base = tool[t].previous

\* The tree is staged; then the destination must be as it was planned for.
Recheck(t) ==
    /\ At(t, "staged")
    /\ IF StillUnchanged(t) THEN Set(t, [tool[t] EXCEPT !.pc = "backup"]) /\ UNCHANGED lock
       ELSE Ends(t, "changed") /\ lock' = FALSE
    /\ UNCHANGED <<disk, base, edits, kept>>

\* Staging fails: the lock and the stage are dropped.
StageFails(t) ==
    /\ At(t, "staged")
    /\ Ends(t, "failed") /\ lock' = FALSE
    /\ UNCHANGED <<disk, base, edits, kept>>

-----------------------------------------------------------------------------
(* commit: the skills one by one, then the baseline. *)

InSkills(t) == tool[t].at <= Len(Skills)

Name(t) == Skills[tool[t].at]

Exists(t) == IF InSkills(t) THEN disk[Name(t)] # Empty ELSE base # Bare

\* The old one is moved to the backup.
Backup(t) ==
    /\ At(t, "backup")
    /\ LET x == [tool[t] EXCEPT !.pc = "place", !.existed = Append(@, Exists(t))]
       IN  IF ~InSkills(t)
           THEN Set(t, [x EXCEPT !.backupBase = base]) /\ base' = Bare /\ UNCHANGED disk
           ELSE Set(t, [x EXCEPT !.backup[Name(t)] = disk[Name(t)]]) /\ disk' = [disk EXCEPT ![Name(t)] = Empty] /\ UNCHANGED base
    /\ UNCHANGED <<lock, edits, kept>>

\* The staged one takes its place; a directory with files is never replaced.
Place(t) ==
    /\ At(t, "place") /\ (InSkills(t) => disk[Name(t)] = Empty)
    /\ IF InSkills(t)
       THEN /\ disk' = [disk EXCEPT ![Name(t)] = tool[t].desired[Name(t)]]
            /\ Set(t, [tool[t] EXCEPT !.pc = "backup", !.at = @ + 1])
            /\ UNCHANGED <<base, lock>>
       ELSE /\ base' = tool[t].kit /\ lock' = FALSE
            /\ Ends(t, "installed")
            /\ UNCHANGED disk
    /\ UNCHANGED <<edits, kept>>

\* A rename fails: what was applied is taken back, the last one first.
RenameFails(t) ==
    /\ (At(t, "backup") /\ Exists(t)) \/ At(t, "place")
    /\ Set(t, [tool[t] EXCEPT !.pc = "remove", !.at = Len(tool[t].existed)])
    /\ UNCHANGED <<disk, base, lock, edits, kept>>

Applied(t) == tool[t].at > 0

\* Rollback of one name: the target is removed, then the backup restored.
Remove(t) ==
    /\ At(t, "remove") /\ Applied(t)
    /\ disk' = IF InSkills(t) THEN [disk EXCEPT ![Name(t)] = Empty] ELSE disk
    /\ base' = IF InSkills(t) THEN base ELSE Bare
    /\ Set(t, [tool[t] EXCEPT !.pc = "restore"])
    /\ UNCHANGED <<lock, edits, kept>>

Restore(t) ==
    /\ At(t, "restore")
    /\ LET x == tool[t]
       IN  /\ disk' = IF InSkills(t) /\ x.existed[x.at] THEN [disk EXCEPT ![Name(t)] = x.backup[Name(t)]] ELSE disk
           /\ base' = IF ~InSkills(t) /\ x.existed[x.at] THEN x.backupBase ELSE base
           /\ Set(t, [x EXCEPT !.pc = "remove", !.at = @ - 1])
    /\ UNCHANGED <<lock, edits, kept>>

RolledBack(t) ==
    /\ At(t, "remove") /\ ~Applied(t)
    /\ Ends(t, "restored") /\ lock' = FALSE
    /\ UNCHANGED <<disk, base, edits, kept>>

\* The rollback fails; the stage with the backup is kept.
RollbackFails(t) ==
    /\ tool[t].pc \in {"remove", "restore"} /\ Applied(t)
    /\ Ends(t, "recoverable") /\ lock' = FALSE
    /\ UNCHANGED <<disk, base, edits, kept>>

-----------------------------------------------------------------------------
(* The world. *)

\* The tool is killed: the lock and the stage stay.
Killed(t) ==
    /\ tool[t].pc \in {"staged", "backup", "place", "remove", "restore"}
    /\ Ends(t, "killed")
    /\ UNCHANGED <<disk, base, lock, edits, kept>>

\* The consumer removes the lock of a tool that was killed.
Unlock ==
    /\ lock /\ \A t \in Tools : tool[t].pc \notin {"staged", "backup", "place", "remove", "restore"}
    /\ lock' = FALSE
    /\ UNCHANGED <<disk, base, tool, edits, kept>>

\* Whether a tool is past its second look.
Replacing == \E t \in Tools : tool[t].pc \in {"backup", "place", "remove", "restore"}

Edit(s, f) ==
    /\ edits < MaxEdits /\ disk[s][f] # Edited
    /\ disk' = [disk EXCEPT ![s][f] = Edited]
    /\ kept' = IF Replacing THEN kept \ {<<s, f>>} ELSE kept \cup {<<s, f>>}
    /\ edits' = edits + 1
    /\ UNCHANGED <<base, lock, tool>>

Next ==
    \/ \E t \in Tools :
          \/ \E kit \in Kits, update \in BOOLEAN : Begin(t, kit, update)
          \/ Snapshot(t) \/ Plan(t) \/ Lock(t) \/ Recheck(t) \/ StageFails(t)
          \/ Backup(t) \/ Place(t) \/ RenameFails(t)
          \/ Remove(t) \/ Restore(t) \/ RolledBack(t) \/ RollbackFails(t) \/ Killed(t)
    \/ Unlock
    \/ \E s \in SkillSet, f \in Files : Edit(s, f)

Spec == Init /\ [][Next]_vars

-----------------------------------------------------------------------------
(* Properties. *)

\* Stages that still hold a backup.
Backups == {t \in Tools : tool[t].pc \in {"backup", "place", "remove", "restore"}
                          \/ tool[t].result \in {"recoverable", "killed"}}

\* An edit the consumer made before a tool's second look is where it was made, or
\* in the backup of a tool that is not done with it or left it for recovery.
EditsSurvive ==
    \A e \in kept : \/ disk[e[1]][e[2]] = Edited
                    \/ \E t \in Backups : tool[t].backup[e[1]][e[2]] = Edited
===============================================================================
