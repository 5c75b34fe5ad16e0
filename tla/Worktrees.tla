------------------------------ MODULE Worktrees -------------------------------
(***************************************************************************)
(* The one worktree of a ticket:                                           *)
(*   worktreecoord/coordinator.go        Ensure and its recovery           *)
(*   git/git.go                          CreateWorktree and its cleanup    *)
(*   git/worktree_absence.go             the proof that nothing was made   *)
(*   store/worktree_creation_absence.go  the lease of that proof           *)
(*   store/git_mutation.go               claims, intents, recovery         *)
(*                                                                         *)
(* A creation is an effect whose key binds the protected tip it starts     *)
(* from, so a retry on a newer tip is another effect on the same path and  *)
(* branch.  Git leaves up to three things (a pinned base, the branch, the  *)
(* directory) and the daemon may die between and inside the children that  *)
(* make them.  One activity per ticket is admitted (module RuntimeControl),*)
(* so Ensure never meets itself and an existing directory is met only in   *)
(* recovery; operator control of the planning ticket is left out.          *)
(***************************************************************************)
EXTENDS Naturals, FiniteSets

CONSTANTS
    MaxBase,     \* bound: tips of the protected branch
    MaxStarts,   \* bound: daemon starts
    MaxClaims    \* bound: claim epochs of an effect

VARIABLES
    tip,       \* the protected branch of the remote
    busy,      \* another writer has the repository
    up,        \* the daemon: down, recovering, serving
    leader,
    ticket,    \* v(ersion), r(unner)
    reg,       \* worktrees: the base of the registered row, 0 if none
    eff,       \* the create effect of each base: state, at, ce
    intent,    \* its immutable Git binding: at, ce
    lease,     \* git_mutation_leases: none, create, absence
    disk,      \* pin(ned base), branch (its commit), dir
    job        \* the activity: pc, the base it creates from, its endpoint

vars == <<tip, busy, up, leader, ticket, reg, eff, intent, lease, disk, job>>

Bases   == 1 .. MaxBase
None    == [v |-> 0, r |-> 0, l |-> 0]
Now     == [v |-> ticket.v, r |-> ticket.r, l |-> leader]
NoClaim == [at |-> None, ce |-> 0]
Empty   == [pin |-> 0, branch |-> 0, dir |-> "none"]
Rest    == [pc |-> "idle", base |-> 0, ok |-> FALSE]

Init ==
    /\ tip = 1 /\ busy = FALSE /\ up = "serving" /\ leader = 1
    /\ ticket = [v |-> 1, r |-> 1] /\ reg = 0
    /\ eff = [b \in Bases |-> [state |-> "none", at |-> None, ce |-> 0]]
    /\ intent = [b \in Bases |-> NoClaim]
    /\ lease = "none" /\ disk = Empty /\ job = Rest

BaseMoves ==
    /\ tip < MaxBase /\ tip' = tip + 1
    /\ UNCHANGED <<busy, up, leader, ticket, reg, eff, intent, lease, disk, job>>

OtherWriter ==
    /\ lease = "none" /\ busy' = ~busy
    /\ UNCHANGED <<tip, up, leader, ticket, reg, eff, intent, lease, disk, job>>

At(pc) == up = "serving" /\ job.pc = pc
To(pc) == job' = [job EXCEPT !.pc = pc]

EqualRecoveryAdvance(from, to) == to.v > from.v /\ to.r > from.r /\ to.v - from.v = to.r - from.r

\* linkedGitRecoveryEffect: what a row may have become since its claim.
Linked(b) ==
    IF eff[b].state = "executing" THEN eff[b].at = intent[b].at /\ eff[b].ce = intent[b].ce
    ELSE /\ eff[b].at.l >= intent[b].at.l /\ eff[b].ce >= intent[b].ce
         /\ \/ eff[b].at.v = intent[b].at.v /\ eff[b].at.r = intent[b].at.r
            \/ /\ eff[b].at.l > intent[b].at.l /\ eff[b].ce > intent[b].ce
               /\ EqualRecoveryAdvance(intent[b].at, eff[b].at)

\* WorktreeCreationIntent: the creations that may have left something.
CreationIntents ==
    {b \in Bases : intent[b] # NoClaim /\ eff[b].state \in {"executing", "uncertain", "confirmed"}}

-------------------------------------------------------------------------------
(* A new creation. *)

\* A durable creation comes before any new one; two are refused.
Ensure ==
    /\ At("idle") /\ reg = 0
    /\ \/ CreationIntents = {} /\ To("plan")
       \/ \E b \in CreationIntents :
             /\ CreationIntents = {b} /\ Linked(b)
             /\ job' = [Rest EXCEPT !.pc = "wait", !.base = b]
    /\ UNCHANGED <<tip, busy, up, leader, ticket, reg, eff, intent, lease, disk>>

\* The branch, the base that is hosted now, and PlanEffect under this fence.
PlanEffect ==
    /\ At("plan")
    /\ IF eff[tip].state \in {"none", "planned", "failed"}
       THEN /\ eff' = [eff EXCEPT ![tip].state = IF @ = "none" THEN "planned" ELSE @, ![tip].at = Now]
            /\ job' = [Rest EXCEPT !.pc = "claim", !.base = tip]
       ELSE job' = Rest /\ UNCHANGED eff
    /\ UNCHANGED <<tip, busy, up, leader, ticket, reg, intent, lease, disk>>

IssueGitMutationClaim ==
    /\ At("claim")
    /\ \E b \in {job.base} :
          /\ eff[b].state \in {"planned", "failed"} /\ eff[b].at = Now /\ eff[b].ce < MaxClaims
          /\ eff' = [eff EXCEPT ![b].state = "executing", ![b].ce = @ + 1]
          /\ intent' = [intent EXCEPT ![b] = [at |-> Now, ce |-> eff[b].ce + 1]]
    /\ To("begin")
    /\ UNCHANGED <<tip, busy, up, leader, ticket, reg, lease, disk>>

Settle(b, state) == eff' = [eff EXCEPT ![b].state = state]

\* Before the lease: a tip that moved or a busy repository is proved to have
\* launched nothing; any other failure is unclear.
CreateWorktree ==
    /\ At("begin") /\ disk.dir = "none"
    /\ \/ tip = job.base /\ ~busy /\ lease = "none" /\ lease' = "create" /\ To("fetch") /\ UNCHANGED eff
       \/ (tip # job.base \/ busy \/ lease # "none") /\ Settle(job.base, "failed") /\ job' = Rest /\ UNCHANGED lease
       \/ To("failed") /\ UNCHANGED <<eff, lease>>
    /\ UNCHANGED <<tip, busy, up, leader, ticket, reg, intent, disk>>

Releases(ok) == job' = [job EXCEPT !.pc = "release", !.ok = ok]

\* The fetch into the ticket's own ref, and the tip once more.
FetchBase ==
    /\ At("fetch")
    /\ \/ disk.pin \in {0, job.base}
          /\ disk' = [disk EXCEPT !.pin = tip]
          /\ IF tip = job.base THEN To("add") ELSE Releases(FALSE)
       \/ Releases(FALSE) /\ UNCHANGED disk
    /\ UNCHANGED <<tip, busy, up, leader, ticket, reg, eff, intent, lease>>

\* What git worktree add leaves when it ends, or is ended, at any point, and
\* what is left when the snapshot fails: directory and branch are taken back,
\* unless that fails too; the pin stays.
Added == {disk, [disk EXCEPT !.branch = job.base],
          [disk EXCEPT !.branch = job.base, !.dir = "partial"],
          [disk EXCEPT !.branch = job.base, !.dir = "whole"]}

AddWorktree ==
    /\ At("add")
    /\ \/ disk.branch = 0 /\ disk' = [disk EXCEPT !.branch = job.base, !.dir = "whole"] /\ Releases(TRUE)
       \/ Releases(FALSE) /\ disk' \in (IF disk.branch = 0 THEN Added ELSE {disk})
    /\ UNCHANGED <<tip, busy, up, leader, ticket, reg, eff, intent, lease>>

\* A lease that cannot be released keeps the row executing.
Release ==
    /\ At("release")
    /\ \/ lease' = "none" /\ To(IF job.ok THEN "confirm" ELSE "failed")
       \/ job' = Rest /\ UNCHANGED lease
    /\ UNCHANGED <<tip, busy, up, leader, ticket, reg, eff, intent, disk>>

-------------------------------------------------------------------------------
(* Confirmation, registration, and what is unclear. *)

\* Snapshot and CleanWorktreeHead: path, branch, pinned base and a clean head.
Exact(b) == disk = [pin |-> b, branch |-> b, dir |-> "whole"]

\* Whose ConfirmEffect it is: the claim's own fence, or a recovery of it.
MayConfirm(b) ==
    \/ eff[b].state = "confirmed"
    \/ intent[b].at = Now /\ eff[b].at = Now /\ eff[b].ce = intent[b].ce
    \/ /\ intent[b].at # Now /\ eff[b].state = "uncertain" /\ eff[b].at.l = leader
       /\ EqualRecoveryAdvance(eff[b].at, Now)

Confirm ==
    /\ At("confirm")
    /\ \E b \in {job.base} :
          IF Exact(b) /\ MayConfirm(b)
          THEN /\ To("register")
               /\ eff' = IF eff[b].state = "confirmed" THEN eff
                         ELSE [eff EXCEPT ![b].state = "confirmed", ![b].at = [Now EXCEPT !.l = eff[b].at.l]]
          ELSE To("failed") /\ UNCHANGED eff
    /\ UNCHANGED <<tip, busy, up, leader, ticket, reg, intent, lease, disk>>

\* RegisterWorktree; the error of a write that may have committed is a failure.
Register ==
    /\ At("register")
    /\ \/ reg' = job.base /\ job' \in {Rest, [job EXCEPT !.pc = "failed"]}
       \/ To("failed") /\ UNCHANGED reg
    /\ UNCHANGED <<tip, busy, up, leader, ticket, eff, intent, lease, disk>>

\* postClaimFailure: an exact result is taken, all else has to become
\* uncertain, and is left executing when even that is not written.
PostClaimFailure ==
    /\ At("failed")
    /\ \/ Exact(job.base) /\ intent[job.base].at = Now /\ To("confirm") /\ UNCHANGED eff
       \/ job' = Rest /\ eff' \in {eff, [eff EXCEPT ![job.base].state =
                                           IF @ = "executing" THEN "uncertain" ELSE @]}
    /\ UNCHANGED <<tip, busy, up, leader, ticket, reg, intent, lease, disk>>

\* waitForCreation: an executing row belongs to its claimant; an exact
\* directory is adopted; no directory at all has to be proved.
WaitForCreation ==
    /\ At("wait")
    /\ \E b \in {job.base} :
          \/ eff[b].state # "executing" /\ Exact(b) /\ To("confirm")
          \/ eff[b].state = "uncertain" /\ disk.dir = "none" /\ To("absence")
          \/ ~(eff[b].state # "executing" /\ Exact(b)) /\ ~(eff[b].state = "uncertain" /\ disk.dir = "none")
             /\ job' = Rest
    /\ UNCHANGED <<tip, busy, up, leader, ticket, reg, eff, intent, lease, disk>>

-------------------------------------------------------------------------------
(* The proof of absence. *)

MayBeginAbsence(b) ==
    /\ eff[b].state = "uncertain" /\ eff[b].at.l = leader
    /\ eff[b].at.v <= ticket.v /\ eff[b].at.r <= ticket.r /\ Linked(b)
    /\ reg = 0 /\ ~busy /\ lease = "none"

\* The old claim is revoked and the repository reserved, for reading only.
BeginAbsence ==
    /\ At("absence") /\ eff[job.base].ce < MaxClaims
    /\ IF MayBeginAbsence(job.base)
       THEN /\ eff' = [eff EXCEPT ![job.base].at = Now, ![job.base].ce = @ + 1]
            /\ lease' = "absence" /\ To("look")
       ELSE job' = Rest /\ UNCHANGED <<eff, lease>>
    /\ UNCHANGED <<tip, busy, up, leader, ticket, reg, intent, disk>>

\* ObserveWorktreeCreationAbsent
Absent == disk = Empty

Look ==
    /\ At("look") /\ To(IF Absent THEN "absent" ELSE "abandon")
    /\ UNCHANGED <<tip, busy, up, leader, ticket, reg, eff, intent, lease, disk>>

CompleteAbsent ==
    /\ At("absent")
    /\ \/ Settle(job.base, "failed") /\ lease' = "none" /\ job' = Rest
       \/ To("abandon") /\ UNCHANGED <<eff, lease>>
    /\ UNCHANGED <<tip, busy, up, leader, ticket, reg, intent, disk>>

\* A lease that cannot be released waits for the next daemon.
AbandonAbsence ==
    /\ At("abandon") /\ job' = Rest /\ lease' \in {"none", "absence"}
    /\ UNCHANGED <<tip, busy, up, leader, ticket, reg, eff, intent, disk>>

-------------------------------------------------------------------------------
(* The daemon. *)

\* A Git child may die half way or finish alone.
Crash ==
    /\ up # "down" /\ up' = "down" /\ job' = Rest /\ busy' = FALSE
    /\ disk' \in (CASE job.pc = "fetch" /\ disk.pin \in {0, job.base} -> {disk, [disk EXCEPT !.pin = tip]}
                    [] job.pc = "add" /\ disk.branch = 0 -> Added
                    [] OTHER -> {disk})
    /\ UNCHANGED <<tip, leader, ticket, reg, eff, intent, lease>>

\* RecoverGitMutationLeases, then ReconcileEffects under the new leader.  A
\* child that is not proved drained is quarantined and nothing starts.
Recover ==
    /\ up = "down" /\ leader < MaxStarts
    /\ up' = "recovering" /\ leader' = leader + 1 /\ lease' = "none"
    /\ eff' = [b \in Bases |->
          IF eff[b].state \in {"executing", "uncertain"}
          THEN [eff[b] EXCEPT !.state = "uncertain", !.at.l = leader + 1, !.ce = @ + 1]
          ELSE eff[b]]
    /\ UNCHANGED <<tip, busy, ticket, reg, intent, disk, job>>

FenceRecoveredRunners ==
    /\ up = "recovering" /\ up' = "serving"
    /\ ticket' = [v |-> ticket.v + 1, r |-> ticket.r + 1]
    /\ UNCHANGED <<tip, busy, leader, reg, eff, intent, lease, disk, job>>

Next ==
    \/ BaseMoves \/ OtherWriter
    \/ Ensure \/ PlanEffect \/ IssueGitMutationClaim
    \/ CreateWorktree \/ FetchBase \/ AddWorktree \/ Release
    \/ Confirm \/ Register \/ PostClaimFailure \/ WaitForCreation
    \/ BeginAbsence \/ Look \/ CompleteAbsent \/ AbandonAbsence
    \/ Crash \/ Recover \/ FenceRecoveredRunners

Spec == Init /\ [][Next]_vars

-------------------------------------------------------------------------------
(* Properties. *)

\* coordinator.go: a response that was lost becomes an exact adoption and
\* never a second creation: at most one creation is open, nothing is on disk
\* without one, and what is registered is that creation, confirmed, as it lies
\* on disk.
OneCreation ==
    /\ Cardinality(CreationIntents) <= 1
    /\ CreationIntents = {} => disk = Empty /\ reg = 0
    /\ reg # 0 => Exact(reg) /\ eff[reg].state = "confirmed" /\ CreationIntents = {reg}

\* git_mutation.go linkedGitRecoveryEffect, worktree_creation_absence.go:
\* wherever daemons died, a settled question has its answer: an exact worktree
\* can be adopted and a creation that left nothing can be declared failed.
LostIsResolved ==
    At("idle") /\ reg = 0 /\ lease = "none" =>
        \A b \in CreationIntents :
            /\ eff[b].state # "executing" /\ Exact(b) => Linked(b) /\ MayConfirm(b)
            /\ eff[b].state = "uncertain" /\ Absent /\ ~busy => Linked(b) /\ MayBeginAbsence(b)
===============================================================================
