----------------------------- MODULE BaseRefresh ------------------------------
(***************************************************************************)
(* One rewrite of a candidate on a protected base that moved on:           *)
(*   localruntime/base_refresh.go      when a worker refreshes             *)
(*   baserefresh/coordinator.go        proof, reservation, application     *)
(*   store/protected_base_refresh*.go  their rows and their recovery       *)
(*   git/base_refresh_*.go             the prepared commit, the checkout   *)
(*                                                                         *)
(* Four records move one after the other: the proof of the new tip, the    *)
(* reservation, the checkout (its tree, then its two refs) and the         *)
(* registration with the ticket.  The daemon may die between any two, a    *)
(* Git child in its middle, and the base, the pull request and other       *)
(* tickets of the repository move meanwhile.  An endpoint is a version, a  *)
(* runner and a leader.  How the history up to a reservation is proved is  *)
(* in DeliveryCycle and MergeCycle; operator control of a ticket with a    *)
(* reservation is left out.                                                *)
(***************************************************************************)
EXTENDS Naturals, FiniteSets

CONSTANTS
    MaxTip,       \* bound: tips of the protected branch
    MaxStarts,    \* bound: daemon starts
    MaxVersion,   \* bound: ticket versions
    MaxReclaims   \* maxProtectedBaseRefreshReclaims

VARIABLES
    tip,       \* the protected branch of the remote
    pr,        \* the pull request: none, open, merged
    pub,       \* its rows: none, effect (of unknown outcome), witness
    busy,      \* another ticket of the repository writes
    up, leader,
    ticket,    \* st, v, r
    moved,     \* the version of the last event that was not a recovery
    reg,       \* worktrees: head and base
    proofs,    \* the proof effects: key (endpoint and tip), state, ce
    res,       \* protected_base_refresh_intents: endpoint and base
    eff,       \* the refresh effect: state, at (endpoint), ce, obs(erved)
    claim,     \* its Git mutation intent: at, ce
    prepared,  \* the prepared commit is recorded
    done,      \* protected_base_refresh_completions: version and endpoint
    reclaims,  \* protected_base_refresh_reclaimed events
    refs,      \* the branch and the pinned base of the checkout
    tree,      \* its index and files: old, partial, prepared
    job        \* the worker: pc, the tip it observed, its endpoint

world   == <<tip, pr, busy>>
store   == <<pub, ticket, moved, reg, proofs, res, eff, claim, prepared, done, reclaims>>
disk    == <<refs, tree>>
vars    == <<world, store, disk, up, leader, job>>

None    == [v |-> 0, r |-> 0, l |-> 0]
NoRes   == [at |-> None, base |-> 0]
NoEff   == [state |-> "none", at |-> None, ce |-> 0, obs |-> FALSE]
Rest    == [pc |-> "idle", base |-> 0, at |-> None]
Old     == [head |-> "candidate", base |-> 1]
New     == [head |-> "refreshed", base |-> res.base]
Now     == [v |-> ticket.v, r |-> ticket.r, l |-> leader]
Phases  == <<"publishing", "waiting_ci", "reviewing", "waiting_approval">>
Open    == {Phases[i] : i \in 1 .. 4}
Unclear == {"planned", "executing", "uncertain"}

Init ==
    /\ tip = 1 /\ busy = FALSE /\ up = FALSE /\ leader = 0
    /\ pr = "none" /\ pub = "none"
    /\ ticket = [st |-> "publishing", v |-> 1, r |-> 1] /\ moved = 1
    /\ reg = Old /\ proofs = {} /\ res = NoRes /\ eff = NoEff
    /\ claim = [at |-> None, ce |-> 0] /\ prepared = FALSE
    /\ done = None /\ reclaims = 0
    /\ refs = Old /\ tree = "old"
    /\ job = Rest

-------------------------------------------------------------------------------
(* The world. *)

BaseMoves ==
    /\ tip < MaxTip /\ tip' = tip + 1
    /\ UNCHANGED <<pr, busy, store, disk, up, leader, job>>

SomeoneMerges ==
    /\ pr = "open" /\ pr' = "merged"
    /\ UNCHANGED <<tip, busy, store, disk, up, leader, job>>

OtherWriter ==
    /\ up /\ job.pc \in {"idle", "proof", "reserve", "claim"} /\ busy' = ~busy
    /\ UNCHANGED <<tip, pr, store, disk, up, leader, job>>

-------------------------------------------------------------------------------
(* The worker looks before any other action of a published ticket. *)

To(pc) == job' = [job EXCEPT !.pc = pc]

\* validateRunnerRecoveryLedger: only recoveries lead from one to the other.
OnlyRecovered(from) == from.v >= moved /\ from.r <= ticket.r /\ from.l <= leader

\* pendingProtectedBaseRefreshAt
Pending == res # NoRes /\ done = None

\* A pending reservation comes first; else the remote is compared.  A
\* published pull request must be open; before the first witness nothing may
\* be hosted.
RefreshProtectedBase ==
    /\ up /\ job.pc = "idle" /\ ticket.st \in Open
    /\ IF Pending
       THEN /\ OnlyRecovered(res.at) /\ (pub = "witness" => pr = "open")
            /\ job' = [pc |-> "claim", base |-> res.base, at |-> Now]
       ELSE IF tip = reg.base THEN job' = [pc |-> "step", base |-> tip, at |-> Now]
       ELSE /\ IF pub = "witness" THEN pr = "open" ELSE pr = "none"
            /\ job' = [pc |-> "proof", base |-> tip, at |-> Now]
    /\ UNCHANGED <<world, store, disk, up, leader>>

\* Nothing to refresh: the ticket goes on (modules DeliveryCycle, MergeCycle).
Step ==
    /\ up /\ job.pc = "step" /\ job' = Rest
    /\ \/ /\ pub = "none" /\ pub' = "effect"
          /\ \E p \in {"none", "open"} : pr' = p
          /\ UNCHANGED <<ticket, moved>>
       \/ /\ pub = "effect" /\ pub' = "witness" /\ pr' = "open" /\ pr # "merged"
          /\ ticket.v < MaxVersion
          /\ ticket' = [ticket EXCEPT !.st = "waiting_ci", !.v = @ + 1]
          /\ moved' = ticket.v + 1
       \/ /\ pub = "witness" /\ UNCHANGED <<pub, pr>> /\ ticket.v < MaxVersion
          /\ \E i \in 2 .. 3 : ticket.st = Phases[i]
                /\ ticket' = [ticket EXCEPT !.st = Phases[i + 1], !.v = @ + 1]
          /\ moved' = ticket.v + 1
    /\ UNCHANGED <<tip, busy, reg, proofs, res, eff, claim, prepared, done, reclaims, disk, up, leader>>

-------------------------------------------------------------------------------
(* The proof. *)

\* protectedBaseRefreshContextAt: a pull request effect without its witness
\* leaves the target unknown.
Context(b) ==
    /\ job.at = Now /\ ticket.st \in Open
    /\ b # reg.base
    /\ pub # "effect"

\* protectedBaseRefreshProofFor: the key binds the endpoint and the tip.
Key(b) == [at |-> Now, base |-> b]

\* protectedBaseRefreshDrainedExceptProofAt
DrainedExcept(key, lax) ==
    /\ ~busy
    /\ \A p \in proofs :
          /\ p.state # "executing"
          /\ p.state = "uncertain" => lax /\ p.key = key
          /\ p.state = "planned" => p.key = key
    /\ eff.state \notin {"planned", "executing", "uncertain"}

Proof(b) == {p \in proofs : p.key = Key(b)}

\* ProtectedBaseRefreshProofIntent, PlanEffect and the claim: a new one, or
\* that of the same endpoint again after an unclear end.
ProofIntent ==
    /\ up /\ job.pc = "proof"
    /\ LET k == Key(job.base)
       IN  IF ~(Context(job.base) /\ DrainedExcept(k, TRUE) /\ res = NoRes)
           THEN job' = Rest /\ UNCHANGED proofs
           ELSE \/ /\ Proof(job.base) = {}
                   /\ proofs' = proofs \cup {[key |-> k, state |-> "planned", ce |-> 0]}
                   /\ To("proof")
                \/ \E p \in Proof(job.base) :
                      \/ p.state = "confirmed" /\ To("reserve") /\ UNCHANGED proofs
                      \/ /\ p.state \in {"planned", "uncertain"} /\ p.ce <= MaxReclaims
                         /\ proofs' = (proofs \ {p}) \cup {[p EXCEPT !.state = "executing", !.ce = @ + 1]}
                         /\ To("fetch")
                      \/ p.ce > MaxReclaims /\ job' = Rest /\ UNCHANGED proofs
    /\ UNCHANGED <<world, pub, ticket, moved, reg, res, eff, claim, prepared, done, reclaims, disk, up, leader>>

Settle(p, state) == proofs' = (proofs \ {p}) \cup {[p EXCEPT !.state = state]}

\* VerifyExactProtectedBase under the repository's lease, then ConfirmEffect:
\* only the exact tip is a proof; anything else leaves the effect uncertain.
VerifyExactProtectedBase ==
    /\ up /\ job.pc = "fetch"
    /\ \E p \in Proof(job.base) :
          \/ tip = job.base /\ ~busy /\ Settle(p, "confirmed") /\ To("reserve")
          \/ Settle(p, "uncertain") /\ job' = Rest
    /\ UNCHANGED <<world, pub, ticket, moved, reg, res, eff, claim, prepared, done, reclaims, disk, up, leader>>

\* ReserveProtectedBaseRefresh: one row for the life of the ticket.
Reserve ==
    /\ up /\ job.pc = "reserve"
    /\ IF /\ Context(job.base) /\ DrainedExcept(Key(job.base), FALSE) /\ res = NoRes
          /\ \E p \in Proof(job.base) : p.state = "confirmed"
       THEN /\ res' = [at |-> Now, base |-> job.base]
            /\ eff' = [NoEff EXCEPT !.state = "planned", !.at = Now]
            /\ To("claim")
       ELSE job' = Rest /\ UNCHANGED <<res, eff>>
    /\ UNCHANGED <<world, pub, ticket, moved, reg, proofs, claim, prepared, done, reclaims, disk, up, leader>>

-------------------------------------------------------------------------------
(* The reservation's claim. *)

\* authenticateProtectedBaseRefreshMutationAt: the old inputs still stand.
Authentic == Pending /\ OnlyRecovered(res.at) /\ Context(res.base)

NoWriters == ~busy /\ \A p \in proofs : p.state \notin Unclear

Claims(ce) ==
    /\ claim' = [at |-> Now, ce |-> ce]
    /\ eff' = [state |-> "executing", at |-> Now, ce |-> ce, obs |-> FALSE]

\* PlanEffect rebinds what was never launched, then IssueGitMutationClaim.
MayIssue == eff.state = "planned" /\ Authentic /\ ~busy

\* ReclaimProtectedBaseRefresh: the current claim again, or a new one for
\* whatever a dead or failed one left, confirmed included.
Replays == eff.state = "executing" /\ eff.at = Now /\ claim.at = Now

MayReclaimMutant ==  \* A plausible bug: a confirmed effect needs no claim.
    /\ eff.state \in {"executing", "uncertain"} /\ Authentic
    /\ ~Replays => NoWriters /\ reclaims < MaxReclaims /\ OnlyRecovered(claim.at)

MayReclaim ==
    /\ eff.state \in {"executing", "uncertain", "confirmed"} /\ Authentic
    /\ eff.obs => prepared
    /\ ~Replays => NoWriters /\ reclaims < MaxReclaims /\ OnlyRecovered(claim.at)

Apply ==
    /\ up /\ job.pc = "claim"
    /\ \/ MayIssue /\ Claims(eff.ce + 1) /\ UNCHANGED reclaims
       \/ MayReclaim /\ Replays /\ UNCHANGED <<eff, claim, reclaims>>
       \/ MayReclaim /\ ~Replays /\ Claims(eff.ce + 1) /\ reclaims' = reclaims + 1
    /\ To(IF prepared THEN "read" ELSE "prepare")
    /\ UNCHANGED <<world, pub, ticket, moved, reg, proofs, res, prepared, done, disk, up, leader>>

ApplyRefused ==
    /\ up /\ job.pc = "claim" /\ ~(MayIssue \/ MayReclaim)
    /\ job' = Rest
    /\ UNCHANGED <<world, store, disk, up, leader>>

\* The checkout is exactly old, staged or new.
Recognised ==
    \/ refs = Old /\ tree \in {"old", "prepared"}
    \/ refs = New /\ tree = "prepared"

\* What a read-tree or update-ref child leaves that does not return: it may have
\* been killed half way, or have finished.
LeftByChild ==
    /\ tree' \in (IF job.pc = "read" /\ Recognised
                  THEN {tree, "prepared"} \cup (IF tree = "old" THEN {"partial"} ELSE {}) ELSE {tree})
    /\ refs' \in (IF job.pc = "cas" /\ Recognised /\ tree = "prepared"
                  THEN {refs, New, [New EXCEPT !.base = refs.base]} ELSE {refs})

\* Refused, or a child was killed at the limit of its context.  uncertain():
\* unless the store fails too, in which case the effect stays executing.
Fails ==
    /\ up /\ job.pc \in {"prepare", "read", "cas", "confirm"}
    /\ job' = Rest
    /\ eff' \in {eff, [eff EXCEPT !.state = "uncertain"]}
    /\ LeftByChild
    /\ UNCHANGED <<world, pub, ticket, moved, reg, proofs, res, claim, prepared, done, reclaims, up, leader>>

-------------------------------------------------------------------------------
(* The checkout. *)

\* PrepareProtectedBaseRefresh: objects only; the commit is the same whenever
\* it is made from these inputs.  A conflict, or a merge that touches the
\* protected tests, is one of the failures.
PrepareMutant ==  \* A plausible bug: the commit is not recorded before it is used.
    /\ up /\ job.pc = "prepare"
    /\ refs = Old /\ tree = "old" /\ tip = res.base
    /\ To("read")
    /\ UNCHANGED <<world, store, disk, up, leader>>

Prepare ==
    /\ up /\ job.pc = "prepare"
    /\ refs = Old /\ tree = "old" /\ tip = res.base
    /\ prepared' = TRUE /\ To("read")
    /\ UNCHANGED <<world, pub, ticket, moved, reg, proofs, res, eff, claim, done, reclaims, disk, up, leader>>

\* checkRemote
Unmoved == tip = res.base /\ ~(pub = "witness" /\ pr = "none")

ReadTree ==
    /\ up /\ job.pc = "read" /\ Recognised /\ Unmoved
    /\ tree' = "prepared" /\ To("cas")
    /\ UNCHANGED <<world, store, refs, up, leader>>

\* baseRefreshRefTransaction: both refs or neither.
UpdateRefs ==
    /\ up /\ job.pc = "cas" /\ Recognised /\ Unmoved /\ tree = "prepared"
    /\ refs' = New /\ To("confirm")
    /\ UNCHANGED <<world, store, tree, up, leader>>

\* The last look of ApplyProtectedBaseRefresh, then ConfirmEffect.
Confirm ==
    /\ up /\ job.pc = "confirm" /\ refs = New /\ tree = "prepared" /\ Unmoved
    /\ eff' = [eff EXCEPT !.state = "confirmed", !.obs = TRUE] /\ To("complete")
    /\ UNCHANGED <<world, pub, ticket, moved, reg, proofs, res, claim, prepared, done, reclaims, disk, up, leader>>

\* CompleteProtectedBaseRefresh: registration, completion and ticket together.
Complete ==
    /\ up /\ job.pc = "complete" /\ job' = Rest
    /\ IF /\ claim.at = Now /\ eff.at = Now /\ eff.ce = claim.ce
          /\ eff.state = "confirmed" /\ eff.obs /\ prepared
          /\ NoWriters /\ Authentic /\ reg = Old /\ ticket.v < MaxVersion
       THEN /\ reg' = New
            /\ ticket' = [ticket EXCEPT !.st = "building", !.v = @ + 1]
            /\ moved' = ticket.v + 1 /\ done' = [Now EXCEPT !.v = @ + 1]
       ELSE UNCHANGED <<reg, ticket, moved, done>>
    /\ UNCHANGED <<world, pub, proofs, res, eff, claim, prepared, reclaims, disk, up, leader>>

-------------------------------------------------------------------------------
(* The daemon. *)

Crash ==
    /\ up /\ up' = FALSE /\ job' = Rest
    /\ LeftByChild
    /\ busy' = FALSE
    /\ UNCHANGED <<tip, pr, store, leader>>

\* protectedBaseRefreshRecoveryPredecessor: a refreshed ticket in building is
\* recovered from its completion, and only as registered.
Predecessor ==
    ticket.st = "building" => done.v <= ticket.v /\ OnlyRecovered(done) /\ reg = New

Start ==
    /\ ~up /\ leader < MaxStarts /\ Predecessor /\ ticket.v < MaxVersion
    /\ up' = TRUE /\ leader' = leader + 1
    /\ ticket' = IF leader = 0 THEN ticket ELSE [ticket EXCEPT !.v = @ + 1, !.r = @ + 1]
    /\ proofs' = {IF p.state = "executing" THEN [p EXCEPT !.state = "uncertain"] ELSE p : p \in proofs}
    /\ eff' = IF eff.state = "executing" THEN [eff EXCEPT !.state = "uncertain"] ELSE eff
    /\ UNCHANGED <<world, pub, moved, reg, res, claim, prepared, done, reclaims, disk, job>>

Next ==
    \/ BaseMoves \/ SomeoneMerges \/ OtherWriter
    \/ RefreshProtectedBase \/ Step \/ ProofIntent \/ VerifyExactProtectedBase \/ Reserve
    \/ Apply \/ ApplyRefused \/ Fails \/ Prepare \/ ReadTree \/ UpdateRefs \/ Confirm \/ Complete
    \/ Crash \/ Start

Spec == Init /\ [][Next]_vars

-------------------------------------------------------------------------------
(* Properties. *)

\* baserefresh/coordinator.go, git/base_refresh_apply.go: a checkout that is
\* not what is registered has a reservation that is still pending and that
\* recorded its commit before anything moved; a completed refresh is
\* registered exactly as it lies on disk, on the tip that was proved.
CheckoutIsAccounted ==
    /\ (refs # reg \/ tree = "partial") => Pending /\ prepared
    /\ done # None =>
         /\ reg = refs /\ tree = "prepared"
         /\ \E p \in proofs : p.state = "confirmed" /\ p.key = res

\* store/protected_base_refresh_recovery.go: wherever the daemon died, a
\* reservation of a served ticket can be claimed again, unless another ticket
\* writes or the reclaims are used up: no outcome of the effect is a dead end.
ReservedIsResumable ==
    up /\ Pending /\ ~busy /\ reclaims < MaxReclaims /\ job.pc \in {"idle", "claim"} =>
        /\ ticket.st \in Open /\ OnlyRecovered(res.at)
        /\ job.pc = "claim" => MayIssue \/ MayReclaim
===============================================================================
