------------------------------- MODULE Capacity -------------------------------
(***************************************************************************)
(* Projects, submissions and the slots a ticket needs to run:              *)
(*   store/store.go            RegisterProject, ApplyProjectConfiguration, *)
(*                             submitTicket                                *)
(*   store/project_lifecycle.go  preview and removal                       *)
(*   store/lease.go            admission, slots, adoption, release         *)
(*   store/resume_capacity.go  reacquireTicketCapacity                     *)
(*   daemon/daemon.go          startTicket, controlTicket, Recover         *)
(*                                                                         *)
(* A configuration stands for its digest and its two limits.  The command  *)
(* line registers, configures and removes projects in the same database    *)
(* while the daemon serves, so admission reads what may be stale when it   *)
(* commits.  Writers (attempts, commands, Git children, effects) are one   *)
(* value per ticket; how they are fenced is modules ProviderAttempts,      *)
(* Writers and Effects.  Left out: policies, priorities, reads.            *)
(***************************************************************************)
EXTENDS Naturals, FiniteSets, SequencesExt

CONSTANTS
    Projects,    \* project identities
    Tickets,     \* ticket identities
    Sources,     \* digests of ticket sources
    Configs,     \* configuration digests
    Limit,       \* their limits: machine (g) and project (p) concurrency
    MaxReg,      \* bound: registration generations
    MaxDaemons,   \* bound: daemon starts
    MaxRunner    \* bound: runner epochs of a ticket

VARIABLES
    starts,    \* daemon_instances.leader_epoch
    up,        \* the daemon: down, fenced (Recover has fenced), serving
    project,   \* projects: life, reg(istration generation), gens (configurations)
    shown,     \* the registration generation the operator was shown, 0 if none
    ticket,    \* tickets: p(roject), src, st(ate), r(unner), cfg (frozen)
    slots,     \* leases: k (scope), n (slot), t(icket), r(unner)
    writer,    \* the writer of each ticket: none, a kind that is active, held
    begun      \* start requests past their preflight: [t, r, cfg]

vars == <<starts, up, project, shown, ticket, slots, writer, begun>>

NoTicket  == [p |-> "none", src |-> "none", st |-> "absent", r |-> 0, cfg |-> "none"]
Kinds     == {"provider", "command", "git", "effect"}
Running   == {"active", "stopping", "cancelling"}   \* states FenceRecoveredRunners moves
Terminal  == {"cancelled", "done"}
Unclear   == Kinds \cup {"command held", "provider held", "uncertain"}

Init ==
    /\ starts = 0 /\ up = "down"
    /\ project = [p \in Projects |-> [life |-> "absent", reg |-> 0, gens |-> <<>>]]
    /\ shown = [p \in Projects |-> 0]
    /\ ticket = [t \in Tickets |-> NoTicket]
    /\ slots = {}
    /\ writer = [t \in Tickets |-> "none"]
    /\ begun = {}

Current(p) == Last(project[p].gens)
Of(p)      == {t \in Tickets : ticket[t].p = p}
Held(t)    == {s \in slots : s.t = t}

-------------------------------------------------------------------------------
(* Projects. *)

\* A removed project comes back under its newest configuration or a new one;
\* the digest of an older generation is a conflict.
RegisterProject(p, c) ==
    /\ project[p].life # "active" /\ project[p].reg < MaxReg
    /\ c \in ToSet(project[p].gens) => c = Current(p)
    /\ project' = [project EXCEPT ![p] =
          [life |-> "active", reg |-> @.reg + 1,
           gens |-> IF c \in ToSet(@.gens) THEN @.gens ELSE Append(@.gens, c)]]
    /\ UNCHANGED <<starts, up, shown, ticket, slots, writer, begun>>

ApplyProjectConfiguration(p, c) ==
    /\ project[p].life = "active" /\ c \notin ToSet(project[p].gens) /\ project[p].reg < MaxReg
    /\ project' = [project EXCEPT ![p].gens = Append(@, c), ![p].reg = @ + 1]
    /\ UNCHANGED <<starts, up, shown, ticket, slots, writer, begun>>

\* What blocks a removal: unfinished tickets, slots, writers.
CanRemove(p) ==
    /\ project[p].life = "active"
    /\ \A t \in Of(p) : ticket[t].st \in Terminal /\ Held(t) = {} /\ writer[t] = "none"

Preview(p) ==
    /\ project[p].life = "active" /\ shown[p] # project[p].reg
    /\ shown' = [shown EXCEPT ![p] = project[p].reg]
    /\ UNCHANGED <<starts, up, project, ticket, slots, writer, begun>>

\* RemoveProject looks again, in its own transaction, at the generation shown.
RemoveProject(p) ==
    /\ shown[p] = project[p].reg /\ CanRemove(p)
    /\ project' = [project EXCEPT ![p].life = "removed", ![p].reg = @ + 1]
    /\ UNCHANGED <<starts, up, shown, ticket, slots, writer, begun>>

-------------------------------------------------------------------------------
(* Submission and start. *)

\* A source that is under way answers with its ticket; only a finished one
\* may be submitted again.
SubmitTicket(p, src) ==
    /\ up = "serving" /\ project[p].life = "active"
    /\ \A t \in Of(p) : ticket[t].src = src => ticket[t].st \in Terminal
    /\ \E t \in {u \in Tickets : ticket[u].st = "absent"} :
          ticket' = [ticket EXCEPT ![t] =
              [NoTicket EXCEPT !.p = p, !.src = src, !.st = "queued", !.r = 1]]
    /\ UNCHANGED <<starts, up, project, shown, slots, writer, begun>>

\* The two slots a ticket of project p needs under configuration c.
LeaseRequests(p, c) == {[k |-> "machine", cap |-> Limit[c].g], [k |-> p, cap |-> Limit[c].p]}

FreeSlots(q) == {n \in 0 .. q.cap - 1 : \A s \in slots : s.k # q.k \/ s.n # n}

\* acquireLease: the first free slot of the scope.
AcquireLease(q, t, r) ==
    [k |-> q.k, n |-> CHOOSE n \in FreeSlots(q) : \A m \in FreeSlots(q) : n <= m, t |-> t, r |-> r]

\* startTicket reads the ticket, the current configuration and free capacity.
StartPreflight(t) ==
    /\ up = "serving" /\ ticket[t].st = "queued" /\ project[ticket[t].p].life = "active"
    /\ \A q \in LeaseRequests(ticket[t].p, Current(ticket[t].p)) : FreeSlots(q) # {}
    /\ begun' = {[t |-> t, r |-> ticket[t].r, cfg |-> Current(ticket[t].p)]}
    /\ UNCHANGED <<starts, up, project, shown, ticket, slots, writer>>

\* StartWithCheckedProjectOwnership: all of it again, in one transaction.
StartWithOwnership(b) ==
    /\ up = "serving" /\ project[ticket[b.t].p].life = "active"
    /\ ticket[b.t].st = "queued" /\ ticket[b.t].r = b.r
    /\ Current(ticket[b.t].p) = b.cfg
    /\ LET qs == LeaseRequests(ticket[b.t].p, b.cfg)
       IN  /\ \A q \in qs : FreeSlots(q) # {}
           /\ slots' = slots \cup {AcquireLease(q, b.t, b.r) : q \in qs}
    /\ ticket' = [ticket EXCEPT ![b.t].st = "active", ![b.t].cfg = b.cfg]
    /\ begun' = {}
    /\ UNCHANGED <<starts, up, project, shown, writer>>

\* Refused: the configuration, the ticket or the capacity has changed.
StartRefused(b) ==
    /\ begun' = {}
    /\ UNCHANGED <<starts, up, project, shown, ticket, slots, writer>>

-------------------------------------------------------------------------------
(* Work, pauses and ends. *)

WriterBegins(t) ==
    /\ up = "serving" /\ ticket[t].st = "active" /\ writer[t] = "none"
    /\ \E kind \in Kinds : writer' = [writer EXCEPT ![t] = kind]
    /\ UNCHANGED <<starts, up, project, shown, ticket, slots, begun>>

\* A writer ends; what it leaves unclear waits for an observation (effects)
\* or for the next daemon (commands).
WriterEnds(t) ==
    /\ up = "serving" /\ writer[t] \in Kinds \cup {"uncertain"}
    /\ writer' \in {[writer EXCEPT ![t] = w] : w \in {"none"} \cup
          (CASE writer[t] = "command" -> {"command held"}
             [] writer[t] = "effect"  -> {"uncertain"}
             [] OTHER -> {})}
    /\ UNCHANGED <<starts, up, project, shown, ticket, slots, begun>>

Move(t, st) == ticket' = [ticket EXCEPT ![t].st = st]

\* A question, an exhausted budget or a blocker: the slots stay.
Rests(t) ==
    /\ up = "serving" /\ ticket[t].st = "active" /\ writer[t] \notin Kinds
    /\ \E st \in {"paused", "blocked"} : Move(t, st)
    /\ UNCHANGED <<starts, up, project, shown, slots, writer, begun>>

\* operator_recover leaves the slots of a blocked ticket alone.
Recovers(t) ==
    /\ up = "serving" /\ ticket[t].st = "blocked"
    /\ Move(t, "active")
    /\ UNCHANGED <<starts, up, project, shown, slots, writer, begun>>

\* A pause or take of a ticket that already rests gives up the slots of its
\* current runner once nothing of it writes.
ReleaseLeases(t) ==
    /\ up = "serving" /\ ticket[t].st = "paused" /\ Held(t) # {} /\ writer[t] = "none"
    /\ slots' = slots \ {s \in Held(t) : s.r = ticket[t].r}
    /\ UNCHANGED <<starts, up, project, shown, ticket, writer, begun>>

\* reacquireTicketCapacity under the configuration frozen at the start: a row
\* is kept when it is the only one of its scope, valid and the runner's own.
Reacquire(t) ==
    LET qs     == LeaseRequests(ticket[t].p, ticket[t].cfg)
        own(q) == {s \in Held(t) : s.k = q.k}
    IN  /\ \A q \in qs :
              /\ Cardinality(own(q)) <= 1
              /\ \A s \in own(q) : s.n < q.cap /\ s.r = ticket[t].r
              /\ own(q) = {} => FreeSlots(q) # {}
        /\ slots' = slots \cup {AcquireLease(q, t, ticket[t].r) : q \in {x \in qs : own(x) = {}}}

Resumes(t) ==
    /\ up = "serving" /\ ticket[t].st = "paused"
    /\ Reacquire(t)
    /\ \E st \in {"active", "blocked"} : Move(t, st)
    /\ UNCHANGED <<starts, up, project, shown, writer, begun>>

\* TransitionAndInvalidateRunner: the slots stay with the runner before.
Control(t, st, from) ==
    /\ up = "serving" /\ ticket[t].st \in from /\ ticket[t].r < MaxRunner
    /\ ticket' = [ticket EXCEPT ![t].st = st, ![t].r = @ + 1]
    /\ UNCHANGED <<starts, up, project, shown, slots, writer, begun>>

Stop(t)   == Control(t, "stopping", {"active"})
Cancel(t) == Control(t, "cancelling", {"queued", "active", "paused", "blocked", "stopping"})

\* releaseTerminalCapacity: every slot, of whichever runner, but only when no
\* writer and no unclear effect is left.
ReleaseTerminalMutant(t) ==  \* A plausible bug: only the slots of the current runner.
    /\ writer[t] \notin Unclear
    /\ slots' = slots \ {s \in Held(t) : s.r = ticket[t].r}

ReleaseTerminal(t) ==
    /\ writer[t] \notin Unclear
    /\ slots' = slots \ Held(t)

CompleteControl(t) ==
    /\ up = "serving" /\ ticket[t].st \in {"stopping", "cancelling"}
    /\ ReleaseTerminal(t)
    /\ Move(t, IF ticket[t].st = "stopping" THEN "paused" ELSE "cancelled")
    /\ UNCHANGED <<starts, up, project, shown, writer, begun>>

Finishes(t) ==
    /\ up = "serving" /\ ticket[t].st = "active"
    /\ ReleaseTerminal(t)
    /\ Move(t, "done")
    /\ UNCHANGED <<starts, up, project, shown, writer, begun>>

-------------------------------------------------------------------------------
(* A new daemon. *)

Crash ==
    /\ up # "down"
    /\ up' = "down" /\ begun' = {}
    /\ UNCHANGED <<starts, project, shown, ticket, slots, writer>>

\* Git children are drained or the start fails, commands are drained or held,
\* effects become uncertain; then every running ticket gets a new runner.
FenceRecoveredRunners ==
    /\ up = "down" /\ starts < MaxDaemons
    /\ \A t \in Tickets : ticket[t].st \in Running => ticket[t].r < MaxRunner
    /\ starts' = starts + 1 /\ up' = "fenced"
    /\ \E held \in SUBSET {t \in Tickets : writer[t] \in {"command", "command held"}} :
          writer' = [t \in Tickets |->
              IF t \in held THEN "command held"
              ELSE IF writer[t] \in {"git", "command", "command held"} THEN "none"
              ELSE IF writer[t] = "effect" THEN "uncertain" ELSE writer[t]]
    /\ ticket' = [t \in Tickets |->
          IF ticket[t].st \in Running THEN [ticket[t] EXCEPT !.r = @ + 1] ELSE ticket[t]]
    /\ UNCHANGED <<project, shown, slots, begun>>

\* A provider that is not proved drained is quarantined and the start fails.
DrainProvider(t) ==
    /\ up = "fenced" /\ writer[t] \in {"provider", "provider held"}
    /\ \/ writer' = [writer EXCEPT ![t] = "none"] /\ up' = up
       \/ writer' = [writer EXCEPT ![t] = "provider held"] /\ up' = "down"
    /\ UNCHANGED <<starts, project, shown, ticket, slots, begun>>

\* StaleLeases and AdoptInvalidatedLeases: a group moves to the new runner
\* unless a held command still excludes it.
StaleLeases == {s \in slots : s.r # ticket[s.t].r}

Adoptable == {s \in StaleLeases : writer[s.t] # "command held"}

AdoptInvalidatedLeases(t) ==
    /\ up = "fenced" /\ \A u \in Tickets : writer[u] \notin {"provider", "provider held"}
    /\ t \in {s.t : s \in Adoptable}
    /\ slots' = {IF s.t = t THEN [s EXCEPT !.r = ticket[t].r] ELSE s : s \in slots}
    /\ UNCHANGED <<starts, up, project, shown, ticket, writer, begun>>

RecoverChannel ==
    /\ up = "fenced" /\ \A u \in Tickets : writer[u] \notin {"provider", "provider held"}
    /\ Adoptable = {}
    /\ up' = "serving"
    /\ UNCHANGED <<starts, project, shown, ticket, slots, writer, begun>>

Next ==
    \/ \E p \in Projects, c \in Configs : RegisterProject(p, c) \/ ApplyProjectConfiguration(p, c)
    \/ \E p \in Projects : Preview(p) \/ RemoveProject(p)
    \/ \E p \in Projects, src \in Sources : SubmitTicket(p, src)
    \/ \E b \in begun : StartWithOwnership(b) \/ StartRefused(b)
    \/ \E t \in Tickets :
          \/ StartPreflight(t) \/ WriterBegins(t) \/ WriterEnds(t) \/ Rests(t) \/ Recovers(t)
          \/ ReleaseLeases(t) \/ Resumes(t) \/ Stop(t) \/ Cancel(t) \/ CompleteControl(t)
          \/ Finishes(t) \/ DrainProvider(t) \/ AdoptInvalidatedLeases(t)
    \/ Crash \/ FenceRecoveredRunners \/ RecoverChannel

Spec == Init /\ [][Next]_vars

-------------------------------------------------------------------------------
(* Properties. *)

\* A slot is within the limits of the configuration the ticket started under.
WithinFrozenLimits(s) ==
    \E q \in LeaseRequests(ticket[s.t].p, ticket[s.t].cfg) : s.k = q.k /\ s.n < q.cap

\* lease.go, resume_capacity.go: every slot is within the limits its ticket was
\* admitted under, whatever was applied to the project since; and while the
\* daemon serves, a ticket that runs or is blocked holds one slot of the machine
\* and one of its project, one that waits or is finished none, and one that
\* rests both or none: slots neither leak nor are taken twice over pauses,
\* cancellations and restarts. Of a removed project nothing is left to run, not
\* by a submission or a start that was under way (RemoveProject).
SlotsMatchTickets ==
    /\ \A s \in slots : WithinFrozenLimits(s)
    /\ up = "serving" => \A t \in Tickets :
        LET scopes == {s.k : s \in Held(t)}
            both   == {"machine", ticket[t].p}
        IN  /\ Cardinality(Held(t)) = Cardinality(scopes)
            /\ ticket[t].st \in {"active", "blocked"} => scopes = both
            /\ ticket[t].st \in {"absent", "queued"} \cup Terminal => scopes = {}
            /\ scopes \in {{}, both}
    /\ \A p \in Projects : project[p].life = "removed" =>
        \A t \in Of(p) : ticket[t].st \in Terminal /\ Held(t) = {} /\ writer[t] = "none"
===============================================================================
