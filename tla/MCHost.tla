-------------------------------- MODULE MCHost --------------------------------
(* Components that share no state, summed: a behaviour is of one of them, and *)
(* the variables it does not use stay at 0.                                   *)
EXTENDS Naturals, TLC

CONSTANTS
    Projects, Tickets, Sources, Configs, MaxReg, MaxDaemons, MaxRunner,
    MaxTip, MaxStarts, MaxVersion, MaxReclaims, MaxBase, MaxClaims, MaxEdits,
    MaxFaults, MaxCheckpointReclaims, MaxCorrections, MaxAttempts, MaxRuns,
    MaxLeaders

\* The protected branch has a tip to begin with.
ASSUME BaseAssumption == MaxBase \in Nat \ {0}

VARIABLES
    which, starts, up, project, shown, ticket, slots, writer, begun, tip, pr,
    pub, busy, leader, moved, reg, proofs, res, eff, claim, prepared, done,
    reclaims, refs, tree, job, intent, lease, disk, owner, rev, cmd, receipt,
    retired, outcome, touched, state, hist, att, repairs, reqs, cand, ctl,
    remote, runner, rec, life, group, pipes, monitor, ctx, terminated, clean,
    closer, source, runs, entry, claims, open, exh, epoch, recs, edits,
    latch, stopped, allowed, run, memo, req, authed

Limit == [c \in Configs |-> IF c = "wide" THEN [g |-> 2, p |-> 2] ELSE [g |-> 1, p |-> 1]]
Alike == Permutations(Tickets) \cup Permutations(Sources)

Capacity == INSTANCE Capacity
Refresh == INSTANCE BaseRefresh
Worktree == INSTANCE Worktrees
Checkpoint == INSTANCE AmendmentCheckpoint
Repair == INSTANCE PostbuildRepair
Source == INSTANCE OperatorSourceResume
Gh == INSTANCE GhRunner
Retry == INSTANCE ProviderRetry

not_capacity == <<tip, pr, pub, busy, leader, moved, reg, proofs, res, eff,
                  claim, prepared, done, reclaims, refs, tree, job, intent,
                  lease, disk, owner, rev, cmd, receipt, retired, outcome,
                  touched, state, hist, att, repairs, reqs, cand, ctl,
                  remote, runner, rec, life, group, pipes, monitor, ctx,
                  terminated, clean, closer, source, runs, entry, claims,
                  open, exh, epoch, recs, edits, latch, stopped, allowed,
                  run, memo, req, authed>>
not_refresh == <<starts, project, shown, slots, writer, begun, intent, lease,
                 disk, owner, rev, cmd, receipt, retired, outcome, touched,
                 state, hist, att, repairs, reqs, cand, ctl, remote, runner,
                 rec, life, group, pipes, monitor, ctx, terminated, clean,
                 closer, source, runs, entry, claims, open, exh, epoch, recs,
                 edits, latch, stopped, allowed, run, memo, req, authed>>
not_worktree == <<starts, project, shown, slots, writer, begun, pr, pub,
                  moved, proofs, res, claim, prepared, done, reclaims, refs,
                  tree, owner, rev, cmd, receipt, retired, outcome, touched,
                  state, hist, att, repairs, reqs, cand, ctl, remote, runner,
                  rec, life, group, pipes, monitor, ctx, terminated, clean,
                  closer, source, runs, entry, claims, open, exh, epoch,
                  recs, edits, latch, stopped, allowed, run, memo, req,
                  authed>>
not_checkpoint == <<starts, project, shown, ticket, slots, writer, begun,
                    tip, pr, pub, busy, moved, reg, proofs, res, claim,
                    prepared, done, refs, lease, disk, state, hist, att,
                    repairs, reqs, cand, ctl, remote, runner, rec, life,
                    group, pipes, monitor, ctx, terminated, clean, closer,
                    source, runs, entry, claims, open, exh, epoch, recs,
                    edits, latch, stopped, allowed, run, memo, req, authed>>
not_repair == <<starts, project, shown, ticket, slots, writer, begun, tip,
                pr, pub, busy, moved, reg, proofs, res, claim, prepared,
                done, reclaims, refs, intent, lease, disk, owner, receipt,
                retired, outcome, touched, ctl, remote, runner, rec, life,
                group, pipes, monitor, ctx, terminated, clean, closer,
                source, runs, entry, claims, open, exh, epoch, recs, edits,
                latch, stopped, allowed, run, memo, req, authed>>
not_source == <<starts, project, shown, ticket, slots, writer, begun, tip,
                pr, pub, busy, moved, reg, proofs, res, claim, prepared,
                done, reclaims, refs, intent, lease, disk, owner, receipt,
                retired, outcome, touched, repairs, reqs, runner, rec, life,
                group, pipes, monitor, ctx, terminated, clean, closer,
                source, runs, entry, claims, open, exh, epoch, recs, edits,
                latch, stopped, allowed, run, memo, req, authed>>
not_gh == <<starts, up, project, shown, ticket, slots, writer, begun, tip,
            pr, pub, busy, leader, moved, reg, res, eff, claim, prepared,
            done, reclaims, refs, tree, intent, lease, disk, owner, rev, cmd,
            receipt, retired, outcome, touched, state, hist, att, repairs,
            reqs, cand, ctl, remote, entry, claims, open, exh, epoch, recs,
            edits, latch, stopped, allowed, run, memo, req, authed>>
not_retry == <<project, shown, slots, writer, begun, tip, pr, pub, busy,
               leader, moved, reg, proofs, res, eff, claim, prepared, done,
               reclaims, refs, job, intent, lease, disk, owner, rev, cmd,
               receipt, retired, outcome, touched, state, hist, att, repairs,
               reqs, cand, remote, runner, rec, life, group, pipes, monitor,
               ctx, terminated, clean, closer, source, runs>>
all == <<starts, up, project, shown, ticket, slots, writer, begun, tip, pr,
         pub, busy, leader, moved, reg, proofs, res, eff, claim, prepared,
         done, reclaims, refs, tree, job, intent, lease, disk, owner, rev,
         cmd, receipt, retired, outcome, touched, state, hist, att, repairs,
         reqs, cand, ctl, remote, runner, rec, life, group, pipes, monitor,
         ctx, terminated, clean, closer, source, runs, entry, claims, open,
         exh, epoch, recs, edits, latch, stopped, allowed, run, memo, req,
         authed>>

Init ==
    \/ /\ which = "capacity" /\ Capacity!Init
       /\ tip = 0 /\ pr = 0 /\ pub = 0 /\ busy = 0 /\ leader = 0 /\ moved = 0
       /\ reg = 0 /\ proofs = 0 /\ res = 0 /\ eff = 0 /\ claim = 0
       /\ prepared = 0 /\ done = 0 /\ reclaims = 0 /\ refs = 0 /\ tree = 0
       /\ job = 0 /\ intent = 0 /\ lease = 0 /\ disk = 0 /\ owner = 0
       /\ rev = 0 /\ cmd = 0 /\ receipt = 0 /\ retired = 0 /\ outcome = 0
       /\ touched = 0 /\ state = 0 /\ hist = 0 /\ att = 0 /\ repairs = 0
       /\ reqs = 0 /\ cand = 0 /\ ctl = 0 /\ remote = 0 /\ runner = 0
       /\ rec = 0 /\ life = 0 /\ group = 0 /\ pipes = 0 /\ monitor = 0
       /\ ctx = 0 /\ terminated = 0 /\ clean = 0 /\ closer = 0 /\ source = 0
       /\ runs = 0 /\ entry = 0 /\ claims = 0 /\ open = 0 /\ exh = 0
       /\ epoch = 0 /\ recs = 0 /\ edits = 0 /\ latch = 0 /\ stopped = 0
       /\ allowed = 0 /\ run = 0 /\ memo = 0 /\ req = 0 /\ authed = 0
    \/ /\ which = "refresh" /\ Refresh!Init
       /\ starts = 0 /\ project = 0 /\ shown = 0 /\ slots = 0 /\ writer = 0
       /\ begun = 0 /\ intent = 0 /\ lease = 0 /\ disk = 0 /\ owner = 0
       /\ rev = 0 /\ cmd = 0 /\ receipt = 0 /\ retired = 0 /\ outcome = 0
       /\ touched = 0 /\ state = 0 /\ hist = 0 /\ att = 0 /\ repairs = 0
       /\ reqs = 0 /\ cand = 0 /\ ctl = 0 /\ remote = 0 /\ runner = 0
       /\ rec = 0 /\ life = 0 /\ group = 0 /\ pipes = 0 /\ monitor = 0
       /\ ctx = 0 /\ terminated = 0 /\ clean = 0 /\ closer = 0 /\ source = 0
       /\ runs = 0 /\ entry = 0 /\ claims = 0 /\ open = 0 /\ exh = 0
       /\ epoch = 0 /\ recs = 0 /\ edits = 0 /\ latch = 0 /\ stopped = 0
       /\ allowed = 0 /\ run = 0 /\ memo = 0 /\ req = 0 /\ authed = 0
    \/ /\ which = "worktree" /\ Worktree!Init
       /\ starts = 0 /\ project = 0 /\ shown = 0 /\ slots = 0 /\ writer = 0
       /\ begun = 0 /\ pr = 0 /\ pub = 0 /\ moved = 0 /\ proofs = 0
       /\ res = 0 /\ claim = 0 /\ prepared = 0 /\ done = 0 /\ reclaims = 0
       /\ refs = 0 /\ tree = 0 /\ owner = 0 /\ rev = 0 /\ cmd = 0
       /\ receipt = 0 /\ retired = 0 /\ outcome = 0 /\ touched = 0
       /\ state = 0 /\ hist = 0 /\ att = 0 /\ repairs = 0 /\ reqs = 0
       /\ cand = 0 /\ ctl = 0 /\ remote = 0 /\ runner = 0 /\ rec = 0
       /\ life = 0 /\ group = 0 /\ pipes = 0 /\ monitor = 0 /\ ctx = 0
       /\ terminated = 0 /\ clean = 0 /\ closer = 0 /\ source = 0 /\ runs = 0
       /\ entry = 0 /\ claims = 0 /\ open = 0 /\ exh = 0 /\ epoch = 0
       /\ recs = 0 /\ edits = 0 /\ latch = 0 /\ stopped = 0 /\ allowed = 0
       /\ run = 0 /\ memo = 0 /\ req = 0 /\ authed = 0
    \/ /\ which = "checkpoint" /\ Checkpoint!Init
       /\ starts = 0 /\ project = 0 /\ shown = 0 /\ ticket = 0 /\ slots = 0
       /\ writer = 0 /\ begun = 0 /\ tip = 0 /\ pr = 0 /\ pub = 0 /\ busy = 0
       /\ moved = 0 /\ reg = 0 /\ proofs = 0 /\ res = 0 /\ claim = 0
       /\ prepared = 0 /\ done = 0 /\ refs = 0 /\ lease = 0 /\ disk = 0
       /\ state = 0 /\ hist = 0 /\ att = 0 /\ repairs = 0 /\ reqs = 0
       /\ cand = 0 /\ ctl = 0 /\ remote = 0 /\ runner = 0 /\ rec = 0
       /\ life = 0 /\ group = 0 /\ pipes = 0 /\ monitor = 0 /\ ctx = 0
       /\ terminated = 0 /\ clean = 0 /\ closer = 0 /\ source = 0 /\ runs = 0
       /\ entry = 0 /\ claims = 0 /\ open = 0 /\ exh = 0 /\ epoch = 0
       /\ recs = 0 /\ edits = 0 /\ latch = 0 /\ stopped = 0 /\ allowed = 0
       /\ run = 0 /\ memo = 0 /\ req = 0 /\ authed = 0
    \/ /\ which = "repair" /\ Repair!Init
       /\ starts = 0 /\ project = 0 /\ shown = 0 /\ ticket = 0 /\ slots = 0
       /\ writer = 0 /\ begun = 0 /\ tip = 0 /\ pr = 0 /\ pub = 0 /\ busy = 0
       /\ moved = 0 /\ reg = 0 /\ proofs = 0 /\ res = 0 /\ claim = 0
       /\ prepared = 0 /\ done = 0 /\ reclaims = 0 /\ refs = 0 /\ intent = 0
       /\ lease = 0 /\ disk = 0 /\ owner = 0 /\ receipt = 0 /\ retired = 0
       /\ outcome = 0 /\ touched = 0 /\ ctl = 0 /\ remote = 0 /\ runner = 0
       /\ rec = 0 /\ life = 0 /\ group = 0 /\ pipes = 0 /\ monitor = 0
       /\ ctx = 0 /\ terminated = 0 /\ clean = 0 /\ closer = 0 /\ source = 0
       /\ runs = 0 /\ entry = 0 /\ claims = 0 /\ open = 0 /\ exh = 0
       /\ epoch = 0 /\ recs = 0 /\ edits = 0 /\ latch = 0 /\ stopped = 0
       /\ allowed = 0 /\ run = 0 /\ memo = 0 /\ req = 0 /\ authed = 0
    \/ /\ which = "source" /\ Source!Init
       /\ starts = 0 /\ project = 0 /\ shown = 0 /\ ticket = 0 /\ slots = 0
       /\ writer = 0 /\ begun = 0 /\ tip = 0 /\ pr = 0 /\ pub = 0 /\ busy = 0
       /\ moved = 0 /\ reg = 0 /\ proofs = 0 /\ res = 0 /\ claim = 0
       /\ prepared = 0 /\ done = 0 /\ reclaims = 0 /\ refs = 0 /\ intent = 0
       /\ lease = 0 /\ disk = 0 /\ owner = 0 /\ receipt = 0 /\ retired = 0
       /\ outcome = 0 /\ touched = 0 /\ repairs = 0 /\ reqs = 0 /\ runner = 0
       /\ rec = 0 /\ life = 0 /\ group = 0 /\ pipes = 0 /\ monitor = 0
       /\ ctx = 0 /\ terminated = 0 /\ clean = 0 /\ closer = 0 /\ source = 0
       /\ runs = 0 /\ entry = 0 /\ claims = 0 /\ open = 0 /\ exh = 0
       /\ epoch = 0 /\ recs = 0 /\ edits = 0 /\ latch = 0 /\ stopped = 0
       /\ allowed = 0 /\ run = 0 /\ memo = 0 /\ req = 0 /\ authed = 0
    \/ /\ which = "gh" /\ Gh!Init
       /\ starts = 0 /\ up = 0 /\ project = 0 /\ shown = 0 /\ ticket = 0
       /\ slots = 0 /\ writer = 0 /\ begun = 0 /\ tip = 0 /\ pr = 0
       /\ pub = 0 /\ busy = 0 /\ leader = 0 /\ moved = 0 /\ reg = 0
       /\ res = 0 /\ eff = 0 /\ claim = 0 /\ prepared = 0 /\ done = 0
       /\ reclaims = 0 /\ refs = 0 /\ tree = 0 /\ intent = 0 /\ lease = 0
       /\ disk = 0 /\ owner = 0 /\ rev = 0 /\ cmd = 0 /\ receipt = 0
       /\ retired = 0 /\ outcome = 0 /\ touched = 0 /\ state = 0 /\ hist = 0
       /\ att = 0 /\ repairs = 0 /\ reqs = 0 /\ cand = 0 /\ ctl = 0
       /\ remote = 0 /\ entry = 0 /\ claims = 0 /\ open = 0 /\ exh = 0
       /\ epoch = 0 /\ recs = 0 /\ edits = 0 /\ latch = 0 /\ stopped = 0
       /\ allowed = 0 /\ run = 0 /\ memo = 0 /\ req = 0 /\ authed = 0
    \/ /\ which = "retry" /\ Retry!Init
       /\ project = 0 /\ shown = 0 /\ slots = 0 /\ writer = 0 /\ begun = 0
       /\ tip = 0 /\ pr = 0 /\ pub = 0 /\ busy = 0 /\ leader = 0 /\ moved = 0
       /\ reg = 0 /\ proofs = 0 /\ res = 0 /\ eff = 0 /\ claim = 0
       /\ prepared = 0 /\ done = 0 /\ reclaims = 0 /\ refs = 0 /\ job = 0
       /\ intent = 0 /\ lease = 0 /\ disk = 0 /\ owner = 0 /\ rev = 0
       /\ cmd = 0 /\ receipt = 0 /\ retired = 0 /\ outcome = 0 /\ touched = 0
       /\ state = 0 /\ hist = 0 /\ att = 0 /\ repairs = 0 /\ reqs = 0
       /\ cand = 0 /\ remote = 0 /\ runner = 0 /\ rec = 0 /\ life = 0
       /\ group = 0 /\ pipes = 0 /\ monitor = 0 /\ ctx = 0 /\ terminated = 0
       /\ clean = 0 /\ closer = 0 /\ source = 0 /\ runs = 0

Next ==
    /\ UNCHANGED which
    /\ \/ which = "capacity" /\ Capacity!Next /\ UNCHANGED not_capacity
       \/ which = "refresh" /\ Refresh!Next /\ UNCHANGED not_refresh
       \/ which = "worktree" /\ Worktree!Next /\ UNCHANGED not_worktree
       \/ which = "checkpoint" /\ Checkpoint!Next /\ UNCHANGED not_checkpoint
       \/ which = "repair" /\ Repair!Next /\ UNCHANGED not_repair
       \/ which = "source" /\ Source!Next /\ UNCHANGED not_source
       \/ which = "gh" /\ Gh!Next /\ UNCHANGED not_gh
       \/ which = "retry" /\ Retry!Next /\ UNCHANGED not_retry

Spec == Init /\ [][Next]_<<which, all>>

SlotsMatchTickets == which = "capacity" => Capacity!SlotsMatchTickets
CheckpointIsReviewed == which = "checkpoint" => Checkpoint!CheckpointIsReviewed
CandidateIsCurrent == which = "repair" => Repair!CandidateIsCurrent
SourceIsReviewed == which = "source" => Source!SourceIsReviewed
DrainIsProved == which = "gh" => Gh!DrainIsProved
RetryIsAuthenticated == which = "retry" => Retry!RetryIsAuthenticated

\* The ticket has one checkout and it is accounted for: created once, and moved to
\* a new base only as the durable refresh says.
CheckoutIsAccounted ==
    /\ which = "refresh" => Refresh!CheckoutIsAccounted
    /\ which = "worktree" => Worktree!OneCreation

\* After any crash the start and the next tick find work for what was under way
\* (a reserved refresh, a creation without an answer, a checkpoint, a repair, a
\* source, a paid retry),
\* except where the component's module says that the code has no way back.
RestartIsServed ==
    /\ which = "refresh" => Refresh!ReservedIsResumable
    /\ which = "worktree" => Worktree!LostIsResolved
    /\ which = "checkpoint" => Checkpoint!CheckpointIsResumable
    /\ which = "repair" => Repair!RepairIsResumable
    /\ which = "source" => Source!SourceIsResumable
    /\ which = "retry" => Retry!RetryIsServed
===============================================================================
