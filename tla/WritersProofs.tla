--------------------------- MODULE WritersProofs ---------------------------
(***************************************************************************)
(* Theorems about Writers, for every number of tickets, daemons and        *)
(* fences and every subset of the faults.                                  *)
(***************************************************************************)
EXTENDS Writers, FiniteSetTheorems, TLAPS

(***************************************************************************)
(* Types                                                                   *)
(***************************************************************************)
TkSet == [st : {"run", "stopping", "paused"}, f : Fences]
Pcs   == {"idle", "planned", "issued", "waiting", "leased", "gated", "recorded", "checked",
          "running", "reaped", "observed", "unobserved", "marked", "staged", "prepared",
          "release", "observe", "settle"}
JobSet  == [pc : Pcs, n : Fences, ctx : BOOLEAN, step : {"stage", "ref"},
            out : {"ok", "red", "limit", "error"}]
ProcSet == [st : {"gone", "gated", "live", "stray"}, n : Fences, step : {"stage", "ref"}]
Ups     == {"down", "git", "unleased", "commands", "effects", "commits", "serving"}

Typed ==
    /\ tk \in [Tickets -> TkSet]
    /\ leader \in 1 .. MaxLeader
    /\ row \in [Tickets -> [Fences -> RowSet]]
    /\ lease \in [Kinds -> SUBSET LeaseSet]
    /\ prov \in BOOLEAN
    /\ up \in Ups
    /\ job \in [Tickets -> JobSet]
    /\ proc \in [Tickets -> ProcSet]
    /\ head \in [Tickets -> 0 .. MaxFence]

(***************************************************************************)
(* The inductive invariant.  A process group that may write is covered by  *)
(* a lease of its own claim that says so, there is at most one lease in    *)
(* the two tables, and none beside a provider attempt.  The rest says what *)
(* each line of a job relies on: its lease, its process, its row.          *)
(***************************************************************************)
Holding  == {"leased", "gated", "recorded", "checked", "running", "reaped", "observed",
             "unobserved", "marked", "staged", "prepared", "release"}
Behind   == {"gated", "recorded", "checked"}
Released == {"recorded", "checked", "running"}
Silent   == {"leased", "reaped", "observed", "staged", "prepared", "release", "observe"}
Early    == {"planned", "issued", "waiting"}
Claimed  == {"issued", "waiting", "leased", "gated", "recorded", "checked", "running", "reaped",
             "staged", "prepared"}

\* Every start to come has a fence left for it.
Room ==
    \A t \in Tickets :
        tk[t].f + (MaxLeader - leader) + (IF up \in {"down", "serving"} THEN 0 ELSE 1) <= MaxFence

Alone ==
    /\ \A k \in Kinds : \A l \in lease[k] : Kind[l.t] = k
    /\ \A k, j \in Kinds : \A l \in lease[k], m \in lease[j] : l = m
    /\ prov => \A k \in Kinds : lease[k] = {}

\* The lease of the claim n of t.
Covers(l, t, n) == l.t = t /\ l.n = n

JobLeased(t) ==
    job[t].pc \in Holding =>
        \E l \in lease[Kind[t]] : /\ Covers(l, t, job[t].n)
                                  /\ job[t].pc \in Released => l.launch = "released" /\ l.id

GroupLeased(t) ==
    Running(t) =>
        \E l \in lease[Kind[t]] : /\ Covers(l, t, proc[t].n)
                                  /\ l.launch \in {"released", "quarantined"} /\ l.id

JobOK(t) ==
    /\ up # "serving" => job[t].pc = "idle"
    /\ job[t].pc \in Claimed => R(t).st = "executing" /\ R(t).intent
    /\ job[t].pc = "planned" => R(t).st \in {"planned", "failed"}
    /\ job[t].pc = "observed" => Kind[t] = "command"
    /\ job[t].pc \in {"staged", "prepared", "observe", "settle"} => Kind[t] = "commit"
    /\ job[t].step = "ref" => job[t].pc # "idle" /\ Kind[t] = "commit" /\ R(t).prep

GroupOK(t) ==
    /\ proc[t].st = "gated" => job[t].pc \in Behind
    /\ job[t].pc \in Behind => proc[t].st = "gated" /\ proc[t].n = job[t].n
    /\ job[t].pc \in Silent => proc[t].st = "gone"
    /\ Kind[t] = "commit" /\ up \notin {"down", "git"} /\ Running(t) => job[t].pc = "running"
    /\ Running(t) => row[t][proc[t].n].st \in Unsettled
    /\ job[t].pc \in Early /\ Running(t) => proc[t].n # job[t].n
    /\ proc[t].st # "gone" /\ proc[t].step = "ref" =>
          Kind[t] = "commit" /\ row[t][proc[t].n].prep /\ row[t][proc[t].n].intent

HeadOK(t) ==
    head[t] # 0 =>
        /\ Kind[t] = "commit"
        /\ row[t][head[t]].prep /\ row[t][head[t]].intent
        /\ row[t][head[t]].st \in Unsettled \cup {"confirmed"}

Local(t) == JobLeased(t) /\ GroupLeased(t) /\ JobOK(t) /\ GroupOK(t) /\ HeadOK(t)

Inv == Typed /\ Room /\ Alone /\ \A t \in Tickets : Local(t)

-----------------------------------------------------------------------------
(* What the writes of an action come to *)

LEMMA Consts ==
    /\ Kind \in [Tickets -> Kinds]
    /\ MaxFence \in Nat /\ MaxFence >= 1
    /\ MaxLeader \in Nat /\ MaxLeader >= 1
    /\ MaxLeader <= MaxFence
    /\ 1 \in Fences
  BY WriterAssumption DEF Fences

\* The job of t is at pc, doing step; the other jobs are where they were.
JobAt(t, pc, step) ==
    /\ job' \in [Tickets -> JobSet]
    /\ job'[t].pc = pc /\ job'[t].n = job[t].n /\ job'[t].step = step
    /\ \A u \in Tickets \ {t} : job'[u] = job[u]

LEMMA GotoIs ==
  ASSUME Typed, NEW t \in Tickets, NEW pc \in Pcs, Goto(t, pc)
  PROVE  JobAt(t, pc, job[t].step) /\ job'[t].out = job[t].out
  <1>1. job[t] \in JobSet
    BY DEF Typed
  <1>2. [job[t] EXCEPT !.pc = pc] \in JobSet
    BY <1>1 DEF JobSet
  <1>3. job'[t] = [job[t] EXCEPT !.pc = pc]
    BY DEF Typed, Goto
  <1>4. job' \in [Tickets -> JobSet]
    BY <1>2 DEF Typed, Goto
  <1> QED
    BY <1>1, <1>3, <1>4 DEF Typed, Goto, JobAt, JobSet

LEMMA FailIs ==
  ASSUME Typed, NEW t \in Tickets, NEW pc \in Pcs, Fail(t, pc)
  PROVE  JobAt(t, pc, job[t].step) /\ job'[t].out = "error"
  <1>1. job[t] \in JobSet
    BY DEF Typed
  <1>2. [job[t] EXCEPT !.pc = pc, !.out = "error"] \in JobSet
    BY <1>1 DEF JobSet
  <1>3. job'[t] = [job[t] EXCEPT !.pc = pc, !.out = "error"]
    BY DEF Typed, Fail
  <1>4. job' \in [Tickets -> JobSet]
    BY <1>2 DEF Typed, Fail
  <1> QED
    BY <1>1, <1>3, <1>4 DEF Typed, Fail, JobAt, JobSet

\* The call of t has returned.
JobDone(t) ==
    /\ job' \in [Tickets -> JobSet]
    /\ job'[t] = NoJob
    /\ \A u \in Tickets \ {t} : job'[u] = job[u]

LEMMA NoJobIs == NoJob \in JobSet /\ NoJob.pc = "idle" /\ NoJob.step = "stage"
  BY Consts DEF NoJob, JobSet, Pcs

LEMMA DoneIs ==
  ASSUME Typed, NEW t \in Tickets, Done(t)
  PROVE  JobDone(t)
  BY NoJobIs DEF Typed, Done, JobDone

\* The row of the claim n of t becomes r; the other rows stay.
RowAt(t, n, r) ==
    /\ row' \in [Tickets -> [Fences -> RowSet]]
    /\ row'[t][n] = r
    /\ \A m \in Fences \ {n} : row'[t][m] = row[t][m]
    /\ \A u \in Tickets \ {t} : row'[u] = row[u]

LEMMA RowIs ==
  ASSUME Typed, NEW t \in Tickets, NEW n \in Fences, NEW r \in RowSet,
         row' = [row EXCEPT ![t][n] = r]
  PROVE  RowAt(t, n, r)
  <1>1. row[t] \in [Fences -> RowSet]
    BY DEF Typed
  <1>2. [row[t] EXCEPT ![n] = r] \in [Fences -> RowSet]
    BY <1>1
  <1>3. row'[t] = [row[t] EXCEPT ![n] = r]
    BY DEF Typed
  <1>4. row' \in [Tickets -> [Fences -> RowSet]]
    BY <1>2 DEF Typed
  <1> QED
    BY <1>1, <1>3, <1>4 DEF Typed, RowAt

\* The group of t is in state st, of the claim and step that started it.
GroupAt(t, st) ==
    /\ proc' \in [Tickets -> ProcSet]
    /\ proc'[t].st = st
    /\ st # "gone" => proc'[t].n = proc[t].n /\ proc'[t].step = proc[t].step
    /\ \A u \in Tickets \ {t} : proc'[u] = proc[u]

LEMMA NoProcIs == NoProc \in ProcSet /\ NoProc.st = "gone"
  BY Consts DEF NoProc, ProcSet

LEMMA GroupIs ==
  ASSUME Typed, NEW t \in Tickets, NEW st \in {"gone", "gated", "live", "stray"}, Group(t, st)
  PROVE  GroupAt(t, st)
  <1>1. proc[t] \in ProcSet
    BY DEF Typed
  <1>2. [proc[t] EXCEPT !.st = st] \in ProcSet
    BY <1>1 DEF ProcSet
  <1>3. proc'[t] = IF st = "gone" THEN NoProc ELSE [proc[t] EXCEPT !.st = st]
    BY DEF Typed, Group
  <1>4. proc'[t] \in ProcSet
    BY <1>2, <1>3, NoProcIs
  <1>5. proc' \in [Tickets -> ProcSet] /\ \A u \in Tickets \ {t} : proc'[u] = proc[u]
    BY <1>3, <1>4 DEF Typed, Group
  <1>6. CASE st = "gone"
    BY <1>3, <1>5, <1>6, NoProcIs DEF GroupAt
  <1>7. CASE st # "gone"
    BY <1>1, <1>3, <1>5, <1>7 DEF GroupAt, ProcSet
  <1> QED
    BY <1>6, <1>7

\* A row settled or retired keeps its shape.
LEMMA RowForms ==
  ASSUME NEW r \in RowSet, NEW st \in {"planned", "uncertain", "confirmed", "failed"}
  PROVE  /\ Settled(r, st) \in RowSet
         /\ Settled(r, st).st = st
         /\ Settled(r, st).intent = r.intent /\ Settled(r, st).prep = r.prep
         /\ Retired(r) \in RowSet
         /\ Retired(r).st = "failed"
  BY DEF RowSet, Settled, Retired

\* Neither does a lease that is quarantined or records a launch change hands.
LEMMA LeaseForms ==
  ASSUME NEW l \in LeaseSet
  PROVE  /\ Quarantined(l) \in LeaseSet
         /\ Quarantined(l).t = l.t /\ Quarantined(l).n = l.n /\ Quarantined(l).id = l.id
         /\ l.launch \in {"released", "quarantined"} => Quarantined(l).launch = "quarantined"
         /\ \A a \in {"released", "drained"} :
               /\ Launched(l, a) \in LeaseSet
               /\ Launched(l, a).t = l.t /\ Launched(l, a).n = l.n
               /\ Launched(l, a).launch = a
         /\ Launched(l, "released").id
  <1>1. Quarantined(l) \in LeaseSet
    BY DEF LeaseSet, Quarantined
  <1>2. /\ Quarantined(l).t = l.t /\ Quarantined(l).n = l.n /\ Quarantined(l).id = l.id
        /\ l.launch \in {"released", "quarantined"} => Quarantined(l).launch = "quarantined"
    BY DEF LeaseSet, Quarantined
  <1>3. ASSUME NEW a \in {"released", "drained"}
        PROVE  /\ Launched(l, a) \in LeaseSet
               /\ Launched(l, a).t = l.t /\ Launched(l, a).n = l.n
               /\ Launched(l, a).launch = a
    <2>1. PICK b \in BOOLEAN : b = (l.id \/ a = "released")
      OBVIOUS
    <2>2. Launched(l, a) = [t |-> l.t, n |-> l.n, st |-> l.st, launch |-> a, id |-> b]
      BY <2>1, Zenon DEF Launched
    <2> QED
      BY <2>2 DEF LeaseSet
  <1>4. Launched(l, "released").id
    <2>1. (l.id \/ "released" = "released") = TRUE
      OBVIOUS
    <2>2. Launched(l, "released") = [t |-> l.t, n |-> l.n, st |-> l.st, launch |-> "released", id |-> TRUE]
      BY <2>1, Zenon DEF Launched
    <2>3. Launched(l, "released").id = TRUE
      BY <2>2
    <2> QED
      BY <2>3, Zenon
  <1> QED
    BY <1>1, <1>2, <1>3, <1>4

-----------------------------------------------------------------------------
(* Frames *)

\* A claim that holds the repository has the only lease, and no provider runs.
LEMMA Held ==
  ASSUME Inv, NEW t \in Tickets, job[t].pc \in Holding
  PROVE  \E l \in LeaseSet :
            /\ lease[Kind[t]] = {l} /\ Mine(t) = {l}
            /\ Covers(l, t, job[t].n)
            /\ job[t].pc \in Released => l.launch = "released" /\ l.id
            /\ \A k \in Kinds \ {Kind[t]} : lease[k] = {}
            /\ ~prov
  <1>1. PICK l \in lease[Kind[t]] :
            Covers(l, t, job[t].n) /\ (job[t].pc \in Released => l.launch = "released" /\ l.id)
    BY DEF Inv, Local, JobLeased
  <1>2. Kind[t] \in Kinds
    BY Consts
  <1>3. lease[Kind[t]] \in SUBSET LeaseSet
    BY <1>2 DEF Inv, Typed
  <1>4. lease[Kind[t]] = {l}
    BY <1>1, <1>2 DEF Inv, Alone
  <1>5. Mine(t) = {l}
    BY <1>1, <1>4 DEF Mine, Covers
  <1>6. ASSUME NEW k \in Kinds \ {Kind[t]} PROVE lease[k] = {}
    <2>1. ASSUME NEW m \in lease[k] PROVE FALSE
      BY <1>1, <1>2, <2>1 DEF Inv, Alone
    <2> QED
      BY <2>1
  <1>7. ~prov
    BY <1>1, <1>2 DEF Inv, Alone
  <1> QED
    BY <1>1, <1>3, <1>4, <1>5, <1>6, <1>7

\* While a claim of t holds the repository, or none does, no other ticket has a
\* claim that relies on a lease.
LEMMA NoNeed ==
  ASSUME Inv, NEW t \in Tickets, NEW u \in Tickets \ {t},
         job[t].pc \in Holding \/ ~HasWriter
  PROVE  job[u].pc \notin Holding /\ ~Running(u)
  <1>1. Kind[t] \in Kinds /\ Kind[u] \in Kinds
    BY Consts
  <1>2. \A l \in lease[Kind[u]] : l.t # u
    <2>1. CASE job[t].pc \in Holding
      <3>1. PICK l \in lease[Kind[t]] : l.t = t
        BY <2>1 DEF Inv, Local, JobLeased, Covers
      <3> QED
        BY <1>1, <3>1 DEF Inv, Alone
    <2>2. CASE ~HasWriter
      BY <1>1, <2>2 DEF HasWriter
    <2> QED
      BY <2>1, <2>2
  <1> QED
    BY <1>2 DEF Inv, Local, JobLeased, GroupLeased, Covers

\* What is known of a ticket depends on its own variables and its lease alone.
LEMMA LocalFrame ==
  ASSUME Inv, NEW u \in Tickets,
         job'[u] = job[u], proc'[u] = proc[u], row'[u] = row[u], head'[u] = head[u],
         up' = up,
         lease' = lease \/ (job[u].pc \notin Holding /\ ~Running(u))
  PROVE  Local(u)'
  <1>1. Local(u)
    BY DEF Inv
  <1>2. Running(u)' <=> Running(u)
    BY DEF Running
  <1>3. JobLeased(u)'
    BY <1>1 DEF Local, JobLeased, Covers
  <1>4. GroupLeased(u)'
    BY <1>1, <1>2 DEF Local, GroupLeased, Covers
  <1>5. JobOK(u)'
    BY <1>1 DEF Local, JobOK, R
  <1>6. GroupOK(u)'
    BY <1>1, <1>2 DEF Local, GroupOK
  <1>7. HeadOK(u)'
    BY <1>1 DEF Local, HeadOK
  <1> QED
    BY <1>3, <1>4, <1>5, <1>6, <1>7 DEF Local

\* A step of t leaves the variables of the other tickets alone.
Beside(t) ==
    /\ job' \in [Tickets -> JobSet] /\ proc' \in [Tickets -> ProcSet]
    /\ row' \in [Tickets -> [Fences -> RowSet]] /\ head' \in [Tickets -> 0 .. MaxFence]
    /\ \A u \in Tickets \ {t} : /\ job'[u] = job[u] /\ proc'[u] = proc[u]
                                /\ row'[u] = row[u] /\ head'[u] = head[u]

LEMMA KeepLease ==
  ASSUME Inv, NEW t \in Tickets, Beside(t), Local(t)',
         UNCHANGED <<tk, leader, lease, prov, up>>
  PROVE  Inv'
  <1>1. \A u \in Tickets \ {t} : Local(u)'
    BY LocalFrame DEF Beside
  <1>2. Typed'
    BY DEF Inv, Typed, Beside
  <1>3. Room' /\ Alone'
    BY DEF Inv, Room, Alone
  <1> QED
    BY <1>1, <1>2, <1>3 DEF Inv

LEMMA NewLease ==
  ASSUME Inv, NEW t \in Tickets, Beside(t), Local(t)',
         UNCHANGED <<tk, leader, prov, up>>,
         NEW S \in SUBSET LeaseSet, lease' = [lease EXCEPT ![Kind[t]] = S],
         \A l \in S : l.t = t, \A l, m \in S : l = m,
         job[t].pc \in Holding \/ ~HasWriter
  PROVE  Inv'
  <1>1. \A u \in Tickets \ {t} : Local(u)'
    BY LocalFrame, NoNeed DEF Beside
  <1>2. Kind[t] \in Kinds
    BY Consts
  <1>3. /\ lease' \in [Kinds -> SUBSET LeaseSet]
        /\ lease'[Kind[t]] = S
        /\ \A k \in Kinds \ {Kind[t]} : lease'[k] = lease[k]
    BY <1>2 DEF Inv, Typed
  <1>4. Typed'
    BY <1>3 DEF Inv, Typed, Beside
  <1>5. \A k \in Kinds \ {Kind[t]} : lease'[k] = {}
    BY <1>2, <1>3, Held DEF HasWriter
  <1>6. ~prov'
    BY Held DEF HasWriter
  <1>7. Alone'
    BY <1>2, <1>3, <1>5, <1>6 DEF Alone
  <1>8. Room'
    BY DEF Inv, Room
  <1> QED
    BY <1>1, <1>4, <1>7, <1>8 DEF Inv

-----------------------------------------------------------------------------
(* The steps of a call that leave the leases alone *)

LEMMA Facts ==
  ASSUME Inv, NEW t \in Tickets
  PROVE  /\ Typed /\ Local(t) /\ Kind[t] \in Kinds
         /\ job[t] \in JobSet /\ job[t].n \in Fences /\ job[t].pc \in Pcs
         /\ proc[t] \in ProcSet /\ proc[t].n \in Fences
         /\ R(t) \in RowSet /\ \A n \in Fences : row[t][n] \in RowSet
         /\ tk[t].f \in Fences
         /\ head[t] \in 0 .. MaxFence
         /\ \A n \in 0 .. MaxFence : n # 0 => n \in Fences
  <1>1. Typed /\ Local(t) /\ Kind[t] \in Kinds
    BY Consts DEF Inv
  <1>2. job[t] \in JobSet /\ proc[t] \in ProcSet /\ tk[t] \in TkSet
    BY <1>1 DEF Typed
  <1>3. job[t].n \in Fences /\ job[t].pc \in Pcs /\ proc[t].n \in Fences /\ tk[t].f \in Fences
    BY <1>2 DEF JobSet, ProcSet, TkSet
  <1>4. R(t) \in RowSet /\ \A n \in Fences : row[t][n] \in RowSet
    BY <1>1, <1>3 DEF Typed, R
  <1>5. head[t] \in 0 .. MaxFence /\ \A n \in 0 .. MaxFence : n # 0 => n \in Fences
    BY <1>1, Consts DEF Typed, Fences
  <1> QED
    BY <1>1, <1>2, <1>3, <1>4, <1>5

LEMMA PlanStep ==
  ASSUME Inv, NEW t \in Tickets, PlanEffect(t) PROVE Inv'
  <1> DEFINE n == tk[t].f
             r == IF row[t][n].st = "none" THEN Settled(row[t][n], "planned") ELSE row[t][n]
             j == [NoJob EXCEPT !.pc = "planned", !.n = n]
  <1>1. r \in RowSet /\ r.st \in {"planned", "failed"} /\ r.intent = row[t][n].intent
          /\ r.prep = row[t][n].prep
    BY Facts, RowForms DEF PlanEffect
  <1>2. RowAt(t, n, r)
    BY <1>1, Facts, RowIs DEF PlanEffect
  <1>3. j \in JobSet /\ j.pc = "planned" /\ j.n = n /\ j.step = "stage"
    BY Facts DEF NoJob, JobSet, Pcs
  <1>4. job' = [job EXCEPT ![t] = j]
    BY DEF PlanEffect
  <1> HIDE DEF j, r
  <1>5. job' \in [Tickets -> JobSet] /\ job'[t] = j /\ \A u \in Tickets \ {t} : job'[u] = job[u]
    BY <1>3, <1>4, Facts DEF Typed
  <1>6. Beside(t)
    BY <1>2, <1>5, Facts DEF Beside, RowAt, PlanEffect, world, Typed
  <1>7. up = "serving" /\ job[t].pc = "idle" /\ row[t][n].st \in {"none", "planned", "failed"}
    BY DEF PlanEffect
  <1>8. UNCHANGED <<tk, leader, lease, prov, up, proc, head>>
    BY DEF PlanEffect, world
  <1>9. Local(t)'
    <2>1. JobLeased(t)' /\ GroupLeased(t)'
      BY <1>3, <1>5, <1>8, Facts DEF Local, JobLeased, GroupLeased, Covers, Running, Holding
    <2>2. JobOK(t)'
      BY <1>1, <1>2, <1>3, <1>5, <1>7, <1>8, Facts DEF Local, JobOK, R, RowAt, Claimed
    <2>3. GroupOK(t)'
      <3>1. Running(t) => proc[t].n # n
        BY <1>7, Facts DEF Local, GroupOK, Unsettled
      <3>2. Running(t) => row'[t][proc[t].n] = row[t][proc[t].n]
        BY <1>2, <3>1, Facts DEF RowAt
      <3>3. Running(t)' = Running(t) /\ proc' = proc /\ up' = up
        BY <1>8 DEF Running
      <3>4. job'[t].pc = "planned" /\ job'[t].n = n
        BY <1>3, <1>5
      <3>5. proc[t].st # "gone" => Running(t)
        BY <1>7, Facts DEF Local, GroupOK, Behind, ProcSet, Running
      <3> QED
        BY <1>7, <3>1, <3>2, <3>3, <3>4, <3>5, Facts
           DEF Local, GroupOK, Behind, Silent, Early
    <2>4. HeadOK(t)'
      <3>1. CASE head[t] = 0
        BY <1>8, <3>1 DEF HeadOK
      <3>2. CASE head[t] # 0
        <4>1. head[t] \in Fences /\ HeadOK(t)
          BY <3>2, Facts DEF Local
        <4>2. head[t] # n
          BY <1>7, <3>2, <4>1 DEF HeadOK, Unsettled
        <4>3. row'[t][head[t]] = row[t][head[t]]
          BY <1>2, <4>1, <4>2 DEF RowAt
        <4> QED
          BY <1>8, <3>2, <4>1, <4>3 DEF HeadOK
      <3> QED
        BY <3>1, <3>2
    <2> QED
      BY <2>1, <2>2, <2>3, <2>4 DEF Local
  <1> QED
    BY <1>6, <1>8, <1>9, KeepLease

LEMMA IssueStep ==
  ASSUME Inv, NEW t \in Tickets, Issue(t) PROVE Inv'
  <1> DEFINE n == job[t].n
             r == [st |-> "executing", ld |-> leader, intent |-> TRUE,
                   prep |-> R(t).prep, res |-> R(t).res]
  <1>1. job[t].pc = "planned" /\ UNCHANGED <<tk, leader, lease, prov, up, proc, head>>
    BY DEF Issue, world
  <1>2. CASE Fresh(t) /\ (Kind[t] = "command" => ~R(t).intent)
    <2>1. r \in RowSet /\ r.st = "executing" /\ r.intent = TRUE /\ r.prep = row[t][n].prep
      BY Facts DEF Inv, Typed, RowSet, R
    <2>2. RowAt(t, n, r)
      BY <1>2, <2>1, Facts, RowIs DEF Issue, SetRow
    <2> HIDE DEF r
    <2>3. JobAt(t, "issued", job[t].step)
      BY <1>2, Facts, GotoIs DEF Issue, Pcs
    <2>4. Beside(t)
      BY <1>1, <2>2, <2>3, Facts DEF Beside, RowAt, JobAt, Typed
    <2>5. JobLeased(t)' /\ GroupLeased(t)'
      BY <1>1, <2>3, Facts DEF Local, JobLeased, GroupLeased, Covers, Running, Holding, JobAt
    <2>6. JobOK(t)'
      BY SMTT(30), <1>1, <2>1, <2>2, <2>3, Facts DEF Local, JobOK, R, RowAt, JobAt, Claimed
    <2>7. GroupOK(t)'
      BY SMTT(30), <1>1, <2>1, <2>2, <2>3, Facts
         DEF Local, GroupOK, RowAt, JobAt, Running, Unsettled, Behind, Silent, Early
    <2>8. HeadOK(t)'
      BY <1>1, <2>1, <2>2, Facts DEF Local, HeadOK, RowAt, Unsettled
    <2> QED
      BY <1>1, <2>4, <2>5, <2>6, <2>7, <2>8, KeepLease DEF Local
  <1>3. CASE ~(Fresh(t) /\ (Kind[t] = "command" => ~R(t).intent))
    <2>1. JobDone(t) /\ row' = row
      BY <1>3, Facts, DoneIs DEF Issue
    <2>2. Beside(t)
      BY <1>1, <2>1, Facts DEF Beside, JobDone, Typed
    <2>3. Local(t)'
      BY <1>1, <2>1, Facts, NoJobIs
         DEF Local, JobLeased, GroupLeased, JobOK, GroupOK, HeadOK, R, Covers, Running, JobDone,
             Holding, Claimed, Behind, Silent, Early
    <2> QED
      BY <1>1, <2>2, <2>3, KeepLease
  <1> QED
    BY <1>2, <1>3

LEMMA ContendStep ==
  ASSUME Inv, NEW t \in Tickets, Contend(t) PROVE Inv'
  <1>1. job[t].pc = "issued" /\ UNCHANGED <<tk, leader, row, lease, prov, up, proc, head>>
    BY DEF Contend, durable, world
  <1>2. JobAt(t, "waiting", job[t].step)
    BY Facts, GotoIs DEF Contend, Pcs
  <1>3. Beside(t)
    BY <1>1, <1>2, Facts DEF Beside, JobAt, Typed
  <1>4. Local(t)'
    BY SMTT(30), <1>1, <1>2, Facts
       DEF Local, JobLeased, GroupLeased, JobOK, GroupOK, HeadOK, R, Covers, Running, JobAt,
           Holding, Claimed, Behind, Silent, Early
  <1> QED
    BY <1>1, <1>3, <1>4, KeepLease

LEMMA RetireUnleasedStep ==
  ASSUME Inv, NEW t \in Tickets, RetireUnleased(t) PROVE Inv'
  <1>1. /\ job[t].pc \in {"issued", "waiting"} /\ Kind[t] = "command"
        /\ UNCHANGED <<tk, leader, lease, prov, up, proc, head>>
    BY DEF RetireUnleased, Leaseless, world
  <1>2. RowAt(t, job[t].n, Retired(R(t))) /\ Retired(R(t)).st = "failed"
    BY Facts, RowForms, RowIs DEF RetireUnleased, SetRow
  <1>3. JobDone(t)
    BY Facts, DoneIs DEF RetireUnleased
  <1>4. Beside(t)
    BY <1>1, <1>2, <1>3, Facts DEF Beside, JobDone, RowAt, Typed
  <1>5. JobLeased(t)' /\ GroupLeased(t)' /\ JobOK(t)'
    BY <1>1, <1>3, Facts, NoJobIs
       DEF Local, JobLeased, GroupLeased, JobOK, Covers, Running, JobDone, Holding, Claimed
  <1>6. GroupOK(t)' /\ HeadOK(t)'
    BY <1>1, <1>2, <1>3, Facts, NoJobIs
       DEF Local, GroupOK, HeadOK, RowAt, Running, JobDone, Behind, Silent, Early
  <1> QED
    BY <1>1, <1>4, <1>5, <1>6, KeepLease DEF Local

LEMMA AcquireRefusedStep ==
  ASSUME Inv, NEW t \in Tickets, AcquireRefused(t) PROVE Inv'
  <1>1. /\ job[t].pc \in {"issued", "waiting"}
        /\ UNCHANGED <<tk, leader, row, lease, prov, up, proc, head>>
    BY DEF AcquireRefused, Acquiring, durable, world
  <1>2. JobDone(t) \/ (Kind[t] = "commit" /\ JobAt(t, "settle", job[t].step))
    BY Facts, DoneIs, FailIs DEF AcquireRefused, Pcs, Kinds
  <1>3. Beside(t)
    BY <1>1, <1>2, Facts DEF Beside, JobAt, JobDone, Typed
  <1>4. Local(t)'
    BY SMTT(30), <1>1, <1>2, Facts, NoJobIs
       DEF Local, JobLeased, GroupLeased, JobOK, GroupOK, HeadOK, R, Covers, Running, JobAt, JobDone,
           Holding, Claimed, Behind, Silent, Early
  <1> QED
    BY <1>1, <1>3, <1>4, KeepLease

LEMMA StartGatedStep ==
  ASSUME Inv, NEW t \in Tickets, StartGated(t) PROVE Inv'
  <1> DEFINE p == [st |-> "gated", n |-> job[t].n, step |-> job[t].step]
  <1>1. /\ job[t].pc \in {"leased", "prepared"}
        /\ UNCHANGED <<tk, leader, row, lease, prov, up, head>>
    BY DEF StartGated, durable
  <1>2. JobAt(t, "gated", job[t].step)
    BY Facts, GotoIs DEF StartGated, Pcs
  <1>3. p \in ProcSet /\ p.st = "gated" /\ p.n = job[t].n /\ p.step = job[t].step
    BY Facts DEF ProcSet, JobSet
  <1>4. proc' = [proc EXCEPT ![t] = p]
    BY DEF StartGated
  <1> HIDE DEF p
  <1>5. /\ proc' \in [Tickets -> ProcSet] /\ proc'[t] = p
        /\ \A u \in Tickets \ {t} : proc'[u] = proc[u]
    BY <1>3, <1>4, Facts DEF Typed
  <1>6. Beside(t)
    BY <1>1, <1>2, <1>5, Facts DEF Beside, JobAt, Typed
  <1>7. JobLeased(t)' /\ GroupLeased(t)'
    BY <1>1, <1>2, <1>3, <1>5, Facts
       DEF Local, JobLeased, GroupLeased, Covers, Running, JobAt, Holding, Released
  <1>8. JobOK(t)' /\ HeadOK(t)'
    BY <1>1, <1>2, <1>3, <1>5, Facts DEF Local, JobOK, HeadOK, R, JobAt, Claimed
  <1>9. GroupOK(t)'
    BY SMTT(30), <1>1, <1>2, <1>3, <1>5, Facts
       DEF Local, GroupOK, JobOK, R, Running, JobAt, Behind, Silent, Early, Claimed
  <1> QED
    BY <1>1, <1>6, <1>7, <1>8, <1>9, KeepLease DEF Local

LEMMA PreflightFailsStep ==
  ASSUME Inv, NEW t \in Tickets, PreflightFails(t) PROVE Inv'
  <1>1. /\ job[t].pc \in {"leased", "staged", "prepared"}
        /\ UNCHANGED <<tk, leader, row, lease, prov, up, proc, head>>
    BY DEF PreflightFails, durable, world
  <1>2. JobAt(t, "unobserved", job[t].step) \/ JobAt(t, "release", job[t].step)
    BY Facts, FailIs DEF PreflightFails, Pcs
  <1>3. Beside(t)
    BY <1>1, <1>2, Facts DEF Beside, JobAt, Typed
  <1>4. Local(t)'
    BY SMTT(30), <1>1, <1>2, Facts
       DEF Local, JobLeased, GroupLeased, JobOK, GroupOK, HeadOK, R, Covers, Running, JobAt,
           Holding, Claimed, Behind, Silent, Early, Released
  <1> QED
    BY <1>1, <1>3, <1>4, KeepLease

LEMMA OpenGateStep ==
  ASSUME Inv, NEW t \in Tickets, OpenGate(t) PROVE Inv'
  <1>1. /\ job[t].pc \in {"checked", "recorded"}
        /\ UNCHANGED <<tk, leader, row, lease, prov, up, head>>
    BY DEF OpenGate, durable
  <1>2. JobAt(t, "running", job[t].step)
    BY Facts, GotoIs DEF OpenGate, Pcs
  <1>3. GroupAt(t, "live")
    <2>1. proc' = [proc EXCEPT ![t].st = "live"]
      BY DEF OpenGate
    <2>2. Group(t, "live")
      BY <2>1, Facts DEF Group, Typed
    <2> QED
      BY <2>2, Facts, GroupIs
  <1>4. Beside(t)
    BY <1>1, <1>2, <1>3, Facts DEF Beside, JobAt, GroupAt, Typed
  <1>5. JobLeased(t)' /\ GroupLeased(t)'
    BY <1>1, <1>2, <1>3, Facts
       DEF Local, JobLeased, GroupLeased, GroupOK, Covers, Running, JobAt, GroupAt, Holding, Released, Behind
  <1>6. JobOK(t)' /\ HeadOK(t)'
    BY <1>1, <1>2, Facts DEF Local, JobOK, HeadOK, R, JobAt, Claimed
  <1>7. GroupOK(t)'
    BY <1>1, <1>2, <1>3, Facts
       DEF Local, GroupOK, JobOK, R, Running, JobAt, GroupAt, Behind, Silent, Early, Claimed, Unsettled
  <1> QED
    BY <1>1, <1>4, <1>5, <1>6, <1>7, KeepLease DEF Local

LEMMA ReapStep ==
  ASSUME Inv, NEW t \in Tickets, Reap(t) PROVE Inv'
  <1>1. /\ job[t].pc = "running"
        /\ UNCHANGED <<tk, leader, row, lease, prov, up, head>>
    BY DEF Reap, durable
  <1>2. JobAt(t, "reaped", job[t].step)
    BY Facts, GotoIs DEF Reap, Pcs
  <1>3. GroupAt(t, "gone")
    BY Facts, GroupIs DEF Reap, Kill
  <1>4. Beside(t)
    BY <1>1, <1>2, <1>3, Facts DEF Beside, JobAt, GroupAt, Typed
  <1>5. JobLeased(t)' /\ GroupLeased(t)'
    BY <1>1, <1>2, <1>3, Facts
       DEF Local, JobLeased, GroupLeased, Covers, Running, JobAt, GroupAt, Holding, Released
  <1>6. JobOK(t)' /\ HeadOK(t)'
    BY <1>1, <1>2, Facts DEF Local, JobOK, HeadOK, R, JobAt, Claimed
  <1>7. GroupOK(t)'
    BY <1>2, <1>3 DEF GroupOK, Running, JobAt, GroupAt, Behind, Silent, Early
  <1> QED
    BY <1>1, <1>4, <1>5, <1>6, <1>7, KeepLease DEF Local

LEMMA CompleteStep ==
  ASSUME Inv, NEW t \in Tickets, Complete(t) PROVE Inv'
  <1>1. /\ job[t].pc = "observed"
        /\ UNCHANGED <<tk, leader, lease, prov, up, proc, head>>
    BY DEF Complete, world
  <1>2. JobAt(t, "release", job[t].step)
    BY Facts, GotoIs DEF Complete, Pcs
  <1>3. \E r \in RowSet : RowAt(t, job[t].n, r)
    <2>1. CASE Current(t) /\ Launch(t) = {"drained"}
      <3>1. PICK st \in {"confirmed", "failed"} :
               SetRow(t, [st |-> st, ld |-> R(t).ld, intent |-> TRUE, prep |-> FALSE, res |-> TRUE])
        BY <2>1 DEF Complete
      <3>2. [st |-> st, ld |-> R(t).ld, intent |-> TRUE, prep |-> FALSE, res |-> TRUE] \in RowSet
        BY Facts DEF RowSet
      <3> QED
        BY <3>1, <3>2, Facts, RowIs DEF SetRow
    <2>2. CASE ~(Current(t) /\ Launch(t) = {"drained"})
      <3>1. SetRow(t, Settled(R(t), "failed"))
        BY <2>2 DEF Complete
      <3> QED
        BY <3>1, Facts, RowForms, RowIs DEF SetRow
    <2> QED
      BY <2>1, <2>2
  <1>4. Beside(t)
    BY <1>1, <1>2, <1>3, Facts DEF Beside, JobAt, RowAt, Typed
  <1>5. Kind[t] = "command" /\ proc[t].st = "gone" /\ head[t] = 0
    BY <1>1, Facts DEF Local, JobOK, GroupOK, HeadOK, Silent
  <1>6. JobLeased(t)' /\ GroupLeased(t)'
    BY <1>1, <1>2, <1>5, Facts
       DEF Local, JobLeased, GroupLeased, Covers, Running, JobAt, Holding, Released
  <1>7. JobOK(t)' /\ HeadOK(t)' /\ GroupOK(t)'
    BY <1>1, <1>2, <1>5, Facts
       DEF Local, JobOK, HeadOK, GroupOK, Running, JobAt, Claimed, Behind, Silent, Early
  <1> QED
    BY <1>1, <1>4, <1>6, <1>7, KeepLease DEF Local

LEMMA MarkUncertainStep ==
  ASSUME Inv, NEW t \in Tickets, MarkUncertain(t) PROVE Inv'
  <1>1. /\ job[t].pc = "unobserved"
        /\ UNCHANGED <<tk, leader, lease, prov, up, proc, head>>
    BY DEF MarkUncertain, world
  <1>2. JobAt(t, "marked", job[t].step)
    BY Facts, GotoIs DEF MarkUncertain, Pcs
  <1>3. \/ row' = row
        \/ \E r \in RowSet : /\ RowAt(t, job[t].n, r) /\ r.st = "uncertain"
                             /\ r.prep = R(t).prep /\ r.intent = R(t).intent
    BY Facts, RowForms, RowIs DEF MarkUncertain, SetRow
  <1>4. Beside(t)
    BY <1>1, <1>2, <1>3, Facts DEF Beside, JobAt, RowAt, Typed
  <1>5. JobLeased(t)' /\ GroupLeased(t)'
    BY <1>1, <1>2, Facts
       DEF Local, JobLeased, GroupLeased, Covers, Running, JobAt, Holding, Released
  <1>6. \A n \in Fences : /\ row'[t][n].prep = row[t][n].prep /\ row'[t][n].intent = row[t][n].intent
                          /\ row'[t][n] = row[t][n] \/ row'[t][n].st = "uncertain"
    BY <1>3, Facts DEF RowAt, R
  <1>7. JobOK(t)' /\ HeadOK(t)'
    BY <1>1, <1>2, <1>6, Facts DEF Local, JobOK, HeadOK, R, JobAt, Claimed, Unsettled
  <1>8. GroupOK(t)'
    BY <1>1, <1>2, <1>6, Facts
       DEF Local, GroupOK, Running, JobAt, Behind, Silent, Early, Unsettled
  <1> QED
    BY <1>1, <1>4, <1>5, <1>7, <1>8, KeepLease DEF Local

LEMMA RecordPreparedStep ==
  ASSUME Inv, NEW t \in Tickets, RecordPrepared(t) PROVE Inv'
  <1> DEFINE r == [st |-> R(t).st, ld |-> R(t).ld, intent |-> TRUE, prep |-> TRUE, res |-> FALSE]
             j == [job[t] EXCEPT !.pc = "prepared", !.step = "ref"]
  <1>1. /\ job[t].pc = "staged"
        /\ UNCHANGED <<tk, leader, lease, prov, up, proc, head>>
    BY DEF RecordPrepared, world
  <1>2. r \in RowSet /\ r.st = "executing" /\ r.intent = TRUE /\ r.prep = TRUE
    BY <1>1, Facts DEF RowSet, Local, JobOK, Claimed
  <1>3. RowAt(t, job[t].n, r)
    BY <1>2, Facts, RowIs DEF RecordPrepared, SetRow
  <1>4. j \in JobSet /\ j.pc = "prepared" /\ j.n = job[t].n /\ j.step = "ref"
    BY Facts DEF JobSet, Pcs
  <1>5. job' = [job EXCEPT ![t] = j]
    BY Facts DEF RecordPrepared, Typed
  <1> HIDE DEF r, j
  <1>6. JobAt(t, "prepared", "ref")
    BY <1>4, <1>5, Facts DEF JobAt, Typed
  <1>7. Beside(t)
    BY <1>1, <1>3, <1>6, Facts DEF Beside, JobAt, RowAt, Typed
  <1>8. JobLeased(t)' /\ GroupLeased(t)'
    BY <1>1, <1>6, Facts
       DEF Local, JobLeased, GroupLeased, Covers, Running, JobAt, Holding, Released
  <1>9. JobOK(t)' /\ HeadOK(t)'
    <2>1. JobOK(t)'
      BY SMTT(30), <1>1, <1>2, <1>3, <1>6, Facts DEF Local, JobOK, R, JobAt, RowAt, Claimed
    <2>2. HeadOK(t)'
      <3>1. CASE head[t] = 0
        BY <1>1, <3>1 DEF HeadOK
      <3>2. CASE head[t] # 0
        <4>1. head[t] \in Fences /\ HeadOK(t)
          BY <3>2, Facts DEF Local
        <4>2. CASE head[t] = job[t].n
          BY <1>1, <1>2, <1>3, <3>2, <4>1, <4>2 DEF HeadOK, RowAt, Unsettled
        <4>3. CASE head[t] # job[t].n
          BY <1>1, <1>3, <3>2, <4>1, <4>3 DEF HeadOK, RowAt
        <4> QED
          BY <4>2, <4>3
      <3> QED
        BY <3>1, <3>2
    <2> QED
      BY <2>1, <2>2
  <1>10. GroupOK(t)'
    BY <1>1, <1>2, <1>3, <1>6, Facts
       DEF Local, GroupOK, Running, JobAt, RowAt, Behind, Silent, Early, Unsettled
  <1> QED
    BY <1>1, <1>7, <1>8, <1>9, <1>10, KeepLease DEF Local

LEMMA ObserveCommitStep ==
  ASSUME Inv, NEW t \in Tickets, ObserveCommit(t) PROVE Inv'
  <1>1. /\ job[t].pc = "observe"
        /\ UNCHANGED <<tk, leader, lease, prov, up, proc, head>>
    BY DEF ObserveCommit, world
  <1>2. JobDone(t) \/ JobAt(t, "settle", job[t].step)
    BY Facts, DoneIs, FailIs DEF ObserveCommit, Pcs
  <1>3. \/ row' = row
        \/ \E r \in RowSet : /\ RowAt(t, job[t].n, r) /\ r.st = "confirmed" /\ JobDone(t)
                             /\ r.prep = R(t).prep /\ r.intent = R(t).intent
    BY Facts, RowForms, RowIs, DoneIs DEF ObserveCommit, SetRow
  <1>4. Beside(t)
    BY <1>1, <1>2, <1>3, Facts DEF Beside, JobAt, JobDone, RowAt, Typed
  <1>5. Kind[t] = "commit" /\ proc[t].st = "gone"
    BY <1>1, Facts DEF Local, JobOK, GroupOK, Silent
  <1>6. JobLeased(t)' /\ GroupLeased(t)' /\ GroupOK(t)'
    BY <1>1, <1>2, <1>5, NoJobIs
       DEF JobLeased, GroupLeased, GroupOK, Running, JobAt, JobDone, Holding, Behind, Silent, Early
  <1>7. JobOK(t)'
    BY <1>1, <1>2, <1>3, <1>5, Facts, NoJobIs DEF Local, JobOK, R, JobAt, JobDone, RowAt, Claimed
  <1>8. HeadOK(t)'
    BY <1>1, <1>3, Facts DEF Local, HeadOK, RowAt, R
  <1> QED
    BY <1>1, <1>4, <1>6, <1>7, <1>8, KeepLease DEF Local

LEMMA SettleCommitFailureStep ==
  ASSUME Inv, NEW t \in Tickets, SettleCommitFailure(t) PROVE Inv'
  <1>1. /\ job[t].pc = "settle"
        /\ UNCHANGED <<tk, leader, lease, prov, up, proc, head>>
    BY DEF SettleCommitFailure, world
  <1>2. JobDone(t)
    BY Facts, DoneIs DEF SettleCommitFailure
  <1>3. \/ row' = row
        \/ \E r \in RowSet : /\ RowAt(t, job[t].n, r)
                             /\ R(t).prep => /\ r.st = "uncertain"
                                             /\ r.prep = R(t).prep /\ r.intent = R(t).intent
    BY ZenonT(60), Facts, RowForms, RowIs DEF SettleCommitFailure, SetRow
  <1>4. Beside(t)
    BY <1>1, <1>2, <1>3, Facts DEF Beside, JobDone, RowAt, Typed
  <1>5. Kind[t] = "commit" /\ up = "serving" /\ ~Running(t) /\ proc[t].st # "gated"
    BY <1>1, Facts DEF Local, JobOK, GroupOK, Behind
  <1>6. proc[t].st = "gone"
    BY <1>5, Facts DEF Running, ProcSet
  <1>7. JobLeased(t)' /\ GroupLeased(t)' /\ GroupOK(t)' /\ JobOK(t)'
    BY <1>1, <1>2, <1>6, NoJobIs
       DEF JobLeased, GroupLeased, GroupOK, JobOK, Running, JobDone, Holding, Behind, Silent, Early, Claimed
  <1>8. HeadOK(t)'
    BY SMTT(30), <1>1, <1>3, Facts DEF Local, HeadOK, RowAt, R, Unsettled
  <1> QED
    BY <1>1, <1>4, <1>7, <1>8, KeepLease DEF Local

LEMMA ObserveAgainStep ==
  ASSUME Inv, NEW t \in Tickets, ObserveAgain(t) PROVE Inv'
  <1> DEFINE n == tk[t].f
             r == Settled(row[t][n], "confirmed")
  <1>1. /\ job[t].pc = "idle" /\ Kind[t] = "commit" /\ up = "serving" /\ head[t] = n
        /\ UNCHANGED <<tk, leader, lease, prov, up, job, proc, head>>
    BY DEF ObserveAgain, Confirmable, world
  <1>2. /\ r \in RowSet /\ r.st = "confirmed"
        /\ r.prep = row[t][n].prep /\ r.intent = row[t][n].intent
    BY Facts, RowForms
  <1>3. row' = [row EXCEPT ![t][n] = r]
    BY Facts DEF ObserveAgain, Typed
  <1> HIDE DEF r
  <1>4. RowAt(t, n, r)
    BY <1>2, <1>3, Facts, RowIs
  <1>5. Beside(t)
    BY <1>1, <1>4, Facts DEF Beside, RowAt, Typed
  <1>6. proc[t].st = "gone"
    BY <1>1, Facts DEF Local, GroupOK, Behind, Running, ProcSet
  <1>7. JobLeased(t)' /\ GroupLeased(t)' /\ GroupOK(t)' /\ JobOK(t)'
    BY <1>1, <1>6, Facts
       DEF Local, JobLeased, GroupLeased, GroupOK, JobOK, Running, Holding, Behind, Silent, Early, Claimed
  <1>8. HeadOK(t)'
    BY <1>1, <1>2, <1>4, Facts DEF Local, HeadOK, RowAt
  <1> QED
    BY <1>1, <1>5, <1>7, <1>8, KeepLease DEF Local

LEMMA CancelStep ==
  ASSUME Inv, NEW t \in Tickets, Cancel(t) PROVE Inv'
  <1> DEFINE j == [job[t] EXCEPT !.ctx = TRUE]
  <1>1. UNCHANGED <<tk, leader, row, lease, prov, up, proc, head>>
    BY DEF Cancel, durable, world
  <1>2. j \in JobSet /\ j.pc = job[t].pc /\ j.n = job[t].n /\ j.step = job[t].step
    BY Facts DEF JobSet
  <1>3. job' = [job EXCEPT ![t] = j]
    BY Facts DEF Cancel, Typed
  <1> HIDE DEF j
  <1>4. JobAt(t, job[t].pc, job[t].step)
    BY <1>2, <1>3, Facts DEF JobAt, Typed
  <1>5. Beside(t)
    BY <1>1, <1>4, Facts DEF Beside, JobAt, Typed
  <1>6. Local(t)'
    BY SMTT(30), <1>1, <1>4, Facts
       DEF Local, JobLeased, GroupLeased, JobOK, GroupOK, HeadOK, R, Covers, Running, JobAt
  <1> QED
    BY <1>1, <1>5, <1>6, KeepLease

LEMMA MoveRefStep ==
  ASSUME Inv, NEW t \in Tickets, MoveRef(t) PROVE Inv'
  <1>1. /\ Kind[t] = "commit" /\ proc[t].st = "live" /\ proc[t].step = "ref"
        /\ head' = [head EXCEPT ![t] = proc[t].n]
        /\ UNCHANGED <<tk, leader, row, lease, prov, up, job, proc>>
    BY DEF MoveRef, durable
  <1>2. /\ head' \in [Tickets -> 0 .. MaxFence] /\ head'[t] = proc[t].n
        /\ \A u \in Tickets \ {t} : head'[u] = head[u]
    BY <1>1, Facts, Consts DEF Typed, Fences
  <1>3. Beside(t)
    BY <1>1, <1>2, Facts DEF Beside, Typed
  <1>4. HeadOK(t)'
    BY <1>1, <1>2, Facts DEF Local, GroupOK, HeadOK, Running
  <1>5. JobLeased(t)' /\ GroupLeased(t)' /\ JobOK(t)' /\ GroupOK(t)'
    BY <1>1, Facts DEF Local, JobLeased, GroupLeased, JobOK, GroupOK, R, Covers, Running
  <1> QED
    BY <1>1, <1>3, <1>4, <1>5, KeepLease DEF Local

LEMMA ProcessEndsStep ==
  ASSUME Inv, NEW t \in Tickets, ProcessEnds(t) PROVE Inv'
  <1>1. PICK st \in {"gone", "stray"} : Group(t, st) /\ (st = "stray" => proc[t].st = "live")
    BY DEF ProcessEnds
  <1>2. proc[t].st \in {"live", "stray"} /\ UNCHANGED <<tk, leader, row, lease, prov, up, job, head>>
    BY DEF ProcessEnds, durable
  <1>3. GroupAt(t, st)
    BY <1>1, Facts, GroupIs
  <1>4. Beside(t)
    BY <1>2, <1>3, Facts DEF Beside, GroupAt, Typed
  <1>5. JobLeased(t)' /\ GroupLeased(t)' /\ JobOK(t)' /\ HeadOK(t)'
    BY <1>2, <1>3, Facts
       DEF Local, JobLeased, GroupLeased, JobOK, HeadOK, R, Covers, Running, GroupAt
  <1>6. GroupOK(t)'
    BY <1>2, <1>3, Facts DEF Local, GroupOK, Running, GroupAt
  <1> QED
    BY <1>2, <1>4, <1>5, <1>6, KeepLease DEF Local

-----------------------------------------------------------------------------
(* The steps of a call that write its lease *)

LEMMA LeaseStep ==
  ASSUME Inv, NEW t \in Tickets, job[t].pc \in {"issued", "waiting"}, ~HasWriter, Lease(t)
  PROVE  Inv'
  <1> DEFINE l == [t |-> t, n |-> job[t].n, st |-> "active", launch |-> "unrecorded", id |-> FALSE]
  <1>1. UNCHANGED <<tk, leader, row, prov, up, proc, head>>
    BY DEF Lease, world
  <1>2. JobAt(t, "leased", job[t].step)
    BY Facts, GotoIs DEF Lease, Pcs
  <1>3. l \in LeaseSet /\ l.t = t /\ l.n = job[t].n
    BY Facts DEF LeaseSet
  <1>4. lease' = [lease EXCEPT ![Kind[t]] = {l}]
    BY DEF Lease, SetLease
  <1> HIDE DEF l
  <1>5. lease'[Kind[t]] = {l}
    BY <1>4, Facts DEF Typed
  <1>6. Beside(t)
    BY <1>1, <1>2, Facts DEF Beside, JobAt, Typed
  <1>7. ~Running(t) /\ proc[t].st = "gone"
    <2>1. lease[Kind[t]] = {}
      BY Facts DEF HasWriter
    <2> QED
      BY <2>1, Facts DEF Local, GroupLeased, GroupOK, Running, ProcSet, Behind
  <1>8. JobLeased(t)' /\ GroupLeased(t)'
    BY <1>1, <1>2, <1>3, <1>5, <1>7
       DEF JobLeased, GroupLeased, Covers, Running, JobAt, Holding, Released
  <1>9. JobOK(t)' /\ HeadOK(t)' /\ GroupOK(t)'
    BY <1>1, <1>2, <1>7, Facts
       DEF Local, JobOK, HeadOK, GroupOK, R, Running, JobAt, Claimed, Behind, Silent, Early
  <1>10. {l} \in SUBSET LeaseSet /\ (\A a \in {l} : a.t = t) /\ \A a, b \in {l} : a = b
    BY <1>3
  <1> QED
    BY <1>1, <1>4, <1>6, <1>8, <1>9, <1>10, NewLease DEF Local

\* The lease of the call becomes m.
LeaseAt(t, m) ==
    /\ m \in LeaseSet /\ Covers(m, t, job[t].n)
    /\ lease' = [lease EXCEPT ![Kind[t]] = {m}]
    /\ lease'[Kind[t]] = {m}

LEMMA LeaseAtStep ==
  ASSUME Inv, NEW t \in Tickets, job[t].pc \in Holding, Beside(t), Local(t)',
         UNCHANGED <<tk, leader, prov, up>>,
         NEW m, LeaseAt(t, m)
  PROVE  Inv'
  <1>1. {m} \in SUBSET LeaseSet /\ (\A a \in {m} : a.t = t) /\ \A a, b \in {m} : a = b
    BY DEF LeaseAt, Covers
  <1> QED
    BY <1>1, NewLease DEF LeaseAt

LEMMA LaunchedIs ==
  ASSUME Inv, NEW t \in Tickets, job[t].pc \in Holding, NEW a \in {"released", "drained"},
         SetLease(t, {Launched(l, a) : l \in Mine(t)})
  PROVE  \E m : LeaseAt(t, m) /\ m.launch = a /\ (a = "released" => m.id)
  <1>1. PICK l \in LeaseSet : Mine(t) = {l} /\ Covers(l, t, job[t].n)
    BY Held
  <1>2. lease' = [lease EXCEPT ![Kind[t]] = {Launched(l, a)}]
    BY <1>1 DEF SetLease
  <1>3. lease'[Kind[t]] = {Launched(l, a)}
    BY <1>2, Facts DEF Typed
  <1>4. LeaseAt(t, Launched(l, a))
    BY <1>1, <1>2, <1>3, LeaseForms DEF LeaseAt, Covers
  <1>5. Launched(l, a).launch = a /\ (a = "released" => Launched(l, a).id)
    BY LeaseForms
  <1> QED
    BY <1>4, <1>5, Zenon

LEMMA QuarantineIs ==
  ASSUME Inv, NEW t \in Tickets, job[t].pc \in Holding, Quarantine(t)
  PROVE  \E m : LeaseAt(t, m) /\ \A l \in lease[Kind[t]] :
             l.launch \in {"released", "quarantined"} /\ l.id => m.launch = "quarantined" /\ m.id
  <1>1. PICK l \in LeaseSet : lease[Kind[t]] = {l} /\ Mine(t) = {l} /\ Covers(l, t, job[t].n)
    BY Held
  <1>2. lease' = [lease EXCEPT ![Kind[t]] = {Quarantined(l)}]
    BY <1>1 DEF Quarantine, SetLease
  <1>3. lease'[Kind[t]] = {Quarantined(l)}
    BY <1>2, Facts DEF Typed
  <1>4. LeaseAt(t, Quarantined(l))
    BY <1>1, <1>2, <1>3, LeaseForms DEF LeaseAt, Covers
  <1>5. \A a \in lease[Kind[t]] : a.launch \in {"released", "quarantined"} /\ a.id =>
            Quarantined(l).launch = "quarantined" /\ Quarantined(l).id
    BY <1>1, LeaseForms
  <1> QED
    BY <1>4, <1>5, Zenon

LEMMA RecordLaunchStep ==
  ASSUME Inv, NEW t \in Tickets, RecordLaunch(t) PROVE Inv'
  <1>1. job[t].pc = "gated" /\ UNCHANGED <<tk, leader, row, prov, up, proc, head>>
    BY DEF RecordLaunch, world
  <1>2. JobAt(t, "recorded", job[t].step)
    BY Facts, GotoIs DEF RecordLaunch, Pcs
  <1>3. PICK m : LeaseAt(t, m) /\ m.launch = "released" /\ m.id
    BY <1>1, LaunchedIs DEF RecordLaunch, Holding
  <1>4. Beside(t)
    BY <1>1, <1>2, Facts DEF Beside, JobAt, Typed
  <1>5. proc[t].st = "gated"
    BY <1>1, Facts DEF Local, GroupOK, Behind
  <1>6. JobLeased(t)' /\ GroupLeased(t)'
    BY <1>1, <1>2, <1>3, <1>5 DEF JobLeased, GroupLeased, Covers, LeaseAt, Running, JobAt
  <1>7. JobOK(t)' /\ HeadOK(t)' /\ GroupOK(t)'
    BY SMTT(30), <1>1, <1>2, Facts
       DEF Local, JobOK, HeadOK, GroupOK, R, Running, JobAt, Claimed, Behind, Silent, Early
  <1> QED
    BY <1>1, <1>3, <1>4, <1>6, <1>7, LeaseAtStep DEF Local, Holding

\* The group is killed behind its gate: nothing of the claim is left to cover.
LEMMA StoppedBehindGate ==
  ASSUME Inv, NEW t \in Tickets, job[t].pc \in Behind, Kill(t),
         NEW pc \in {"unobserved", "release"}, Fail(t, pc),
         lease' = lease \/ Quarantine(t),
         UNCHANGED <<tk, leader, row, prov, up, head>>
  PROVE  Inv'
  <1>1. JobAt(t, pc, job[t].step)
    BY Facts, FailIs DEF Pcs
  <1>2. GroupAt(t, "gone")
    BY Facts, GroupIs DEF Kill
  <1>3. Beside(t)
    BY <1>1, <1>2, Facts DEF Beside, JobAt, GroupAt, Typed
  <1>4. GroupLeased(t)' /\ JobOK(t)' /\ HeadOK(t)' /\ GroupOK(t)'
    BY SMTT(30), <1>1, <1>2, Facts
       DEF Local, GroupLeased, JobOK, HeadOK, GroupOK, R, Running, JobAt, GroupAt, Claimed, Behind, Silent, Early
  <1>5. job[t].pc \in Holding /\ pc \notin Released
    BY DEF Holding, Behind, Released
  <1>6. CASE lease' = lease
    <2>1. JobLeased(t)'
      BY <1>1, <1>5, <1>6, Facts DEF Local, JobLeased, Covers, JobAt
    <2> QED
      BY <1>3, <1>4, <1>6, <2>1, KeepLease DEF Local
  <1>7. CASE Quarantine(t)
    <2>1. PICK m : LeaseAt(t, m)
      BY <1>5, <1>7, QuarantineIs
    <2>2. JobLeased(t)'
      BY <1>1, <1>5, <2>1 DEF JobLeased, Covers, JobAt, LeaseAt
    <2> QED
      BY <1>3, <1>4, <1>5, <2>1, <2>2, LeaseAtStep DEF Local
  <1> QED
    BY <1>6, <1>7

LEMMA RecordRefusedStep ==
  ASSUME Inv, NEW t \in Tickets, RecordRefused(t) PROVE Inv'
  BY StoppedBehindGate DEF RecordRefused, Behind

LEMMA CheckFenceStep ==
  ASSUME Inv, NEW t \in Tickets, CheckFence(t) PROVE Inv'
  <1>1. job[t].pc = "recorded" /\ UNCHANGED <<tk, leader, row, prov, up, head>>
    BY DEF CheckFence
  <1>2. CASE Current(t) /\ ~job[t].ctx
    <2>1. Goto(t, "checked") /\ UNCHANGED <<lease, proc>>
      BY <1>2 DEF CheckFence
    <2>2. JobAt(t, "checked", job[t].step)
      BY <2>1, Facts, GotoIs DEF Pcs
    <2>3. Beside(t)
      BY <1>1, <2>1, <2>2, Facts DEF Beside, JobAt, Typed
    <2>4. Local(t)'
      BY SMTT(30), <1>1, <2>1, <2>2, Facts
         DEF Local, JobLeased, GroupLeased, JobOK, GroupOK, HeadOK, R, Covers, Running, JobAt,
             Holding, Claimed, Behind, Silent, Early, Released
    <2> QED
      BY <1>1, <2>1, <2>3, <2>4, KeepLease
  <1>3. CASE ~(Current(t) /\ ~job[t].ctx)
    BY <1>1, <1>3, StoppedBehindGate DEF CheckFence, Behind
  <1> QED
    BY <1>2, <1>3

\* A group that may still run stays covered by the quarantined lease.
LEMMA QuarantineCovers ==
  ASSUME Inv, NEW t \in Tickets, job[t].pc \in Holding, Quarantine(t), proc'[t] = proc[t]
  PROVE  GroupLeased(t)' /\ \E m : LeaseAt(t, m)
  <1>1. PICK m : LeaseAt(t, m) /\ \A l \in lease[Kind[t]] :
             l.launch \in {"released", "quarantined"} /\ l.id => m.launch = "quarantined" /\ m.id
    BY QuarantineIs
  <1>2. PICK a \in LeaseSet : lease[Kind[t]] = {a} /\ Covers(a, t, job[t].n)
    BY Held
  <1>3. ASSUME Running(t)' PROVE Covers(m, t, proc'[t].n) /\ m.launch = "quarantined" /\ m.id
    <2>1. Running(t)
      BY <1>3 DEF Running
    <2>2. PICK l \in lease[Kind[t]] : /\ Covers(l, t, proc[t].n)
                                      /\ l.launch \in {"released", "quarantined"} /\ l.id
      BY <2>1, Facts DEF Local, GroupLeased
    <2>3. l = a /\ proc[t].n = job[t].n
      BY <1>2, <2>2 DEF Covers
    <2> QED
      BY <1>1, <2>2, <2>3 DEF LeaseAt, Covers
  <1>4. m \in lease'[Kind[t]]
    BY <1>1 DEF LeaseAt
  <1> QED
    BY <1>1, <1>3, <1>4 DEF GroupLeased

LEMMA UnclearStep ==
  ASSUME Inv, NEW t \in Tickets, Unclear(t) PROVE Inv'
  <1>1. /\ job[t].pc = "running" /\ Kind[t] = "command"
        /\ UNCHANGED <<tk, leader, row, prov, up, proc, head>>
    BY DEF Unclear, world
  <1>2. JobAt(t, "unobserved", job[t].step)
    BY Facts, FailIs DEF Unclear, Pcs
  <1>3. Beside(t)
    BY <1>1, <1>2, Facts DEF Beside, JobAt, Typed
  <1>4. JobOK(t)' /\ HeadOK(t)' /\ GroupOK(t)'
    BY <1>1, <1>2, Facts
       DEF Local, JobOK, HeadOK, GroupOK, R, Running, JobAt, Claimed, Behind, Silent, Early
  <1>5. CASE lease' = lease
    <2>1. JobLeased(t)' /\ GroupLeased(t)'
      BY <1>1, <1>2, <1>5, Facts
         DEF Local, JobLeased, GroupLeased, Covers, Running, JobAt, Holding, Released
    <2> QED
      BY <1>1, <1>3, <1>4, <1>5, <2>1, KeepLease DEF Local
  <1>6. CASE Quarantine(t)
    <2>1. job[t].pc \in Holding
      BY <1>1 DEF Holding
    <2>2. GroupLeased(t)'
      BY <1>1, <1>6, <2>1, QuarantineCovers
    <2>3. PICK m : LeaseAt(t, m)
      BY <1>1, <1>6, <2>1, QuarantineCovers
    <2>4. JobLeased(t)'
      BY <1>2, <2>3 DEF JobLeased, Covers, JobAt, LeaseAt, Released
    <2> QED
      BY <1>1, <1>3, <1>4, <2>1, <2>2, <2>3, <2>4, LeaseAtStep DEF Local
  <1> QED
    BY <1>5, <1>6 DEF Unclear

LEMMA QuarantineUnobservedStep ==
  ASSUME Inv, NEW t \in Tickets, QuarantineUnobserved(t) PROVE Inv'
  <1>1. /\ job[t].pc = "marked" /\ Quarantine(t)
        /\ UNCHANGED <<tk, leader, row, prov, up, proc, head>>
    BY DEF QuarantineUnobserved, world
  <1>2. JobDone(t)
    BY Facts, DoneIs DEF QuarantineUnobserved
  <1>3. Beside(t)
    BY <1>1, <1>2, Facts DEF Beside, JobDone, Typed
  <1>4. JobLeased(t)' /\ JobOK(t)' /\ HeadOK(t)' /\ GroupOK(t)'
    BY <1>1, <1>2, Facts, NoJobIs
       DEF Local, JobLeased, JobOK, HeadOK, GroupOK, Running, JobDone, Claimed, Behind, Silent, Early, Holding
  <1>5. job[t].pc \in Holding
    BY <1>1 DEF Holding
  <1>6. GroupLeased(t)'
    BY <1>1, <1>5, QuarantineCovers
  <1>7. PICK m : LeaseAt(t, m)
    BY <1>1, <1>5, QuarantineCovers
  <1> QED
    BY <1>1, <1>3, <1>4, <1>5, <1>6, <1>7, LeaseAtStep DEF Local

\* Once the group is reaped the lease may say so, or go.
LEMMA Emptied ==
  ASSUME Inv, NEW t \in Tickets, job[t].pc \in Holding, Beside(t), Local(t)',
         UNCHANGED <<tk, leader, prov, up>>, SetLease(t, {})
  PROVE  Inv'
  <1>1. lease' = [lease EXCEPT ![Kind[t]] = {}]
    BY DEF SetLease
  <1>2. {} \in SUBSET LeaseSet /\ (\A a \in {} : a.t = t) /\ \A a, b \in {} : a = b
    OBVIOUS
  <1> QED
    BY <1>1, <1>2, NewLease

LEMMA FinishStep ==
  ASSUME Inv, NEW t \in Tickets, job[t].pc = "reaped",
         SetLease(t, {Launched(l, "drained") : l \in Mine(t)}),
         NEW pc \in {"observed", "unobserved", "release", "staged"}, JobAt(t, pc, job[t].step),
         pc = "observed" => Kind[t] = "command", pc = "staged" => Kind[t] = "commit",
         UNCHANGED <<tk, leader, row, prov, up, proc, head>>
  PROVE  Inv'
  <1>1. job[t].pc \in Holding
    BY DEF Holding
  <1>2. PICK m : LeaseAt(t, m)
    BY <1>1, LaunchedIs
  <1>3. Beside(t)
    BY Facts DEF Beside, JobAt, Typed
  <1>4. proc[t].st = "gone"
    BY Facts DEF Local, GroupOK, Silent
  <1>5. JobLeased(t)' /\ GroupLeased(t)'
    BY <1>2, <1>4 DEF JobLeased, GroupLeased, Covers, Running, JobAt, LeaseAt, Released
  <1>6. JobOK(t)' /\ HeadOK(t)' /\ GroupOK(t)'
    BY <1>4, Facts
       DEF Local, JobOK, HeadOK, GroupOK, R, Running, JobAt, Claimed, Behind, Silent, Early
  <1> QED
    BY <1>1, <1>2, <1>3, <1>5, <1>6, LeaseAtStep DEF Local

LEMMA FinishCommandStep ==
  ASSUME Inv, NEW t \in Tickets, FinishCommand(t) PROVE Inv'
  <1>1. /\ job[t].pc = "reaped" /\ Kind[t] = "command"
        /\ SetLease(t, {Launched(l, "drained") : l \in Mine(t)})
        /\ UNCHANGED <<tk, leader, row, prov, up, proc, head>>
    BY DEF FinishCommand, world
  <1>2. CASE \E o \in {"ok", "red", "limit"} :
                job' = [job EXCEPT ![t].pc = "observed", ![t].out = o]
    <2>1. PICK o \in {"ok", "red", "limit"} : job' = [job EXCEPT ![t].pc = "observed", ![t].out = o]
      BY <1>2
    <2> DEFINE j == [job[t] EXCEPT !.pc = "observed", !.out = o]
    <2>2. j \in JobSet /\ j.pc = "observed" /\ j.n = job[t].n /\ j.step = job[t].step
      BY Facts DEF JobSet, Pcs
    <2>3. job' = [job EXCEPT ![t] = j]
      BY <2>1, Facts DEF Typed
    <2> HIDE DEF j
    <2>4. JobAt(t, "observed", job[t].step)
      BY <2>2, <2>3, Facts DEF JobAt, Typed
    <2> QED
      BY <1>1, <2>4, FinishStep
  <1>3. CASE Fail(t, "unobserved")
    <2>1. JobAt(t, "unobserved", job[t].step)
      BY <1>3, Facts, FailIs DEF Pcs
    <2> QED
      BY <1>1, <2>1, FinishStep
  <1> QED
    BY <1>2, <1>3 DEF FinishCommand

LEMMA FinishGitStep ==
  ASSUME Inv, NEW t \in Tickets, FinishGit(t) PROVE Inv'
  <1>1. /\ job[t].pc = "reaped" /\ Kind[t] = "commit"
        /\ SetLease(t, {Launched(l, "drained") : l \in Mine(t)})
        /\ UNCHANGED <<tk, leader, row, prov, up, proc, head>>
    BY DEF FinishGit, world
  <1>2. JobAt(t, "release", job[t].step) \/ JobAt(t, "staged", job[t].step)
    BY Facts, FailIs, GotoIs DEF FinishGit, Pcs
  <1> QED
    BY <1>1, <1>2, FinishStep

LEMMA RetireObservedStep ==
  ASSUME Inv, NEW t \in Tickets, RetireObserved(t) PROVE Inv'
  <1>1. job[t].pc = "observed" /\ UNCHANGED <<tk, leader, prov, up, proc, head>>
    BY DEF RetireObserved, world
  <1>2. JobDone(t)
    BY Facts, DoneIs DEF RetireObserved
  <1>3. row' = row \/ RowAt(t, job[t].n, Retired(R(t)))
    BY Facts, RowForms, RowIs DEF RetireObserved, SetRow
  <1>4. Beside(t)
    BY <1>1, <1>2, <1>3, Facts DEF Beside, JobDone, RowAt, Typed
  <1>5. proc[t].st = "gone" /\ head[t] = 0
    BY <1>1, Facts DEF Local, JobOK, GroupOK, HeadOK, Silent
  <1>6. Local(t)'
    BY <1>1, <1>2, <1>5, NoJobIs
       DEF Local, JobLeased, GroupLeased, JobOK, HeadOK, GroupOK, Running, JobDone, Claimed, Behind,
           Silent, Early, Holding
  <1>7. job[t].pc \in Holding
    BY <1>1 DEF Holding
  <1>8. CASE SetLease(t, {})
    BY <1>1, <1>4, <1>6, <1>7, <1>8, Emptied
  <1>9. CASE Quarantine(t)
    BY <1>1, <1>4, <1>6, <1>7, <1>9, QuarantineIs, LeaseAtStep
  <1> QED
    BY <1>8, <1>9 DEF RetireObserved

LEMMA ReleaseCommandStep ==
  ASSUME Inv, NEW t \in Tickets, ReleaseCommand(t) PROVE Inv'
  <1>1. /\ job[t].pc = "release" /\ SetLease(t, {})
        /\ UNCHANGED <<tk, leader, row, prov, up, proc, head>>
    BY DEF ReleaseCommand, world
  <1>2. JobDone(t)
    BY Facts, DoneIs DEF ReleaseCommand
  <1>3. Beside(t)
    BY <1>1, <1>2, Facts DEF Beside, JobDone, Typed
  <1>4. Local(t)'
    BY <1>1, <1>2, Facts, NoJobIs
       DEF Local, JobLeased, GroupLeased, JobOK, HeadOK, GroupOK, Running, JobDone, Claimed, Behind,
           Silent, Early, Holding
  <1> QED
    BY <1>1, <1>3, <1>4, Emptied DEF Holding

LEMMA ReleaseGitStep ==
  ASSUME Inv, NEW t \in Tickets, ReleaseGit(t) PROVE Inv'
  <1>1. /\ job[t].pc = "release" /\ Kind[t] = "commit"
        /\ UNCHANGED <<tk, leader, row, prov, up, proc, head>>
    BY DEF ReleaseGit, world
  <1>2. JobAt(t, "observe", job[t].step) \/ JobAt(t, "settle", job[t].step)
    BY Facts, FailIs, GotoIs DEF ReleaseGit, Pcs
  <1>3. Beside(t)
    BY <1>1, <1>2, Facts DEF Beside, JobAt, Typed
  <1>4. Local(t)'
    BY SMTT(30), <1>1, <1>2, Facts
       DEF Local, JobLeased, GroupLeased, JobOK, HeadOK, GroupOK, R, Running, JobAt, Claimed, Behind,
           Silent, Early, Holding
  <1>5. CASE SetLease(t, {})
    BY <1>1, <1>3, <1>4, <1>5, Emptied DEF Holding
  <1>6. CASE lease' = lease
    BY <1>1, <1>3, <1>4, <1>6, KeepLease
  <1> QED
    BY <1>5, <1>6 DEF ReleaseGit

-----------------------------------------------------------------------------
(* Control and the provider *)

LEMMA Calm ==
  ASSUME Inv, UNCHANGED <<leader, row, lease, up, job, proc, head>>, Typed', Room', Alone'
  PROVE  Inv'
  <1>1. \A u \in Tickets : Local(u)'
    BY LocalFrame
  <1> QED
    BY <1>1 DEF Inv

LEMMA TkIs ==
  ASSUME Typed, NEW t \in Tickets, NEW x \in TkSet, tk' = [tk EXCEPT ![t] = x]
  PROVE  tk' \in [Tickets -> TkSet] /\ tk'[t] = x /\ \A u \in Tickets \ {t} : tk'[u] = tk[u]
  BY DEF Typed

LEMMA StopStep ==
  ASSUME Inv, NEW t \in Tickets, Stop(t) PROVE Inv'
  <1> DEFINE x == [st |-> "stopping", f |-> tk[t].f + 1]
  <1>1. UNCHANGED <<leader, row, lease, prov, up, job, proc, head>> /\ up = "serving"
    BY DEF Stop, world
  <1>2. leader \in 1 .. MaxLeader /\ \A u \in Tickets : tk[u].f \in 1 .. MaxFence
    BY Facts DEF Inv, Typed, Fences
  <1>3. \A u \in Tickets : tk[u].f + (MaxLeader - leader) < MaxFence
    BY DEF Stop
  <1>4. x \in TkSet /\ x.f = tk[t].f + 1
    BY <1>2, <1>3, Consts DEF TkSet, Fences
  <1>5. /\ tk' \in [Tickets -> TkSet] /\ tk'[t] = x
        /\ \A u \in Tickets \ {t} : tk'[u] = tk[u]
    BY <1>4, TkIs DEF Stop, Inv
  <1> HIDE DEF x
  <1>6. Typed'
    BY <1>1, <1>5 DEF Inv, Typed
  <1>7. Room'
    BY <1>1, <1>2, <1>3, <1>4, <1>5, Consts DEF Inv, Room
  <1> QED
    BY <1>1, <1>6, <1>7, Calm DEF Inv, Alone

LEMMA StateStep ==
  ASSUME Inv, NEW t \in Tickets, NEW st \in {"run", "stopping", "paused"},
         tk' = [tk EXCEPT ![t].st = st], UNCHANGED <<leader, row, lease, prov, up, job, proc, head>>
  PROVE  Inv'
  <1> DEFINE x == [tk[t] EXCEPT !.st = st]
  <1>1. tk[t] \in TkSet
    BY DEF Inv, Typed
  <1>2. x \in TkSet /\ x.f = tk[t].f
    BY <1>1 DEF TkSet
  <1>3. tk' = [tk EXCEPT ![t] = x]
    BY DEF Inv, Typed
  <1> HIDE DEF x
  <1>4. /\ tk' \in [Tickets -> TkSet]
        /\ \A u \in Tickets : tk'[u].f = tk[u].f
    BY <1>2, <1>3, TkIs DEF Inv
  <1>5. Typed'
    BY <1>4 DEF Inv, Typed
  <1>6. Room'
    BY <1>4 DEF Inv, Room
  <1> QED
    BY <1>5, <1>6, Calm DEF Inv, Alone

LEMMA CompleteStopStep ==
  ASSUME Inv, NEW t \in Tickets, CompleteStop(t) PROVE Inv'
  BY StateStep DEF CompleteStop, world

LEMMA ResumeStep ==
  ASSUME Inv, NEW t \in Tickets, Resume(t) PROVE Inv'
  BY StateStep DEF Resume, world

LEMMA ProviderStep ==
  ASSUME Inv, BeginProvider \/ EndProvider PROVE Inv'
  <1>1. UNCHANGED <<tk, leader, row, lease, up, job, proc, head>>
    BY DEF BeginProvider, EndProvider, world
  <1>2. Alone' /\ prov' \in BOOLEAN
    BY <1>1 DEF Inv, Alone, BeginProvider, EndProvider, HasWriter
  <1>3. Typed' /\ Room'
    BY <1>1, <1>2 DEF Inv, Typed, Room
  <1> QED
    BY <1>1, <1>2, <1>3, Calm

-----------------------------------------------------------------------------
(* Crash and Recover *)

\* No job is left when the daemon is not serving, and no group waits for one.
LEMMA AtRest ==
  ASSUME Inv, up # "serving", NEW t \in Tickets
  PROVE  job[t].pc = "idle" /\ job[t].step # "ref" /\ proc[t].st # "gated"
  BY Facts DEF Local, JobOK, GroupOK, Behind

\* Then a ticket is described by its group and its branch.
LEMMA RestLocal ==
  ASSUME NEW t \in Tickets, job'[t].pc = "idle", job'[t].step # "ref", proc'[t].st # "gated",
         GroupLeased(t)', HeadOK(t)',
         Running(t)' => /\ row'[t][proc'[t].n].st \in Unsettled
                        /\ Kind[t] = "commit" => up' \in {"down", "git"},
         proc'[t].st # "gone" /\ proc'[t].step = "ref" =>
            Kind[t] = "commit" /\ row'[t][proc'[t].n].prep /\ row'[t][proc'[t].n].intent
  PROVE  Local(t)'
  BY DEF Local, JobLeased, JobOK, GroupOK, Holding, Claimed, Behind, Silent, Early

LEMMA CrashStep ==
  ASSUME Inv, Crash PROVE Inv'
  <1>1. up' = "down" /\ UNCHANGED <<tk, leader, row, lease, prov, head>>
    BY DEF Crash, durable
  <1>2. job' \in [Tickets -> JobSet] /\ \A t \in Tickets : job'[t] = NoJob
    BY NoJobIs DEF Crash
  <1>3. \A t \in Tickets : proc'[t] = IF proc[t].st = "gated" THEN NoProc ELSE proc[t]
    BY DEF Crash
  <1>4. proc' \in [Tickets -> ProcSet]
    BY NoProcIs DEF Crash, Inv, Typed
  <1>5. Typed'
    BY <1>1, <1>2, <1>4 DEF Inv, Typed, Ups
  <1>6. Room' /\ Alone'
    <2>1. leader \in 1 .. MaxLeader /\ \A u \in Tickets : tk[u].f \in 1 .. MaxFence
      BY Facts DEF Inv, Typed, Fences
    <2> QED
      BY <1>1, <2>1, Consts DEF Inv, Room, Alone
  <1>7. ASSUME NEW t \in Tickets PROVE Local(t)'
    <2>1. CASE proc[t].st = "gated"
      <3>1. proc'[t].st = "gone" /\ ~Running(t)'
        BY <1>3, <2>1, NoProcIs DEF Running
      <3>2. GroupLeased(t)' /\ HeadOK(t)'
        BY <1>1, <3>1, Facts DEF Local, GroupLeased, HeadOK
      <3> QED
        BY <1>1, <1>2, <3>1, <3>2, NoJobIs, RestLocal
    <2>2. CASE proc[t].st # "gated"
      <3>1. proc'[t] = proc[t]
        BY <1>3, <2>2
      <3>2. GroupLeased(t)' /\ HeadOK(t)'
        BY <1>1, <3>1, Facts DEF Local, GroupLeased, HeadOK, Running, Covers
      <3>3. /\ Running(t)' => row'[t][proc'[t].n].st \in Unsettled
            /\ proc'[t].st # "gone" /\ proc'[t].step = "ref" =>
                  Kind[t] = "commit" /\ row'[t][proc'[t].n].prep /\ row'[t][proc'[t].n].intent
        BY <1>1, <3>1, Facts DEF Local, GroupOK, Running
      <3>4. proc'[t].st # "gated"
        BY <2>2, <3>1
      <3> QED
        BY <1>1, <1>2, <3>2, <3>3, <3>4, NoJobIs, RestLocal
    <2> QED
      BY <2>1, <2>2
  <1> QED
    BY <1>5, <1>6, <1>7 DEF Inv

\* The steps of Recover that change neither a group nor a lease.
LEMMA RecoverFrame ==
  ASSUME Inv, up # "serving", UNCHANGED <<lease, job, proc, head>>, NEW t \in Tickets,
         \A n \in Fences : Kind[t] = "commit" => row'[t][n].prep = row[t][n].prep /\ row'[t][n].intent = row[t][n].intent,
         head[t] # 0 => row'[t][head[t]].st \in Unsettled \cup {"confirmed"},
         Running(t) => /\ row'[t][proc[t].n].st \in Unsettled
                       /\ Kind[t] = "commit" => up' \in {"down", "git"}
  PROVE  Local(t)'
  <1>1. Running(t)' <=> Running(t)
    BY DEF Running
  <1>2. GroupLeased(t)'
    BY <1>1, Facts DEF Local, GroupLeased, Covers
  <1>3. HeadOK(t)'
    BY Facts DEF Local, HeadOK
  <1>4. proc'[t].st # "gone" /\ proc'[t].step = "ref" =>
            Kind[t] = "commit" /\ row'[t][proc'[t].n].prep /\ row'[t][proc'[t].n].intent
    BY Facts DEF Local, GroupOK
  <1> QED
    BY <1>1, <1>2, <1>3, <1>4, AtRest, RestLocal

LEMMA Bounds ==
  ASSUME Inv
  PROVE  leader \in 1 .. MaxLeader /\ \A u \in Tickets : tk[u].f \in 1 .. MaxFence
  BY Facts DEF Inv, Typed, Fences

LEMMA StartStep ==
  ASSUME Inv, Start PROVE Inv'
  <1>1. /\ up = "down" /\ up' = "git" /\ leader < MaxLeader /\ leader' = leader + 1
        /\ UNCHANGED <<tk, row, lease, prov, job, proc, head>>
    BY DEF Start, world
  <1>2. Typed'
    BY <1>1, Bounds, Consts DEF Inv, Typed, Ups
  <1>3. Room' /\ Alone'
    BY <1>1, Bounds, Consts DEF Inv, Room, Alone
  <1>4. ASSUME NEW t \in Tickets PROVE Local(t)'
    <2>1. Running(t) => row'[t][proc[t].n].st \in Unsettled
      BY <1>1, Facts DEF Local, GroupOK
    <2>2. head[t] # 0 => row'[t][head[t]].st \in Unsettled \cup {"confirmed"}
      BY <1>1, Facts DEF Local, HeadOK
    <2> QED
      BY <1>1, <2>1, <2>2, RecoverFrame
  <1> QED
    BY <1>2, <1>3, <1>4 DEF Inv

\* The lease that a recovery looks at is the only one: no other ticket runs.
LEMMA OnlyLease ==
  ASSUME Inv, NEW k \in Kinds, NEW l \in lease[k]
  PROVE  /\ l \in LeaseSet /\ l.t \in Tickets /\ l.n \in Fences /\ Kind[l.t] = k
         /\ lease[k] = {l} /\ \A j \in Kinds \ {k} : lease[j] = {}
         /\ ~prov
         /\ \A u \in Tickets \ {l.t} : ~Running(u)
         /\ Running(l.t) => proc[l.t].n = l.n /\ l.launch \in {"released", "quarantined"} /\ l.id
  <1>1. l \in LeaseSet /\ l.t \in Tickets /\ l.n \in Fences /\ Kind[l.t] = k
    BY DEF Inv, Typed, Alone, LeaseSet
  <1>2. lease[k] = {l}
    BY DEF Inv, Alone
  <1>3. ASSUME NEW j \in Kinds \ {k} PROVE lease[j] = {}
    <2>1. ASSUME NEW m \in lease[j] PROVE FALSE
      <3>1. m = l
        BY DEF Inv, Alone
      <3>2. Kind[m.t] = j
        BY DEF Inv, Alone
      <3> QED
        BY <1>1, <3>1, <3>2
    <2> QED
      BY <2>1
  <1>4. ~prov
    BY DEF Inv, Alone
  <1>5. ASSUME NEW u \in Tickets, Running(u)
        PROVE  u = l.t /\ proc[u].n = l.n /\ l.launch \in {"released", "quarantined"} /\ l.id
    <2>1. PICK m \in lease[Kind[u]] : /\ Covers(m, u, proc[u].n)
                                      /\ m.launch \in {"released", "quarantined"} /\ m.id
      BY <1>5 DEF Inv, Local, GroupLeased
    <2>2. m = l
      BY <2>1, Consts DEF Inv, Alone
    <2> QED
      BY <2>1, <2>2 DEF Covers
  <1> QED
    BY <1>1, <1>2, <1>3, <1>4, <1>5

\* What a drain leaves of the group of t.
LEMMA DrainIs ==
  ASSUME Inv, NEW t \in Tickets, NEW d \in Drains(t), Group(t, d.st)
  PROVE  /\ proc' \in [Tickets -> ProcSet]
         /\ \A u \in Tickets \ {t} : proc'[u] = proc[u]
         /\ d.ok => proc'[t].st = "gone"
         /\ proc'[t].st = "gone" \/ proc'[t] = proc[t]
  <1>1. d.st \in {"gone", proc[t].st} /\ (d.ok => d.st = "gone")
    BY DEF Drains
  <1>2. proc[t] \in ProcSet /\ d.st \in {"gone", "gated", "live", "stray"}
    BY <1>1, Facts DEF ProcSet
  <1>3. GroupAt(t, d.st)
    BY <1>2, Facts, GroupIs
  <1>4. CASE d.st = "gone"
    BY <1>3, <1>4 DEF GroupAt
  <1>5. CASE d.st # "gone"
    <2>1. d.st = proc[t].st /\ ~d.ok
      BY <1>1, <1>5
    <2>2. proc'[t] \in ProcSet
      BY <1>3 DEF GroupAt
    <2>3. proc'[t].st = proc[t].st /\ proc'[t].n = proc[t].n /\ proc'[t].step = proc[t].step
      BY <1>3, <1>5, <2>1 DEF GroupAt
    <2>4. proc'[t] = proc[t]
      BY <1>2, <2>2, <2>3 DEF ProcSet
    <2> QED
      BY <1>3, <2>1, <2>4 DEF GroupAt
  <1> QED
    BY <1>4, <1>5

\* A recovery of the lease l: the group of its ticket is gone, or still covered.
LEMMA RecoverLease ==
  ASSUME Inv, up # "serving", NEW k \in Kinds, NEW l \in lease[k],
         UNCHANGED <<tk, leader, prov, job, head>>,
         up' \in Ups,
         up' \in {"down", up} \/ (up \notin {"down", "serving"} /\ up' # "serving"),
         k = "commit" => up' \in {"down", "git"},
         proc' \in [Tickets -> ProcSet], \A u \in Tickets \ {l.t} : proc'[u] = proc[u],
         proc'[l.t] = proc[l.t] \/ proc'[l.t].st = "gone",
         row' \in [Tickets -> [Fences -> RowSet]],
         NEW S \in SUBSET LeaseSet, lease' = [lease EXCEPT ![k] = S],
         \A m \in S : Covers(m, l.t, l.n), \A a, b \in S : a = b,
         k = "commit" => row' = row,
         \A u \in Tickets \ {l.t} : row'[u] = row[u],
         Running(l.t)' => /\ \E m \in S : m.launch \in {"released", "quarantined"} /\ m.id
                          /\ row'[l.t][l.n].st \in Unsettled
  PROVE  Inv'
  <1>1. /\ l \in LeaseSet /\ l.t \in Tickets /\ l.n \in Fences /\ Kind[l.t] = k
        /\ \A j \in Kinds \ {k} : lease[j] = {}
        /\ ~prov
        /\ \A u \in Tickets \ {l.t} : ~Running(u)
        /\ Running(l.t) => proc[l.t].n = l.n
    BY OnlyLease
  <1>2. /\ lease' \in [Kinds -> SUBSET LeaseSet] /\ lease'[k] = S
        /\ \A j \in Kinds \ {k} : lease'[j] = {}
    BY <1>1 DEF Inv, Typed
  <1>3. Typed'
    BY <1>2 DEF Inv, Typed
  <1>4. Room'
    BY Bounds, Consts DEF Inv, Room
  <1>5. Alone'
    BY <1>1, <1>2 DEF Alone, Covers
  <1>6. ASSUME NEW u \in Tickets \ {l.t} PROVE Local(u)'
    <2>1. ~Running(u)'
      BY <1>1 DEF Running
    <2>2. GroupLeased(u)'
      BY <2>1 DEF GroupLeased
    <2>3. HeadOK(u)'
      BY Facts DEF Local, HeadOK
    <2>4. proc'[u].st # "gone" /\ proc'[u].step = "ref" =>
            Kind[u] = "commit" /\ row'[u][proc'[u].n].prep /\ row'[u][proc'[u].n].intent
      BY Facts DEF Local, GroupOK
    <2> QED
      BY <2>1, <2>2, <2>3, <2>4, AtRest, RestLocal
  <1>7. Local(l.t)'
    <2> DEFINE t == l.t
    <2>1. Running(t)' => proc'[t] = proc[t] /\ Running(t)
      BY DEF Running
    <2>2. GroupLeased(t)'
      BY <1>1, <1>2, <2>1 DEF GroupLeased, Covers
    <2>3. HeadOK(t)'
      BY <1>1, Facts DEF Local, HeadOK
    <2>4. proc'[t].st # "gone" /\ proc'[t].step = "ref" =>
            Kind[t] = "commit" /\ row'[t][proc'[t].n].prep /\ row'[t][proc'[t].n].intent
      BY <1>1, Facts DEF Local, GroupOK
    <2>5. Running(t)' => /\ row'[t][proc'[t].n].st \in Unsettled
                         /\ Kind[t] = "commit" => up' \in {"down", "git"}
      BY <1>1, <2>1
    <2>6. proc'[t].st # "gated"
      BY <1>1, AtRest
    <2> QED
      BY <1>1, <2>2, <2>3, <2>4, <2>5, <2>6, AtRest, RestLocal
  <1> QED
    BY <1>3, <1>4, <1>5, <1>6, <1>7 DEF Inv

LEMMA RecoverGitStep ==
  ASSUME Inv, RecoverGit PROVE Inv'
  <1>1. up = "git" /\ UNCHANGED <<tk, leader, row, prov, job, head>>
    BY DEF RecoverGit
  <1>2. CASE lease["commit"] = {}
    <2>1. up' = "unleased" /\ UNCHANGED <<lease, proc>>
      BY <1>2 DEF RecoverGit
    <2>2. Typed' /\ Room' /\ Alone'
      BY <1>1, <2>1, Bounds, Consts DEF Inv, Typed, Room, Alone, Ups
    <2>3. ASSUME NEW t \in Tickets PROVE Local(t)'
      <3>1. Running(t) => row'[t][proc[t].n].st \in Unsettled
        BY <1>1, Facts DEF Local, GroupOK
      <3>2. Kind[t] = "commit" => ~Running(t)
        BY <1>2, Facts DEF Local, GroupLeased
      <3>3. head[t] # 0 => row'[t][head[t]].st \in Unsettled \cup {"confirmed"}
        BY <1>1, Facts DEF Local, HeadOK
      <3> QED
        BY <1>1, <2>1, <3>1, <3>2, <3>3, RecoverFrame
    <2> QED
      BY <2>2, <2>3 DEF Inv
  <1>3. CASE lease["commit"] # {}
    <2> DEFINE ok(l, d) == l.id /\ d.ok /\ l.st = "active" /\ row[l.t][l.n].st \in Unsettled
               Step(l, d) ==
                  /\ lease' = [lease EXCEPT !["commit"] =
                                 IF ok(l, d) THEN {} ELSE {[t |-> l.t, n |-> l.n, st |-> "quarantined",
                                                            launch |-> "quarantined", id |-> l.id]}]
                  /\ up' = IF ok(l, d) THEN up ELSE "down"
                  /\ IF l.id THEN Group(l.t, d.st) ELSE UNCHANGED proc
    <2>0. PICK l \in lease["commit"] : \E d \in Drains(l.t) : Step(l, d)
      BY <1>3 DEF RecoverGit
    <2>1. PICK d \in Drains(l.t) : Step(l, d)
      BY <2>0
    <2>2. "commit" \in Kinds
      BY DEF Kinds
    <2>3. /\ l \in LeaseSet /\ l.t \in Tickets /\ l.n \in Fences
          /\ Running(l.t) => proc[l.t].n = l.n /\ l.id
      BY <2>2, OnlyLease
    <2>4. /\ proc' \in [Tickets -> ProcSet]
          /\ \A u \in Tickets \ {l.t} : proc'[u] = proc[u]
          /\ l.id /\ d.ok => proc'[l.t].st = "gone"
          /\ proc'[l.t].st = "gone" \/ proc'[l.t] = proc[l.t]
      <3>1. CASE l.id
        BY <2>1, <2>3, <3>1, DrainIs
      <3>2. CASE ~l.id
        BY <2>1, <3>2, Facts DEF Inv, Typed
      <3> QED
        BY <3>1, <3>2
    <2>5. Running(l.t)' => Running(l.t) /\ proc'[l.t] = proc[l.t] /\ l.id /\ ~d.ok
      BY <2>3, <2>4 DEF Running
    <2>6. row \in [Tickets -> [Fences -> RowSet]]
      BY DEF Inv, Typed
    <2>7. Running(l.t)' => row'[l.t][l.n].st \in Unsettled
      BY <1>1, <2>3, <2>5, Facts DEF Local, GroupOK
    <2>8. CASE l.id /\ d.ok /\ l.st = "active" /\ row[l.t][l.n].st \in Unsettled
      <3>1. lease' = [lease EXCEPT !["commit"] = {}] /\ up' = up
        BY <2>1, <2>8
      <3>2. {} \in SUBSET LeaseSet /\ (\A m \in {} : Covers(m, l.t, l.n)) /\ \A a, b \in {} : a = b
        OBVIOUS
      <3>3. ~Running(l.t)'
        BY <2>5, <2>8
      <3> QED
        BY <1>1, <2>2, <2>4, <2>6, <3>1, <3>2, <3>3, RecoverLease DEF Ups
    <2>9. CASE ~(l.id /\ d.ok /\ l.st = "active" /\ row[l.t][l.n].st \in Unsettled)
      <3> DEFINE m == [t |-> l.t, n |-> l.n, st |-> "quarantined", launch |-> "quarantined", id |-> l.id]
      <3>1. lease' = [lease EXCEPT !["commit"] = {m}] /\ up' = "down"
        BY <2>1, <2>9
      <3>2. m \in LeaseSet /\ Covers(m, l.t, l.n) /\ m.launch = "quarantined" /\ m.id = l.id
        BY <2>3 DEF LeaseSet, Covers
      <3> HIDE DEF m
      <3>3. {m} \in SUBSET LeaseSet /\ (\A a \in {m} : Covers(a, l.t, l.n)) /\ \A a, b \in {m} : a = b
        BY <3>2
      <3>4. Running(l.t)' => \E a \in {m} : a.launch \in {"released", "quarantined"} /\ a.id
        BY <2>5, <3>2
      <3> QED
        BY <1>1, <2>2, <2>4, <2>6, <2>7, <3>1, <3>3, <3>4, RecoverLease DEF Ups
    <2> QED
      BY <2>8, <2>9
  <1> QED
    BY <1>2, <1>3

\* While the daemon is past the git leases no commit runs.
LEMMA NoCommitRuns ==
  ASSUME Inv, up \in {"unleased", "commands", "effects", "commits"}, NEW t \in Tickets, Running(t)
  PROVE  Kind[t] = "command"
  BY AtRest, Facts DEF Local, GroupOK, Kinds

LEMMA RecoverUnleasedStep ==
  ASSUME Inv, RecoverUnleased PROVE Inv'
  <1>1. up = "unleased" /\ up' = "commands" /\ UNCHANGED <<tk, leader, lease, prov, job, proc, head>>
    BY DEF RecoverUnleased, world
  <1>2. \A t \in Tickets, n \in Fences :
            row'[t][n] = IF Unleased(t, n) THEN Retired(row[t][n]) ELSE row[t][n]
    BY DEF RecoverUnleased
  <1>3. row' \in [Tickets -> [Fences -> RowSet]]
    <2>1. ASSUME NEW t \in Tickets, NEW n \in Fences
          PROVE  (IF Unleased(t, n) THEN Retired(row[t][n]) ELSE row[t][n]) \in RowSet
      BY Facts, RowForms
    <2> QED
      BY <2>1 DEF RecoverUnleased
  <1>4. Typed'
    BY <1>1, <1>3 DEF Inv, Typed, Ups
  <1>5. Room' /\ Alone'
    BY <1>1, Bounds, Consts DEF Inv, Room, Alone
  <1>6. ASSUME NEW t \in Tickets PROVE Local(t)'
    <2>1. Kind[t] = "commit" => \A n \in Fences : row'[t][n] = row[t][n]
      BY <1>2 DEF Unleased
    <2>2. head[t] # 0 => row'[t][head[t]].st \in Unsettled \cup {"confirmed"}
      BY <2>1, Facts DEF Local, HeadOK
    <2>3. ASSUME Running(t) PROVE row'[t][proc[t].n].st \in Unsettled /\ Kind[t] = "command"
      <3>1. Kind[t] = "command"
        BY <1>1, <2>3, NoCommitRuns
      <3>2. ~Unleased(t, proc[t].n)
        BY <2>3, <3>1, Facts DEF Local, GroupLeased, Unleased, Covers
      <3> QED
        BY <1>2, <2>3, <3>1, <3>2, Facts DEF Local, GroupOK
    <2> QED
      BY <1>1, <2>1, <2>2, <2>3, RecoverFrame
  <1> QED
    BY <1>4, <1>5, <1>6 DEF Inv

LEMMA RecoverCommandStep ==
  ASSUME Inv, RecoverCommand PROVE Inv'
  <1>1. up = "commands" /\ up' = "effects" /\ UNCHANGED <<tk, leader, prov, job, head>>
    BY DEF RecoverCommand
  <1>2. CASE lease["command"] = {}
    <2>1. UNCHANGED <<lease, row, proc>>
      BY <1>2 DEF RecoverCommand
    <2>2. Typed' /\ Room' /\ Alone'
      BY <1>1, <2>1, Bounds, Consts DEF Inv, Typed, Room, Alone, Ups
    <2>3. ASSUME NEW t \in Tickets PROVE Local(t)'
      <3>1. Running(t) => row'[t][proc[t].n].st \in Unsettled
        BY <2>1, Facts DEF Local, GroupOK
      <3>2. Running(t) => Kind[t] = "command"
        BY <1>1, NoCommitRuns
      <3>3. head[t] # 0 => row'[t][head[t]].st \in Unsettled \cup {"confirmed"}
        BY <2>1, Facts DEF Local, HeadOK
      <3> QED
        BY <1>1, <2>1, <3>1, <3>2, <3>3, RecoverFrame
    <2> QED
      BY <2>2, <2>3 DEF Inv
  <1>3. CASE lease["command"] # {}
    <2>1. PICK l \in lease["command"] :
              IF l.launch \in {"unrecorded", "drained"}
              THEN RetireRecovered(l) /\ UNCHANGED proc
              ELSE \E d \in Drains(l.t) :
                     /\ IF d.ok THEN RetireRecovered(l) ELSE QuarantineRecovered(l)
                     /\ Group(l.t, d.st)
      BY <1>3 DEF RecoverCommand
    <2>2. "command" \in Kinds
      BY DEF Kinds
    <2>3. /\ l \in LeaseSet /\ l.t \in Tickets /\ l.n \in Fences /\ lease["command"] = {l}
          /\ Running(l.t) => proc[l.t].n = l.n /\ l.launch \in {"released", "quarantined"} /\ l.id
      BY <2>2, OnlyLease
    <2> DEFINE r == row[l.t][l.n]
    <2>4. r \in RowSet /\ Typed
      BY <2>3, Facts
    <2>5. CASE RetireRecovered(l) /\ proc' \in [Tickets -> ProcSet]
               /\ (\A u \in Tickets \ {l.t} : proc'[u] = proc[u]) /\ ~Running(l.t)'
               /\ (proc'[l.t] = proc[l.t] \/ proc'[l.t].st = "gone")
      <3> DEFINE q == IF r.st \in Unsettled THEN Retired(r) ELSE r
      <3>1. q \in RowSet
        BY <2>4, RowForms
      <3>2. row' = [row EXCEPT ![l.t][l.n] = q]
        BY <2>3, <2>4, <2>5 DEF RetireRecovered, Typed
      <3> HIDE DEF q
      <3>3. RowAt(l.t, l.n, q)
        BY <2>3, <2>4, <3>1, <3>2, RowIs
      <3>4. lease' = [lease EXCEPT !["command"] = {}]
        BY <2>2, <2>3, <2>4, <2>5 DEF RetireRecovered, Typed
      <3>5. {} \in SUBSET LeaseSet /\ (\A m \in {} : Covers(m, l.t, l.n)) /\ \A a, b \in {} : a = b
        OBVIOUS
      <3> QED
        BY <1>1, <2>2, <2>5, <3>3, <3>4, <3>5, RecoverLease DEF Ups, RowAt
    <2>6. ASSUME NEW d \in Drains(l.t), QuarantineRecovered(l), Group(l.t, d.st),
                 l.launch \notin {"unrecorded", "drained"}
          PROVE  Inv'
      <3> DEFINE q == RecoveredEffect(r, "uncertain")
                 m == Quarantined(l)
      <3>1. q \in RowSet /\ (r.st \in Unsettled => q.st = "uncertain")
        BY <2>4, RowForms DEF RecoveredEffect
      <3>2. row' = [row EXCEPT ![l.t][l.n] = q]
        BY <2>3, <2>4, <2>6 DEF QuarantineRecovered, Typed
      <3>3. lease' = [lease EXCEPT !["command"] = {m}]
        BY <2>6 DEF QuarantineRecovered
      <3>4. m \in LeaseSet /\ Covers(m, l.t, l.n) /\ m.launch = "quarantined" /\ m.id = l.id
        <4>1. l.launch \in {"released", "quarantined"}
          BY <2>3, <2>6 DEF LeaseSet
        <4> QED
          BY <2>3, <4>1, LeaseForms DEF Covers
      <3> HIDE DEF q, m
      <3>5. RowAt(l.t, l.n, q)
        BY <2>3, <2>4, <3>1, <3>2, RowIs
      <3>6. /\ proc' \in [Tickets -> ProcSet]
            /\ \A u \in Tickets \ {l.t} : proc'[u] = proc[u]
            /\ proc'[l.t].st = "gone" \/ proc'[l.t] = proc[l.t]
        BY <2>3, <2>6, DrainIs
      <3>7. Running(l.t)' => Running(l.t) /\ l.id
        BY <2>3, <3>6 DEF Running
      <3>8. Running(l.t)' => row'[l.t][l.n].st \in Unsettled
        <4>1. Running(l.t) => r.st \in Unsettled
          BY <2>3, Facts DEF Local, GroupOK
        <4> QED
          BY <3>1, <3>5, <3>7, <4>1 DEF RowAt, Unsettled
      <3>9. {m} \in SUBSET LeaseSet /\ (\A a \in {m} : Covers(a, l.t, l.n)) /\ \A a, b \in {m} : a = b
        BY <3>4
      <3>10. Running(l.t)' => \E a \in {m} : a.launch \in {"released", "quarantined"} /\ a.id
        BY <3>4, <3>7
      <3> QED
        BY ZenonT(60), <1>1, <2>2, <3>3, <3>5, <3>6, <3>8, <3>9, <3>10, RecoverLease DEF Ups, RowAt
    <2>7. CASE l.launch \in {"unrecorded", "drained"}
      <3>1. RetireRecovered(l) /\ proc' = proc
        BY <2>1, <2>7
      <3>2. ~Running(l.t)'
        BY <2>3, <2>7, <3>1 DEF Running
      <3> QED
        BY <2>4, <2>5, <3>1, <3>2 DEF Typed
    <2>8. CASE l.launch \notin {"unrecorded", "drained"}
      <3>1. PICK d \in Drains(l.t) : /\ IF d.ok THEN RetireRecovered(l) ELSE QuarantineRecovered(l)
                                     /\ Group(l.t, d.st)
        BY <2>1, <2>8
      <3>2. CASE d.ok
        <4>1. /\ proc' \in [Tickets -> ProcSet]
              /\ \A u \in Tickets \ {l.t} : proc'[u] = proc[u]
              /\ proc'[l.t].st = "gone"
          BY <2>3, <3>1, <3>2, DrainIs
        <4> QED
          BY <2>5, <3>1, <3>2, <4>1 DEF Running
      <3>3. CASE ~d.ok
        BY <2>6, <2>8, <3>1, <3>3
      <3> QED
        BY <3>2, <3>3
    <2> QED
      BY <2>7, <2>8
  <1> QED
    BY <1>2, <1>3

LEMMA ReconcileEffectsStep ==
  ASSUME Inv, ReconcileEffects PROVE Inv'
  <1>1. up = "effects" /\ up' = "commits" /\ UNCHANGED <<tk, leader, lease, prov, job, proc, head>>
    BY DEF ReconcileEffects, world
  <1>2. \A t \in Tickets, n \in Fences :
            row'[t][n] = IF row[t][n].st = "executing" THEN Settled(row[t][n], "uncertain") ELSE row[t][n]
    BY DEF ReconcileEffects
  <1>3. row' \in [Tickets -> [Fences -> RowSet]]
    <2>1. ASSUME NEW t \in Tickets, NEW n \in Fences
          PROVE  (IF row[t][n].st = "executing" THEN Settled(row[t][n], "uncertain")
                  ELSE row[t][n]) \in RowSet
      BY Facts, RowForms
    <2> QED
      BY <2>1 DEF ReconcileEffects
  <1>4. Typed'
    BY <1>1, <1>3 DEF Inv, Typed, Ups
  <1>5. Room' /\ Alone'
    BY <1>1, Bounds, Consts DEF Inv, Room, Alone
  <1>6. ASSUME NEW t \in Tickets PROVE Local(t)'
    <2>1. \A n \in Fences : /\ row'[t][n].prep = row[t][n].prep /\ row'[t][n].intent = row[t][n].intent
                            /\ row'[t][n] = row[t][n] \/ row'[t][n].st = "uncertain"
      BY <1>2, Facts, RowForms
    <2>2. head[t] # 0 => row'[t][head[t]].st \in Unsettled \cup {"confirmed"}
      BY <2>1, Facts DEF Local, HeadOK, Unsettled
    <2>3. Running(t) => row'[t][proc[t].n].st \in Unsettled /\ Kind[t] = "command"
      BY <1>1, <2>1, NoCommitRuns, Facts DEF Local, GroupOK, Unsettled
    <2> QED
      BY <1>1, <2>1, <2>2, <2>3, RecoverFrame
  <1> QED
    BY <1>4, <1>5, <1>6 DEF Inv

LEMMA ReconcilePreparedStep ==
  ASSUME Inv, ReconcilePreparedCommits PROVE Inv'
  <1>1. up = "commits" /\ UNCHANGED <<tk, leader, lease, prov, job, proc, head>>
    BY DEF ReconcilePreparedCommits, world
  <1>2. PICK t \in Tickets, n \in Fences :
            /\ Stranded(t, n)
            /\ IF row[t][n].prep /\ head[t] = n /\ tk[t].f = n
               THEN row' = [row EXCEPT ![t][n] = Settled(@, "confirmed")] /\ UNCHANGED up
               ELSE up' = "down" /\ UNCHANGED row
    BY DEF ReconcilePreparedCommits
  <1> DEFINE r == Settled(row[t][n], "confirmed")
  <1>3. /\ r \in RowSet /\ r.st = "confirmed"
        /\ r.prep = row[t][n].prep /\ r.intent = row[t][n].intent
    BY Facts, RowForms
  <1>4. CASE row' = [row EXCEPT ![t][n] = Settled(@, "confirmed")] /\ UNCHANGED up
    <2>1. row' = [row EXCEPT ![t][n] = r]
      BY <1>4, Facts DEF Typed
    <2> HIDE DEF r
    <2>2. RowAt(t, n, r)
      BY <1>3, <2>1, Facts, RowIs
    <2>3. Beside(t)
      BY <1>1, <2>2, Facts DEF Beside, RowAt, Typed
    <2>4. Kind[t] = "commit"
      BY <1>2 DEF Stranded
    <2>5. Local(t)'
      <3>1. \A m \in Fences : row'[t][m].prep = row[t][m].prep /\ row'[t][m].intent = row[t][m].intent
        BY <1>3, <2>2, Facts DEF RowAt
      <3>2. head[t] # 0 => row'[t][head[t]].st \in Unsettled \cup {"confirmed"}
        BY <1>3, <2>2, Facts DEF RowAt, Local, HeadOK
      <3>3. ~Running(t)
        BY <1>1, <2>4, NoCommitRuns
      <3> QED
        BY <1>1, <3>1, <3>2, <3>3, RecoverFrame
    <2> QED
      BY <1>1, <1>4, <2>3, <2>5, KeepLease
  <1>5. CASE up' = "down" /\ UNCHANGED row
    <2>1. Typed' /\ Alone'
      BY <1>1, <1>5 DEF Inv, Typed, Alone, Ups
    <2>2. Room'
      BY <1>1, <1>5, Bounds, Consts DEF Inv, Room
    <2>3. ASSUME NEW u \in Tickets PROVE Local(u)'
      <3>1. Running(u) => row'[u][proc[u].n].st \in Unsettled
        BY <1>5, Facts DEF Local, GroupOK
      <3>2. head[u] # 0 => row'[u][head[u]].st \in Unsettled \cup {"confirmed"}
        BY <1>5, Facts DEF Local, HeadOK
      <3> QED
        BY <1>1, <1>5, <3>1, <3>2, RecoverFrame
    <2> QED
      BY <2>1, <2>2, <2>3 DEF Inv
  <1> QED
    BY <1>2, <1>4, <1>5

LEMMA ServeStep ==
  ASSUME Inv, Serve PROVE Inv'
  <1>1. /\ up = "commits" /\ up' = "serving" /\ prov' = FALSE
        /\ UNCHANGED <<leader, row, lease, job, proc, head>>
    BY DEF Serve, world
  <1>2. \A t \in Tickets :
            tk'[t] = IF tk[t].st = "paused" THEN tk[t] ELSE [tk[t] EXCEPT !.f = @ + 1]
    BY DEF Serve
  <1>3. \A t \in Tickets : tk[t].f + (MaxLeader - leader) + 1 <= MaxFence
    BY <1>1 DEF Inv, Room
  <1>4. ASSUME NEW t \in Tickets
        PROVE  /\ tk'[t] \in TkSet /\ tk'[t].f \in {tk[t].f, tk[t].f + 1}
               /\ tk'[t].f + (MaxLeader - leader) <= MaxFence
    <2>1. tk[t] \in TkSet
      BY DEF Inv, Typed
    <2>2. tk[t].f + 1 \in Fences
      BY <1>3, Bounds, Consts DEF Fences
    <2>3. [tk[t] EXCEPT !.f = @ + 1] \in TkSet
      BY <2>1, <2>2 DEF TkSet
    <2>4. tk'[t] \in TkSet /\ tk'[t].f \in {tk[t].f, tk[t].f + 1}
      BY <1>2, <2>1, <2>3 DEF TkSet
    <2> QED
      BY <1>3, <2>4, Bounds, Consts
  <1>5. tk' \in [Tickets -> TkSet]
    <2>1. tk' = [t \in Tickets |-> tk'[t]]
      BY DEF Serve
    <2> QED
      BY <1>4, <2>1
  <1>6. Typed'
    BY <1>1, <1>5 DEF Inv, Typed, Ups
  <1>7. Room'
    BY <1>1, <1>4, Bounds, Consts DEF Room
  <1>8. Alone'
    BY <1>1 DEF Inv, Alone
  <1>9. ASSUME NEW t \in Tickets PROVE Local(t)'
    <2>1. Running(t) => row'[t][proc[t].n].st \in Unsettled /\ Kind[t] = "command"
      BY <1>1, NoCommitRuns, Facts DEF Local, GroupOK
    <2>2. head[t] # 0 => row'[t][head[t]].st \in Unsettled \cup {"confirmed"}
      BY <1>1, Facts DEF Local, HeadOK
    <2> QED
      BY <1>1, <2>1, <2>2, RecoverFrame
  <1> QED
    BY <1>6, <1>7, <1>8, <1>9 DEF Inv

-----------------------------------------------------------------------------
(* The theorems *)

LEMMA InitInv == Init => Inv
  <1> SUFFICES ASSUME Init PROVE Inv
    OBVIOUS
  <1>1. NoRow \in RowSet
    BY Consts DEF NoRow, RowSet
  <1>2. [st |-> "run", f |-> 1] \in TkSet
    BY Consts DEF TkSet
  <1>3. 0 \in 0 .. MaxFence /\ 1 \in 1 .. MaxLeader
    BY Consts
  <1>4. Typed
    BY <1>1, <1>2, <1>3, NoJobIs, NoProcIs DEF Init, Typed, Ups
  <1>5. Room
    BY Consts DEF Init, Room
  <1>6. Alone
    BY DEF Init, Alone
  <1>7. ASSUME NEW t \in Tickets PROVE Local(t)
    <2>1. job[t] = NoJob /\ proc[t] = NoProc /\ head[t] = 0 /\ up = "serving"
      BY DEF Init
    <2> QED
      BY <2>1, NoJobIs, NoProcIs
         DEF Local, JobLeased, GroupLeased, JobOK, GroupOK, HeadOK, Running, Holding, Claimed, Behind,
             Silent, Early
  <1> QED
    BY <1>4, <1>5, <1>6, <1>7 DEF Inv

LEMMA WorkStep ==
  ASSUME Inv, NEW t \in Tickets, Work(t) PROVE Inv'
  <1>1. ASSUME AcquireRepositoryCommand(t) \/ AcquireGitMutation(t) PROVE Inv'
    BY <1>1, LeaseStep DEF AcquireRepositoryCommand, AcquireGitMutation, Acquiring
  <1> QED
    BY <1>1, IssueStep, ContendStep, RetireUnleasedStep, AcquireRefusedStep, StartGatedStep,
       PreflightFailsStep, RecordLaunchStep, RecordRefusedStep, CheckFenceStep, OpenGateStep,
       ReapStep, UnclearStep, FinishCommandStep, CompleteStep, RetireObservedStep,
       MarkUncertainStep, QuarantineUnobservedStep, ReleaseCommandStep, FinishGitStep,
       RecordPreparedStep, ReleaseGitStep, ObserveCommitStep, SettleCommitFailureStep
       DEF Work

LEMMA NextInv == Inv /\ [Next]_vars => Inv'
  <1> SUFFICES ASSUME Inv, [Next]_vars PROVE Inv'
    OBVIOUS
  <1>1. CASE \E t \in Tickets :
                \/ PlanEffect(t) \/ Work(t) \/ ObserveAgain(t)
                \/ Stop(t) \/ Cancel(t) \/ CompleteStop(t) \/ Resume(t)
                \/ MoveRef(t) \/ ProcessEnds(t)
    BY <1>1, PlanStep, WorkStep, ObserveAgainStep, StopStep, CancelStep, CompleteStopStep, ResumeStep,
       MoveRefStep, ProcessEndsStep
  <1>2. CASE BeginProvider \/ EndProvider
    BY <1>2, ProviderStep
  <1>3. CASE Recovery
    BY <1>3, CrashStep, StartStep, RecoverGitStep, RecoverUnleasedStep, RecoverCommandStep,
       ReconcileEffectsStep, ReconcilePreparedStep, ServeStep DEF Recovery
  <1>4. CASE UNCHANGED vars
    <2>1. UNCHANGED <<tk, leader, row, lease, prov, up, job, proc, head>>
      BY <1>4 DEF vars, durable, world
    <2>2. Typed' /\ Room' /\ Alone'
      BY <2>1 DEF Inv, Typed, Room, Alone
    <2> QED
      BY <2>1, <2>2, Calm
  <1> QED
    BY <1>1, <1>2, <1>3, <1>4 DEF Next

LEMMA AlwaysInv == Spec => []Inv
  BY InitInv, NextInv, PTL DEF Spec

\* A set of which any two members are equal has at most one.
LEMMA AtMostOne ==
  ASSUME NEW S, \A a, b \in S : a = b
  PROVE  IsFiniteSet(S) /\ Cardinality(S) \in Nat /\ Cardinality(S) <= 1
  <1>1. CASE S = {}
    BY <1>1, FS_EmptySet
  <1>2. CASE S # {}
    <2>1. PICK a : S = {a}
      BY <1>2
    <2>2. IsFiniteSet({a}) /\ Cardinality({a}) = 1
      BY FS_Singleton
    <2> QED
      BY <2>1, <2>2
  <1> QED
    BY <1>1, <1>2

\* Every variable keeps its type, and neither lease table ever has two rows: the
\* unique indexes of git_mutation_leases and repository_command_leases are never
\* what refuses a writer.
THEOREM WritersType == Spec => []TypeOK
  <1>1. Inv => TypeOK
    <2> SUFFICES ASSUME Inv PROVE TypeOK
      OBVIOUS
    <2>1. \A k \in Kinds : Cardinality(lease[k]) <= 1
      BY AtMostOne DEF Inv, Alone
    <2> QED
      BY <2>1 DEF Inv, Typed, TypeOK, TkSet, Ups, JobSet, ProcSet, Pcs
  <1> QED
    BY <1>1, AlwaysInv, PTL

\* At most one of the commands, git children and provider attempts of a
\* repository writes at any time, for any number of tickets, crashes and revoked
\* fences: a group is let go only after its lease is durable with its identity
\* (RecordRepositoryCommandLaunch, RecordGitMutationLaunch), and the lease goes
\* only after the group is proved gone.
THEOREM WritersOneWriter == Spec => []OneWriter
  <1>1. Inv => OneWriter
    <2> SUFFICES ASSUME Inv PROVE OneWriter
      OBVIOUS
    <2> DEFINE S == {t \in Tickets : Running(t)}
    <2>1. ASSUME NEW t \in S, NEW u \in S PROVE t = u
      <3>1. PICK l \in lease[Kind[t]] : Covers(l, t, proc[t].n)
        BY DEF Inv, Local, GroupLeased
      <3>2. PICK m \in lease[Kind[u]] : Covers(m, u, proc[u].n)
        BY DEF Inv, Local, GroupLeased
      <3>3. l = m
        BY <3>1, <3>2, Consts DEF Inv, Alone
      <3> QED
        BY <3>1, <3>2, <3>3 DEF Covers
    <2>2. Cardinality(S) \in Nat /\ Cardinality(S) <= 1
      BY <2>1, AtMostOne
    <2>3. CASE prov
      <3>1. S = {}
        BY <2>3, Consts DEF Inv, Alone, Local, GroupLeased
      <3>2. Cardinality(S) = 0
        BY <3>1, FS_EmptySet
      <3> QED
        BY <2>3, <3>2 DEF OneWriter
    <2>4. CASE ~prov
      BY <2>2, <2>4 DEF OneWriter
    <2> QED
      BY <2>3, <2>4
  <1> QED
    BY <1>1, AlwaysInv, PTL

\* Once a result is recorded or a key is given back, no group of that claim is
\* left in the worktree (CompleteRepositoryCommand, RetireUnleasedRepositoryCommand,
\* RecoverRepositoryCommandLeases, settleCommitFailure).
THEOREM WritersSettledIsSilent == Spec => []SettledIsSilent
  <1>1. Inv => SettledIsSilent
    BY DEF Inv, Local, GroupOK, SettledIsSilent
  <1> QED
    BY <1>1, AlwaysInv, PTL

\* A commit the branch shows has its prepared tuple on disk and an effect that
\* was neither failed nor given back (RecordPreparedCommit before update-ref,
\* settleCommitFailure, ConfirmRecoveredPreparedCommit).
THEOREM WritersVisibleIsPrepared == Spec => []VisibleIsPrepared
  <1>1. Inv => VisibleIsPrepared
    BY DEF Inv, Local, HeadOK, VisibleIsPrepared
  <1> QED
    BY <1>1, AlwaysInv, PTL

=============================================================================
