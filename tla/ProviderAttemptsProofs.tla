----------------------- MODULE ProviderAttemptsProofs -----------------------
(***************************************************************************)
(* Theorems about ProviderAttempts, for every set of bindings and costs,   *)
(* every ceiling, any number of daemons and boots and every subset of the  *)
(* faults.                                                                 *)
(***************************************************************************)
EXTENDS ProviderAttempts, FiniteSetTheorems, WellFoundedInduction, TLAPS

(***************************************************************************)
(* Types                                                                   *)
(***************************************************************************)
TkSet  == [st : States, v : Nat, r : Nat, code : Codes, epoch : BOOLEAN]
AttSet == [f : FenceSet, b : Bindings, rep : BOOLEAN, out : OpenOut \cup Closed, cost : Nat,
           boot : Nat, launch : {"launching", "released", "quarantined", "drained"}]
Pcs    == {"idle", "preflight", "route", "claimed", "gated", "running", "returned", "drained",
           "undrained", "retire", "budget", "verdict"}
MaybeB == Bindings \cup {NoBinding}
JobSet == [pc : Pcs, f : FenceSet, ctx : BOOLEAN, b : MaybeB, rep : BOOLEAN, pend : MaybeB,
           rej : MaybeB, out : OpenOut \cup Closed, cost : Nat, spent : Nat, res : Codes]

Typed ==
    /\ tk \in TkSet /\ leader \in Nat
    /\ att \in Seq(AttSet) /\ Runs \in 0 .. 4
    /\ cool \in BOOLEAN /\ late \in BOOLEAN /\ busy \in {"no", "writer", "slot"}
    /\ up \in {"down", "recovering", "serving", "closing"}
    /\ job \in JobSet /\ fatal \in BOOLEAN
    /\ proc \in [Ids -> {"gone", "gated", "live", "stray"}]
    /\ boot \in 1 .. MaxBoot

(***************************************************************************)
(* The inductive invariant.  Only the newest attempt can be open, and an   *)
(* open one has cost nothing yet; a group is alive only for an open        *)
(* attempt; a call that has claimed is about that attempt, and its group   *)
(* is gone wherever the call may finish it; a call never has a newer fence *)
(* than the ticket, and an older one as soon as a stop is durable.         *)
(***************************************************************************)
Claimed  == {"claimed", "gated", "running", "returned", "drained", "undrained", "retire", "budget"}
Finishing == {"claimed", "drained", "retire", "budget"}

NewestOpen == \A i \in 1 .. Runs : att[i].out \in OpenOut => i = Runs /\ att[i].cost = 0
Marked     == \A i \in 1 .. Runs : att[i].launch = "drained" <=> att[i].out \in Closed
Grouped    == \A i \in Ids : proc[i] # "gone" => i = Runs /\ Latest.out \in OpenOut

Calling ==
    /\ job.pc \in Claimed => Runs > 0 /\ Latest.out = "running" /\ up \in {"serving", "closing"}
    /\ job.pc \in Finishing => proc[Runs] = "gone"
    /\ up \in {"down", "recovering"} => job.pc = "idle"
    /\ job.pc \in {"returned", "drained", "retire", "budget"} => job.out \in Closed

Fenced == job.pc # "idle" => job.f.v <= tk.v /\ (tk.st \in Stops => job.f.v < tk.v)

Inv == Typed /\ NewestOpen /\ Marked /\ Grouped /\ Calling /\ Fenced /\ SpentWithinBudget

-----------------------------------------------------------------------------
(* Tables of checks *)

LEMMA LeastIs ==
  ASSUME NEW n \in Nat, NEW S \in SUBSET (1 .. n), S # {}
  PROVE  Min(S) \in S
  <1> DEFINE Down(x) == {y \in S : y < x}
             R == StrictSubsetOrdering(1 .. n)
             T == {Down(x) : x \in S}
  <1>1. IsFiniteSet(1 .. n)
    BY FS_Interval
  <1>2. FiniteSubsetsOf(1 .. n) = SUBSET (1 .. n)
    BY <1>1, FS_Subset DEF FiniteSubsetsOf
  <1>3. IsWellFoundedOn(R, SUBSET (1 .. n))
    BY <1>1, <1>2, FS_StrictSubsetOrderingWellFounded
  <1>4. T \subseteq SUBSET (1 .. n) /\ T # {}
    OBVIOUS
  <1>5. \E t \in T : \A u \in T : ~(<<u, t>> \in R)
    BY <1>3, <1>4, WFMin
  <1>6. PICK x \in S : \A y \in S : ~(<<Down(y), Down(x)>> \in R)
    BY <1>5
  <1>7. ASSUME NEW y \in S, y < x PROVE FALSE
    <2>1. x \in Nat /\ y \in Nat /\ \A z \in S : z \in Nat
      OBVIOUS
    <2>2. \A z \in Nat : z < y => z < x
      BY <1>7, <2>1
    <2>3. Down(y) \subseteq Down(x) /\ y \in Down(x)
      BY <1>7, <2>1, <2>2
    <2>4. y \notin Down(y)
      BY <2>1
    <2>5. <<Down(y), Down(x)>> \in R
      BY <2>3, <2>4 DEF StrictSubsetOrdering
    <2> QED
      BY <1>6, <2>5
  <1>8. \A y \in S : x <= y
    BY <1>7
  <1> QED
    BY <1>8 DEF Min

\* When a table of checks falls through, none of them held.
LEMMA FellThrough ==
  ASSUME NEW n \in Nat, NEW checks, DOMAIN checks = 1 .. n, NEW o,
         \A i \in 1 .. n : checks[i][2] # o,
         First(checks, o) = o
  PROVE  \A i \in 1 .. n : ~checks[i][1]
  <1> DEFINE held == {i \in DOMAIN checks : checks[i][1]}
  <1>1. First(checks, o) = IF held = {} THEN o ELSE checks[Min(held)][2]
    BY DEF First
  <1>2. held \in SUBSET (1 .. n)
    OBVIOUS
  <1> HIDE DEF held
  <1>3. held = {}
    BY <1>1, <1>2, LeastIs
  <1> QED
    BY <1>3 DEF held

\* What a table yields is one of its codes.
LEMMA FirstIn ==
  ASSUME NEW n \in Nat, NEW checks, DOMAIN checks = 1 .. n, NEW o, NEW C,
         \A i \in 1 .. n : checks[i][2] \in C, o \in C
  PROVE  First(checks, o) \in C
  <1> DEFINE held == {i \in DOMAIN checks : checks[i][1]}
  <1>1. First(checks, o) = IF held = {} THEN o ELSE checks[Min(held)][2]
    BY DEF First
  <1>2. held \in SUBSET (1 .. n)
    OBVIOUS
  <1> HIDE DEF held
  <1> QED
    BY <1>1, <1>2, LeastIs

\* BeginProviderAttempt accepts a claim only under the live fence of a running
\* ticket, with no attempt open and one left.
LEMMA BeginOk ==
  ASSUME NEW b, BeginError(b) = "ok"
  PROVE  Fresh /\ tk.st = "run" /\ ~Open /\ ~(Runs >= Limit)
  <1> DEFINE cs == << <<~Fresh \/ tk.st # "run",            "stale">>,
             <<Reusable,                           "reusable">>,
             <<LatestIn({"result_indeterminate"}), "indeterminate">>,
             <<Conflict,                           "attempt">>,
             <<InterruptedRepair,                  "unavailable">>,
             <<Has("budget_exhausted"),            "budget">>,
             <<busy = "writer",                    "attempt">>,
             <<late,                               "budget">>,
             <<Spent >= MaxCost,                   "budget">>,
             <<Open,                               "attempt">>,
             <<Runs >= Limit,                      "limit">>,
             <<LoneInvalid /\ Latest.b # b,        "unavailable">>,
             <<\E i \in 1 .. Runs : att[i].out = "server_rejected" /\ att[i].b # b,
                                                   "rejection">>,
             <<Has("server_rejected") /\ ~cool,    "backoff">>,
             <<busy = "slot",                      "capacity">> >>
  <1>1. First(cs, "ok") = "ok"
    BY DEF BeginError
  <1>2. DOMAIN cs = 1 .. 15
    OBVIOUS
  <1>3. \A i \in 1 .. 15 : cs[i][2] # "ok"
    OBVIOUS
  <1>4. /\ cs[1] = <<~Fresh \/ tk.st # "run", "stale">>
        /\ cs[10] = <<Open, "attempt">>
        /\ cs[11] = <<Runs >= Limit, "limit">>
    OBVIOUS
  <1> HIDE DEF cs
  <1>5. \A i \in 1 .. 15 : ~cs[i][1]
    BY <1>1, <1>2, <1>3, FellThrough, 15 \in Nat
  <1>6. ~cs[1][1] /\ ~cs[10][1] /\ ~cs[11][1]
    BY <1>5
  <1>8. /\ cs[1][1] = (~Fresh \/ tk.st # "run") /\ cs[10][1] = Open /\ cs[11][1] = (Runs >= Limit)
    BY <1>4
  <1>7. ~(~Fresh \/ tk.st # "run") /\ ~Open /\ ~(Runs >= Limit)
    BY <1>6, <1>8, Zenon
  <1> QED
    BY <1>7

LEMMA FallthroughIn == Fallthrough \in Codes
  BY DEF Fallthrough, Codes

LEMMA PreflightIn == PreflightCode \in Codes
  <1> DEFINE cs == << <<fatal \/ ~Fresh \/ job.ctx,             "operator">>,
             <<LatestIn({"result_indeterminate"}),      "indeterminate">>,
             <<Reusable,                                "completed">>,
             <<Conflict,                                "operator">>,
             <<InterruptedRepair,                       "unavailable">> >>
  <1>1. DOMAIN cs = 1 .. 5
    OBVIOUS
  <1>2. \A i \in 1 .. 5 : cs[i][2] \in Codes
    BY DEF Codes
  <1>3. First(cs, "none") \in Codes
    <2> HIDE DEF cs
    <2> QED
      BY <1>1, <1>2, FirstIn, 5 \in Nat, "none" \in Codes DEF Codes
  <1> QED
    BY <1>3 DEF PreflightCode

LEMMA BeginIn == ASSUME NEW e PROVE BeginCode(e) \in Codes
  <1> DEFINE cs == << <<e \in {"rejection", "indeterminate"}, "indeterminate">>,
             <<e = "budget",                         "budget">>,
             <<e = "reusable",                       "completed">>,
             <<e = "unavailable",                    "unavailable">>,
             <<e = "limit",                          "exhausted">>,
             <<RepairRequired,                       "unavailable">>,
             <<e = "capacity",                       "operator">> >>
  <1>1. DOMAIN cs = 1 .. 7
    OBVIOUS
  <1>2. \A i \in 1 .. 7 : cs[i][2] \in Codes
    BY DEF Codes
  <1>3. First(cs, Fallthrough) \in Codes
    <2> HIDE DEF cs
    <2> QED
      BY <1>1, <1>2, FirstIn, FallthroughIn, 7 \in Nat
  <1> QED
    BY <1>3 DEF BeginCode

LEMMA RouteIn == ASSUME NEW b PROVE RouteCode(b) \in Codes
  <1> DEFINE cs == << <<job.ctx,                                          "canceled">>,
             <<b = NoBinding /\ job.rej # NoBinding,              "operator">>,
             <<b = NoBinding /\ job.rep,                          "unavailable">>,
             <<b = NoBinding,                                     Fallthrough>>,
             <<job.rej # NoBinding /\ b # job.rej,                "operator">>,
             <<job.pend # NoBinding /\ b # job.pend,              Fallthrough>>,
             <<late,                                              "budget">>,
             <<BeginError(b) \in {"ok", "backoff"},               "none">> >>
  <1>1. DOMAIN cs = 1 .. 8
    OBVIOUS
  <1>2. \A i \in 1 .. 8 : cs[i][2] \in Codes
    BY FallthroughIn DEF Codes
  <1>3. First(cs, BeginCode(BeginError(b))) \in Codes
    <2> HIDE DEF cs
    <2> QED
      BY <1>1, <1>2, FirstIn, BeginIn, 8 \in Nat
  <1> QED
    BY <1>3 DEF RouteCode

-----------------------------------------------------------------------------
(* What the writes of an action come to *)

\* Only the newest attempt changes, and with it what the ticket has spent.
LEMMA AttIs ==
  ASSUME Typed
  PROVE  /\ att \in Seq(AttSet) /\ Runs = Len(att) /\ Runs \in 0 .. 4 /\ DOMAIN att = 1 .. Runs
         /\ \A i \in 1 .. Runs : att[i] \in AttSet /\ att[i].cost \in Nat
         /\ \A i \in 1 .. 4 : Charge(i) \in Nat
         /\ Spent \in Nat
  <1>1. att \in Seq(AttSet) /\ Runs = Len(att) /\ Runs \in 0 .. 4
    BY DEF Typed, Runs
  <1>2. DOMAIN att = 1 .. Runs /\ \A i \in 1 .. Runs : att[i] \in AttSet
    BY <1>1
  <1>3. \A a \in AttSet : a.cost \in Nat
    BY DEF AttSet
  <1>4. ASSUME NEW i \in 1 .. 4 PROVE Charge(i) \in Nat
    <2>1. CASE i <= Runs
      BY <1>1, <1>2, <1>3, <2>1 DEF Charge
    <2>2. CASE ~(i <= Runs)
      BY <2>2 DEF Charge
    <2> QED
      BY <2>1, <2>2
  <1>5. Charge(1) \in Nat /\ Charge(2) \in Nat /\ Charge(3) \in Nat /\ Charge(4) \in Nat
    BY <1>4
  <1>6. Spent \in Nat
    BY <1>5 DEF Spent
  <1> QED
    BY <1>1, <1>2, <1>3, <1>4, <1>6

LEMMA PutIs ==
  ASSUME Typed, Runs > 0, NEW a \in AttSet, att' = [att EXCEPT ![Runs] = a]
  PROVE  /\ att' \in Seq(AttSet) /\ Runs' = Runs /\ Latest' = a
         /\ \A i \in 1 .. Runs : i # Runs => att'[i] = att[i]
         /\ Spent' = (Spent - Latest.cost) + a.cost
  <1>1. att' \in Seq(AttSet) /\ Len(att') = Len(att)
    BY AttIs
  <1>2. Runs' = Runs
    BY <1>1 DEF Runs
  <1>3. \A i \in 1 .. Runs : att'[i] = IF i = Runs THEN a ELSE att[i]
    BY AttIs
  <1>4. Runs \in 1 .. 4 /\ Latest.cost = att[Runs].cost /\ a.cost \in Nat /\ Latest' = a
    BY SMTT(30), <1>2, <1>3, AttIs DEF Latest, AttSet
  <1>5. ASSUME NEW i \in 1 .. 4
        PROVE  /\ i = Runs => Charge(i)' = a.cost /\ Charge(i) = Latest.cost
               /\ i # Runs => Charge(i)' = Charge(i)
    <2>1. Charge(i)' = IF i <= Runs THEN att'[i].cost ELSE 0
      BY <1>2 DEF Charge
    <2> QED
      BY <1>3, <1>4, <2>1, AttIs DEF Charge
  <1>6. Spent' = Charge(1)' + Charge(2)' + Charge(3)' + Charge(4)'
    BY DEF Spent
  <1>7. Charge(1) \in Nat /\ Charge(2) \in Nat /\ Charge(3) \in Nat /\ Charge(4) \in Nat
    BY AttIs
  <1>8. Spent' = (Spent - Latest.cost) + a.cost
    <2>1. CASE Runs = 1
      BY <1>4, <1>5, <1>6, <1>7, <2>1 DEF Spent
    <2>2. CASE Runs = 2
      BY <1>4, <1>5, <1>6, <1>7, <2>2 DEF Spent
    <2>3. CASE Runs = 3
      BY <1>4, <1>5, <1>6, <1>7, <2>3 DEF Spent
    <2>4. CASE Runs = 4
      BY <1>4, <1>5, <1>6, <1>7, <2>4 DEF Spent
    <2> QED
      BY <1>4, <2>1, <2>2, <2>3, <2>4
  <1> QED
    BY <1>1, <1>2, <1>3, <1>4, <1>8

LEMMA FinishedIs ==
  ASSUME Typed, Runs > 0, NEW o \in Closed, NEW c \in Nat, Finished(o, c)
  PROVE  /\ att' \in Seq(AttSet) /\ Runs' = Runs
         /\ Latest'.out = o /\ Latest'.cost = c /\ Latest'.launch = "drained"
         /\ \A i \in 1 .. Runs : i # Runs => att'[i] = att[i]
         /\ Spent' = (Spent - Latest.cost) + c
  <1> DEFINE a == [att[Runs] EXCEPT !.out = o, !.cost = c, !.launch = "drained"]
  <1>1. att[Runs] \in AttSet /\ DOMAIN att = 1 .. Runs
    BY DEF Typed, Runs
  <1>2. a \in AttSet /\ a.out = o /\ a.cost = c /\ a.launch = "drained"
    BY <1>1 DEF AttSet
  <1>3. att' = [att EXCEPT ![Runs] = a]
    BY <1>1 DEF Finished
  <1> HIDE DEF a
  <1> QED
    BY <1>2, <1>3, PutIs

-----------------------------------------------------------------------------
(* The steps that leave the attempts alone *)

LEMMA Facts ==
  ASSUME Inv
  PROVE  /\ Typed /\ job \in JobSet /\ tk \in TkSet
         /\ job.pc \in Pcs /\ job.f \in FenceSet /\ job.f.v \in Nat /\ tk.v \in Nat /\ tk.r \in Nat
         /\ Fence \in FenceSet /\ Fence.v = tk.v
         /\ MaxBoot \in Nat /\ MaxCost \in Nat
  <1>1. Typed /\ job \in JobSet /\ tk \in TkSet /\ leader \in Nat
    BY DEF Inv, Typed
  <1>2. job.pc \in Pcs /\ job.f \in FenceSet
    BY <1>1 DEF JobSet
  <1>3. tk.v \in Nat /\ tk.r \in Nat
    BY <1>1 DEF TkSet
  <1>4. job.f.v \in Nat /\ Fence \in FenceSet /\ Fence.v = tk.v
    BY <1>1, <1>2, <1>3 DEF FenceSet, Fence
  <1> QED
    BY <1>1, <1>2, <1>3, <1>4, AttemptAssumption

LEMMA NoJobIs == NoJob \in JobSet /\ NoJob.pc = "idle"
  <1>1. NoFence \in FenceSet
    BY DEF NoFence, FenceSet
  <1> QED
    BY <1>1 DEF NoJob, JobSet, Pcs, MaybeB, OpenOut, Codes

LEMMA KeepAtt ==
  ASSUME Inv, UNCHANGED att, Typed', Grouped', Calling', Fenced'
  PROVE  Inv'
  <1>1. Runs' = Runs
    BY DEF Runs
  <1>2. NewestOpen' /\ Marked'
    BY <1>1 DEF Inv, NewestOpen, Marked
  <1>3. \A i : Charge(i)' = Charge(i)
    BY <1>1 DEF Charge
  <1>4. SpentWithinBudget'
    BY <1>3 DEF Inv, SpentWithinBudget, Spent
  <1> QED
    BY <1>2, <1>4 DEF Inv

\* A call moves on without touching a group or a fence.
LEMMA JobMoves ==
  ASSUME Inv, UNCHANGED <<tk, leader, att, up, proc, boot>>, fatal' \in BOOLEAN,
         cool' \in BOOLEAN, late' \in BOOLEAN, busy' \in {"no", "writer", "slot"},
         job' \in JobSet,
         job'.pc # "idle" => \/ job.pc # "idle" /\ job'.f = job.f
                             \/ job'.f = Fence /\ tk.st \notin Stops,
         job'.pc \in Claimed => job.pc \in Claimed,
         job'.pc \in Finishing => job.pc \in Finishing,
         job'.pc \in {"returned", "drained", "retire", "budget"} => job'.out \in Closed,
         up \in {"down", "recovering"} => job'.pc = "idle"
  PROVE  Inv'
  <1>1. Typed'
    BY DEF Inv, Typed, Runs
  <1>2. Grouped'
    BY DEF Inv, Grouped, Runs, Latest
  <1>3. Calling'
    BY DEF Inv, Calling, Runs, Latest
  <1>4. Fenced'
    BY Facts DEF Inv, Fenced
  <1> QED
    BY <1>1, <1>2, <1>3, <1>4, KeepAtt

LEMMA StartPhaseStep ==
  ASSUME Inv, StartPhase PROVE Inv'
  <1> DEFINE q == IF Has("completed") THEN "verdict" ELSE "preflight"
             s == IF Has("completed") THEN "completed" ELSE "none"
             j == [NoJob EXCEPT !.pc = q, !.res = s, !.f = Fence]
  <1>1. q \in {"verdict", "preflight"} /\ s \in Codes
    BY DEF Codes
  <1>2. job' = j
    BY DEF StartPhase
  <1> HIDE DEF q, s
  <1>3. j \in JobSet /\ j.pc = q /\ j.f = Fence
    BY <1>1, NoJobIs, Facts DEF JobSet, Pcs
  <1> HIDE DEF j
  <1>4. tk.st \notin Stops /\ up = "serving"
    BY DEF StartPhase, Stops
  <1>5. UNCHANGED <<tk, leader, att, cool, late, busy, up, fatal, proc, boot>>
    BY DEF StartPhase, durable, clocks, world
  <1> QED
    BY <1>1, <1>2, <1>3, <1>4, <1>5, JobMoves DEF Claimed, Finishing, Inv, Typed

LEMMA PreflightStep ==
  ASSUME Inv, Preflight PROVE Inv'
  <1> DEFINE q == IF PreflightCode = "none" THEN "route" ELSE "verdict"
             x == IF LoneInvalid THEN Latest.b ELSE NoBinding
             y == IF LatestIn({"server_rejected"}) THEN Latest.b ELSE NoBinding
             j == [job EXCEPT !.pc = q, !.res = PreflightCode, !.pend = x, !.rej = y]
  <1>1. q \in {"verdict", "route"}
    OBVIOUS
  <1>2. Runs > 0 => Latest.b \in Bindings
    <2>1. Runs > 0 => Latest \in AttSet
      BY Facts, AttIs DEF Latest
    <2> QED
      BY <2>1 DEF AttSet
  <1>3. x \in MaybeB /\ y \in MaybeB
    BY <1>2 DEF MaybeB, LoneInvalid, LatestIn
  <1>4. job' = j
    BY DEF Preflight
  <1> HIDE DEF q, x, y
  <1>5. j \in JobSet /\ j.pc = q /\ j.f = job.f
    BY <1>1, <1>3, Facts, PreflightIn DEF JobSet, Pcs
  <1> HIDE DEF j
  <1>6. /\ job.pc = "preflight"
        /\ UNCHANGED <<tk, leader, att, cool, late, busy, up, fatal, proc, boot>>
    BY DEF Preflight, durable, clocks, world
  <1>7. up \notin {"down", "recovering"}
    BY <1>6 DEF Inv, Calling
  <1> QED
    BY <1>1, <1>4, <1>5, <1>6, <1>7, JobMoves DEF Claimed, Finishing, Inv, Typed

LEMMA RefuseStep ==
  ASSUME Inv, NEW b, Refuse(b) PROVE Inv'
  <1> DEFINE j == [job EXCEPT !.pc = "verdict", !.res = RouteCode(b)]
  <1>1. job' = j
    BY DEF Refuse
  <1>2. j \in JobSet /\ j.pc = "verdict" /\ j.f = job.f
    BY Facts, RouteIn DEF JobSet, Pcs
  <1> HIDE DEF j
  <1>3. /\ job.pc = "route"
        /\ UNCHANGED <<tk, leader, att, cool, late, busy, up, fatal, proc, boot>>
    BY DEF Refuse, durable, clocks, world
  <1>4. up \notin {"down", "recovering"}
    BY <1>3 DEF Inv, Calling
  <1> QED
    BY <1>1, <1>2, <1>3, <1>4, JobMoves DEF Claimed, Finishing, Inv, Typed

LEMMA DrainFailsStep ==
  ASSUME Inv, DrainFails PROVE Inv'
  <1> DEFINE j == [job EXCEPT !.pc = "undrained"]
  <1>1. job' = j
    BY DEF DrainFails
  <1>2. j \in JobSet /\ j.pc = "undrained" /\ j.f = job.f
    BY Facts DEF JobSet, Pcs
  <1> HIDE DEF j
  <1>3. /\ job.pc = "returned"
        /\ UNCHANGED <<tk, leader, att, cool, late, busy, up, fatal, proc, boot>>
    BY DEF DrainFails, durable, clocks, world
  <1>4. up \notin {"down", "recovering"}
    BY <1>3 DEF Inv, Calling
  <1> QED
    BY <1>1, <1>2, <1>3, <1>4, JobMoves DEF Claimed, Finishing, Inv, Typed

LEMMA CancelWorkStep ==
  ASSUME Inv, CancelWork PROVE Inv'
  <1> DEFINE j == [job EXCEPT !.ctx = TRUE]
  <1>1. job' = j
    BY DEF CancelWork
  <1>2. j \in JobSet /\ j.pc = job.pc /\ j.f = job.f /\ j.out = job.out
    BY Facts DEF JobSet
  <1> HIDE DEF j
  <1>3. UNCHANGED <<tk, leader, att, cool, late, busy, up, fatal, proc, boot>>
    BY DEF CancelWork, durable, clocks, world
  <1> QED
    BY <1>1, <1>2, <1>3, JobMoves DEF Inv, Typed, Calling

LEMMA ClockStep ==
  ASSUME Inv, UNCHANGED <<tk, leader, att, up, job, fatal, proc, boot>>,
         cool' \in BOOLEAN, late' \in BOOLEAN, busy' \in {"no", "writer", "slot"}
  PROVE  Inv'
  BY Facts, JobMoves DEF Inv, Typed, Calling

LEMMA ProcIs ==
  ASSUME Typed, NEW i \in Ids, NEW p \in {"gone", "gated", "live", "stray"},
         proc' = [proc EXCEPT ![i] = p]
  PROVE  /\ proc' \in [Ids -> {"gone", "gated", "live", "stray"}]
         /\ proc'[i] = p /\ \A k \in Ids \ {i} : proc'[k] = proc[k]
  BY DEF Typed

\* A call that has claimed changes the group of its attempt.
LEMMA GroupMoves ==
  ASSUME Inv, UNCHANGED <<tk, leader, att, cool, late, busy, up, fatal, boot>>,
         job.pc \in Claimed, job' \in JobSet, job'.f = job.f, job'.pc \in Claimed,
         NEW p \in {"gone", "gated", "live", "stray"}, proc' = [proc EXCEPT ![Runs] = p],
         job'.pc \in Finishing => p = "gone",
         job'.pc \in {"returned", "drained", "retire", "budget"} => job'.out \in Closed
  PROVE  Inv'
  <1>1. Runs \in Ids /\ Runs' = Runs /\ Latest' = Latest /\ Latest.out = "running" /\ up \in {"serving", "closing"}
    <2>1. Runs \in 0 .. 4 /\ Runs > 0 /\ Latest.out = "running" /\ up \in {"serving", "closing"}
      BY Facts, AttIs DEF Inv, Calling
    <2>2. Runs' = Runs /\ Latest' = Latest
      BY DEF Runs, Latest
    <2> QED
      BY <2>1, <2>2 DEF Ids
  <1>2. /\ proc' \in [Ids -> {"gone", "gated", "live", "stray"}]
        /\ proc'[Runs] = p /\ \A k \in Ids \ {Runs} : proc'[k] = proc[k]
    BY <1>1, Facts, ProcIs
  <1>3. Typed'
    BY <1>1, <1>2 DEF Inv, Typed
  <1>4. Grouped'
    BY <1>1, <1>2 DEF Inv, Grouped, OpenOut
  <1>5. Calling'
    BY <1>1, <1>2 DEF Inv, Calling, Claimed
  <1>6. Fenced'
    BY Facts DEF Inv, Fenced, Claimed
  <1> QED
    BY <1>3, <1>4, <1>5, <1>6, KeepAtt

LEMMA SpawnStep ==
  ASSUME Inv, Spawn PROVE Inv'
  <1> DEFINE j == [job EXCEPT !.pc = "gated"]
  <1>1. job' = j
    BY DEF Spawn
  <1>2. j \in JobSet /\ j.pc = "gated" /\ j.f = job.f
    BY Facts DEF JobSet, Pcs
  <1> HIDE DEF j
  <1>3. /\ job.pc = "claimed" /\ proc' = [proc EXCEPT ![Runs] = "gated"]
        /\ UNCHANGED <<tk, leader, att, cool, late, busy, up, fatal, boot>>
    BY DEF Spawn, durable, clocks
  <1> QED
    BY <1>1, <1>2, <1>3, GroupMoves DEF Claimed, Finishing

LEMMA LaunchFailsStep ==
  ASSUME Inv, LaunchFails PROVE Inv'
  <1> DEFINE j == [job EXCEPT !.pc = "undrained"]
  <1>1. job' = j
    BY DEF LaunchFails
  <1>2. j \in JobSet /\ j.pc = "undrained" /\ j.f = job.f
    BY Facts DEF JobSet, Pcs
  <1> HIDE DEF j
  <1>3. /\ job.pc = "gated" /\ proc' = [proc EXCEPT ![Runs] = "gone"]
        /\ UNCHANGED <<tk, leader, att, cool, late, busy, up, fatal, boot>>
    BY DEF LaunchFails, durable, clocks
  <1> QED
    BY <1>1, <1>2, <1>3, GroupMoves DEF Claimed, Finishing

LEMMA ReturnStep ==
  ASSUME Inv, Return PROVE Inv'
  <1>1. PICK o \in {"completed", "invalid_artifact", "server_rejected", "result_indeterminate",
                    "cancelled"}, c \in Costs :
            job' = [job EXCEPT !.pc = "returned", !.out = o, !.cost = c]
    BY DEF Return
  <1>2. PICK p \in {"stray", "gone"} : proc' = [proc EXCEPT ![Runs] = p]
    BY DEF Return
  <1> DEFINE j == [job EXCEPT !.pc = "returned", !.out = o, !.cost = c]
  <1>3. c \in Nat /\ o \in Closed
    BY AttemptAssumption DEF Closed
  <1>4. j \in JobSet /\ j.pc = "returned" /\ j.f = job.f /\ j.out = o
    BY <1>3, Facts DEF JobSet, Pcs
  <1>5. job' = j
    BY <1>1
  <1> HIDE DEF j
  <1>6. /\ job.pc = "running"
        /\ UNCHANGED <<tk, leader, att, cool, late, busy, up, fatal, boot>>
    BY DEF Return, durable, clocks
  <1> QED
    BY <1>2, <1>3, <1>4, <1>5, <1>6, GroupMoves DEF Claimed, Finishing

LEMMA DrainStep ==
  ASSUME Inv, Drain PROVE Inv'
  <1> DEFINE j == [job EXCEPT !.pc = "drained"]
  <1>1. job' = j
    BY DEF Drain
  <1>2. j \in JobSet /\ j.pc = "drained" /\ j.f = job.f /\ j.out = job.out
    BY Facts DEF JobSet, Pcs
  <1> HIDE DEF j
  <1>3. /\ job.pc = "returned" /\ proc' = [proc EXCEPT ![Runs] = "gone"]
        /\ UNCHANGED <<tk, leader, att, cool, late, busy, up, fatal, boot>>
    BY DEF Drain, durable, clocks
  <1>4. job.out \in Closed
    BY <1>3 DEF Inv, Calling
  <1> QED
    BY <1>1, <1>2, <1>3, <1>4, GroupMoves DEF Claimed, Finishing

-----------------------------------------------------------------------------
(* The ticket and the daemon *)

\* The ticket moves on; its version does not go back, and a stop is a new one.
LEMMA TicketMoves ==
  ASSUME Inv, UNCHANGED <<att, cool, late, busy, fatal, proc, boot>>,
         tk' \in TkSet, leader' \in Nat, up' \in {"down", "recovering", "serving", "closing"},
         job' = job \/ job' = NoJob,
         tk'.v >= tk.v, tk'.st \in Stops => (tk.st \in Stops \/ tk'.v > tk.v),
         up' \in {"down", "recovering"} => job'.pc = "idle",
         job'.pc \in Claimed => up' \in {"serving", "closing"}
  PROVE  Inv'
  <1>1. Typed'
    BY NoJobIs DEF Inv, Typed, Runs
  <1>2. Grouped'
    BY DEF Inv, Grouped, Runs, Latest
  <1>3. Calling'
    BY NoJobIs DEF Inv, Calling, Runs, Latest, Claimed, Finishing
  <1>4. Fenced'
    <2>1. tk'.v \in Nat
      BY DEF TkSet
    <2> QED
      BY <2>1, NoJobIs, Facts DEF Inv, Fenced
  <1> QED
    BY <1>1, <1>2, <1>3, <1>4, KeepAtt

LEMMA VerdictStep ==
  ASSUME Inv, Verdict PROVE Inv'
  <1> DEFINE s == Target(job.res)
             n == tk.v + 1
             x == [tk EXCEPT !.st = s, !.v = n, !.code = job.res]
  <1>1. s \in {"done", "exhausted", "blocked"} /\ job.res \in Codes
    <2>1. CASE job.res = "completed"
      BY <2>1 DEF Target, Codes
    <2>2. CASE job.res = "exhausted"
      BY <2>2 DEF Target, Codes
    <2>3. CASE job.res \notin {"completed", "exhausted"}
      BY <2>3, Facts DEF Target, JobSet
    <2> QED
      BY <2>1, <2>2, <2>3
  <1>2. s \in States /\ s \notin Stops /\ n \in Nat
    BY <1>1, Facts DEF States, Stops
  <1>3. tk' = tk \/ tk' = x
    BY DEF Verdict
  <1>4. n >= tk.v
    BY Facts
  <1> HIDE DEF s, n
  <1>5. x \in TkSet /\ x.v = n /\ x.st = s
    BY <1>1, <1>2, Facts DEF TkSet
  <1> HIDE DEF x
  <1>6. /\ job.pc = "verdict" /\ job' = NoJob
        /\ UNCHANGED <<leader, att, cool, late, busy, up, fatal, proc, boot>>
    BY DEF Verdict, clocks, world
  <1>7. tk' \in TkSet /\ tk'.v >= tk.v /\ (tk'.st \in Stops => tk.st \in Stops)
    BY <1>2, <1>3, <1>4, <1>5, Facts
  <1> QED
    BY <1>6, <1>7, NoJobIs, TicketMoves DEF Claimed, Inv, Typed

LEMMA StopStep ==
  ASSUME Inv, NEW s \in Stops, Stop(s) PROVE Inv'
  <1> DEFINE n == tk.v + 1
             m == tk.r + 1
             x == [tk EXCEPT !.st = s, !.v = n, !.r = m]
  <1>1. tk' = x
    BY DEF Stop
  <1>2. n \in Nat /\ m \in Nat /\ n > tk.v /\ n >= tk.v /\ s \in States
    BY Facts DEF States
  <1> HIDE DEF n, m
  <1>3. x \in TkSet /\ x.v = n
    BY <1>2, Facts DEF TkSet
  <1> HIDE DEF x
  <1>4. up = "serving" /\ UNCHANGED <<leader, att, cool, late, busy, up, job, fatal, proc, boot>>
    BY DEF Stop, clocks, world
  <1> QED
    BY <1>1, <1>2, <1>3, <1>4, Facts, TicketMoves DEF Inv, Typed

LEMMA CompleteStopStep ==
  ASSUME Inv, CompleteStop PROVE Inv'
  <1> DEFINE n == tk.v + 1
             s == IF tk.st = "stopping" THEN "paused" ELSE "cancelled"
             x == [tk EXCEPT !.st = s, !.v = n]
  <1>1. tk' = x
    BY DEF CompleteStop
  <1>2. n \in Nat /\ n >= tk.v /\ s \in States /\ s \notin Stops
    BY Facts DEF States, Stops
  <1> HIDE DEF n, s
  <1>3. x \in TkSet /\ x.v = n /\ x.st = s
    BY <1>2, Facts DEF TkSet
  <1> HIDE DEF x
  <1>4. up = "serving" /\ UNCHANGED <<leader, att, cool, late, busy, up, job, fatal, proc, boot>>
    BY DEF CompleteStop, clocks, world
  <1> QED
    BY <1>1, <1>2, <1>3, <1>4, Facts, TicketMoves DEF Inv, Typed

LEMMA ResumeStep ==
  ASSUME Inv, Resume PROVE Inv'
  <1> DEFINE n == tk.v + 1
             x == [tk EXCEPT !.st = "run", !.v = n]
  <1>1. tk' = x
    BY DEF Resume
  <1>2. n \in Nat /\ n >= tk.v /\ "run" \in States /\ "run" \notin Stops
    BY Facts DEF States, Stops
  <1> HIDE DEF n
  <1>3. x \in TkSet /\ x.v = n /\ x.st = "run"
    BY <1>2, Facts DEF TkSet
  <1> HIDE DEF x
  <1>4. up = "serving" /\ UNCHANGED <<leader, att, cool, late, busy, up, job, fatal, proc, boot>>
    BY DEF Resume, clocks, world
  <1> QED
    BY <1>1, <1>2, <1>3, <1>4, Facts, TicketMoves DEF Inv, Typed

LEMMA ProviderRetryStep ==
  ASSUME Inv, TransitionProviderRetry PROVE Inv'
  <1> DEFINE n == tk.v + 1
             x == [tk EXCEPT !.st = "run", !.v = n, !.code = "none", !.epoch = TRUE]
  <1>1. tk' = x
    BY DEF TransitionProviderRetry
  <1>2. n \in Nat /\ n >= tk.v /\ "run" \in States /\ "run" \notin Stops /\ "none" \in Codes
    BY Facts DEF States, Stops, Codes
  <1> HIDE DEF n
  <1>3. x \in TkSet /\ x.v = n /\ x.st = "run"
    BY <1>2, Facts DEF TkSet
  <1> HIDE DEF x
  <1>4. up = "serving" /\ UNCHANGED <<leader, att, cool, late, busy, up, job, fatal, proc, boot>>
    BY DEF TransitionProviderRetry, clocks, world
  <1> QED
    BY <1>1, <1>2, <1>3, <1>4, Facts, TicketMoves DEF Inv, Typed

LEMMA StartStep ==
  ASSUME Inv, Start PROVE Inv'
  <1> DEFINE n == tk.v + 1
             m == tk.r + 1
             x == [tk EXCEPT !.v = n, !.r = m]
  <1>1. tk' = tk \/ tk' = x
    BY DEF Start
  <1>2. n \in Nat /\ m \in Nat /\ n >= tk.v
    BY Facts
  <1> HIDE DEF n, m
  <1>3. x \in TkSet /\ x.v = n /\ x.st = tk.st
    BY <1>2, Facts DEF TkSet
  <1> HIDE DEF x
  <1>4. /\ up = "down" /\ up' = "recovering" /\ leader' = leader + 1
        /\ UNCHANGED <<att, cool, late, busy, job, fatal, proc, boot>>
    BY DEF Start, clocks, world
  <1>5. job.pc = "idle" /\ leader' \in Nat
    BY <1>4 DEF Inv, Typed, Calling
  <1>6. tk' \in TkSet /\ tk'.v >= tk.v /\ (tk'.st \in Stops => tk.st \in Stops)
    BY <1>1, <1>2, <1>3, Facts
  <1> QED
    BY <1>4, <1>5, <1>6, TicketMoves DEF Claimed

LEMMA ServeStep ==
  ASSUME Inv, Serve PROVE Inv'
  <1>1. /\ up = "recovering" /\ up' = "serving"
        /\ UNCHANGED <<tk, leader, att, cool, late, busy, job, fatal, proc, boot>>
    BY DEF Serve, durable, clocks, world
  <1> QED
    BY <1>1, Facts, TicketMoves DEF Inv, Typed

LEMMA ExitStep ==
  ASSUME Inv, Exit PROVE Inv'
  <1>1. /\ up' = "down" /\ job.pc = "idle" /\ fatal' = FALSE
        /\ UNCHANGED <<tk, leader, att, cool, late, busy, job, proc, boot>>
    BY DEF Exit, durable, clocks, world
  <1>2. Typed'
    BY <1>1 DEF Inv, Typed, Runs
  <1>3. Grouped'
    BY <1>1 DEF Inv, Grouped, Runs, Latest
  <1>4. Calling' /\ Fenced'
    BY <1>1 DEF Calling, Fenced, Claimed, Finishing
  <1> QED
    BY <1>1, <1>2, <1>3, <1>4, KeepAtt

LEMMA CloseStep ==
  ASSUME Inv, Close PROVE Inv'
  <1>1. PICK c \in BOOLEAN : c = (job.pc # "idle")
    OBVIOUS
  <1> DEFINE j == [job EXCEPT !.ctx = c]
  <1>2. job' = j
    BY <1>1, Zenon DEF Close
  <1>3. j \in JobSet /\ j.pc = job.pc /\ j.f = job.f /\ j.out = job.out
    BY Facts DEF JobSet
  <1> HIDE DEF j
  <1>4. /\ up = "serving" /\ up' = "closing"
        /\ UNCHANGED <<tk, leader, att, cool, late, busy, fatal, proc, boot>>
    BY DEF Close, durable, clocks, world
  <1>5. Typed'
    BY <1>2, <1>3, <1>4 DEF Inv, Typed, Runs
  <1>6. Grouped'
    BY <1>4 DEF Inv, Grouped, Runs, Latest
  <1>7. Calling' /\ Fenced'
    BY <1>2, <1>3, <1>4 DEF Inv, Calling, Fenced, Runs, Latest
  <1> QED
    BY <1>4, <1>5, <1>6, <1>7, KeepAtt

\* No daemon runs and groups only end: the attempts are as they were.
LEMMA DownMoves ==
  ASSUME Inv, UNCHANGED <<tk, leader, att, cool, late, busy>>,
         up' = "down", fatal' \in BOOLEAN, job' \in JobSet, job'.pc = "idle", boot' \in 1 .. MaxBoot,
         proc' \in [Ids -> {"gone", "gated", "live", "stray"}],
         \A i \in Ids : proc'[i] # "gone" => proc[i] # "gone"
  PROVE  Inv'
  <1>1. Typed'
    BY DEF Inv, Typed, Runs
  <1>2. Grouped'
    BY DEF Inv, Grouped, Runs, Latest
  <1>3. Calling' /\ Fenced'
    BY DEF Calling, Fenced, Claimed, Finishing
  <1> QED
    BY <1>1, <1>2, <1>3, KeepAtt

LEMMA CrashStep ==
  ASSUME Inv, Crash PROVE Inv'
  <1>1. /\ up' = "down" /\ job' = NoJob /\ fatal' = FALSE
        /\ proc' = [i \in Ids |-> IF proc[i] = "gated" THEN "gone" ELSE proc[i]]
        /\ UNCHANGED <<tk, leader, att, cool, late, busy, boot>>
    BY DEF Crash, durable, clocks
  <1>2. /\ proc' \in [Ids -> {"gone", "gated", "live", "stray"}]
        /\ \A i \in Ids : proc'[i] # "gone" => proc[i] # "gone"
    BY <1>1 DEF Inv, Typed
  <1> QED
    BY <1>1, <1>2, NoJobIs, DownMoves DEF Inv, Typed

LEMMA ProcessEndsStep ==
  ASSUME Inv, NEW i \in Ids, ProcessEnds(i) PROVE Inv'
  <1>1. PICK p \in {"stray", "gone"} : proc' = [proc EXCEPT ![i] = p]
    BY DEF ProcessEnds
  <1>2. /\ up = "down" /\ proc[i] # "gone"
        /\ UNCHANGED <<tk, leader, att, cool, late, busy, up, job, fatal, boot>>
    BY DEF ProcessEnds, durable, clocks
  <1>3. /\ proc' \in [Ids -> {"gone", "gated", "live", "stray"}]
        /\ \A k \in Ids : proc'[k] # "gone" => proc[k] # "gone"
    BY <1>1, <1>2 DEF Inv, Typed
  <1>4. job.pc = "idle"
    BY <1>2 DEF Inv, Calling
  <1> QED
    BY <1>2, <1>3, <1>4, DownMoves DEF Inv, Typed

LEMMA RebootStep ==
  ASSUME Inv, Reboot PROVE Inv'
  <1>1. /\ up = "down" /\ boot < MaxBoot /\ boot' = boot + 1 /\ proc' = [i \in Ids |-> "gone"]
        /\ UNCHANGED <<tk, leader, att, cool, late, busy, up, job, fatal>>
    BY DEF Reboot, durable, clocks
  <1>2. boot' \in 1 .. MaxBoot
    BY <1>1, Facts DEF Inv, Typed
  <1>3. job.pc = "idle"
    BY <1>1 DEF Inv, Calling
  <1> QED
    BY <1>1, <1>2, <1>3, DownMoves DEF Inv, Typed

LEMMA ClocksStep ==
  ASSUME Inv, NEW b, DeadlinePasses \/ CoolDown \/ Contend \/ AwaitBackoff(b) PROVE Inv'
  <1>1. UNCHANGED <<tk, leader, att, up, job, fatal, proc, boot>>
    BY DEF DeadlinePasses, CoolDown, Contend, AwaitBackoff, durable, world
  <1>2. cool' \in BOOLEAN /\ late' \in BOOLEAN /\ busy' \in {"no", "writer", "slot"}
    BY DEF DeadlinePasses, CoolDown, Contend, AwaitBackoff, Inv, Typed
  <1> QED
    BY <1>1, <1>2, ClockStep

-----------------------------------------------------------------------------
(* The steps that write the newest attempt *)

\* Everything but the sequence of attempts keeps its type.
RestTyped ==
    /\ tk \in TkSet /\ leader \in Nat
    /\ cool \in BOOLEAN /\ late \in BOOLEAN /\ busy \in {"no", "writer", "slot"}
    /\ up \in {"down", "recovering", "serving", "closing"}
    /\ job \in JobSet /\ fatal \in BOOLEAN
    /\ proc \in [Ids -> {"gone", "gated", "live", "stray"}]
    /\ boot \in 1 .. MaxBoot

\* The newest attempt, open so far, is rewritten.
LEMMA PutMoves ==
  ASSUME Inv, Runs > 0, Latest.out \in OpenOut,
         NEW a \in AttSet, att' = [att EXCEPT ![Runs] = a],
         a.out \in OpenOut => a.cost = 0,
         a.launch = "drained" <=> a.out \in Closed,
         Spent + a.cost <= MaxCost,
         RestTyped', Calling', Fenced',
         \A i \in Ids : proc'[i] # "gone" => proc[i] # "gone" \/ i = Runs,
         a.out \in Closed => proc'[Runs] = "gone"
  PROVE  Inv'
  <1>1. /\ att' \in Seq(AttSet) /\ Runs' = Runs /\ Latest' = a
        /\ \A i \in 1 .. Runs : i # Runs => att'[i] = att[i]
        /\ Spent' = (Spent - Latest.cost) + a.cost
    BY Facts, PutIs
  <1>2. Runs \in 1 .. 4 /\ Latest.cost = 0 /\ Latest = att[Runs] /\ att'[Runs] = a
    BY SMTT(30), <1>1, Facts, AttIs DEF Inv, NewestOpen, Latest
  <1>3. SpentWithinBudget'
    <2>1. Spent \in Nat /\ a.cost \in Nat /\ Latest.cost = 0
      BY <1>2, Facts, AttIs DEF AttSet
    <2>2. Spent' = Spent + a.cost
      BY <1>1, <2>1
    <2> QED
      BY <2>2 DEF SpentWithinBudget
  <1>4. Typed'
    BY <1>1, <1>2 DEF Typed, RestTyped
  <1>5. NewestOpen'
    BY <1>1, <1>2 DEF Inv, NewestOpen
  <1>6. Marked'
    BY <1>1, <1>2 DEF Inv, Marked
  <1>7. a.out \in OpenOut \cup Closed
    BY DEF AttSet
  <1>8. Grouped'
    BY <1>1, <1>2, <1>7 DEF Inv, Grouped
  <1> QED
    BY <1>3, <1>4, <1>5, <1>6, <1>8 DEF Inv

\* The attempt ends: the call has given it up and its group is gone.
LEMMA FinishMoves ==
  ASSUME Inv, Runs > 0, Latest.out \in OpenOut, NEW o \in Closed, NEW c \in Nat, Finished(o, c),
         Spent + c <= MaxCost,
         RestTyped', Calling', Fenced',
         \A i \in Ids : proc'[i] # "gone" => proc[i] # "gone" \/ i = Runs,
         proc'[Runs] = "gone"
  PROVE  Inv'
  <1> DEFINE a == [att[Runs] EXCEPT !.out = o, !.cost = c, !.launch = "drained"]
  <1>1. att[Runs] \in AttSet /\ DOMAIN att = 1 .. Runs
    BY SMTT(30), Facts, AttIs
  <1>2. a \in AttSet /\ a.out = o /\ a.cost = c /\ a.launch = "drained"
    BY <1>1 DEF AttSet
  <1>3. att' = [att EXCEPT ![Runs] = a]
    BY <1>1 DEF Finished
  <1>4. o \notin OpenOut
    BY DEF OpenOut, Closed
  <1> HIDE DEF a
  <1> QED
    BY <1>2, <1>3, <1>4, PutMoves

\* The same where the call of the live daemon ends it.
LEMMA CallFinishes ==
  ASSUME Inv, job.pc \in Finishing, NEW o \in Closed, NEW c \in Nat, Finished(o, c),
         Spent + c <= MaxCost,
         UNCHANGED <<tk, leader, late, busy, up, proc, boot>>,
         cool' \in BOOLEAN, fatal' \in BOOLEAN,
         job' \in JobSet, job'.f = job.f, job'.pc \in {"route", "verdict"}
  PROVE  Inv'
  <1>1. Runs > 0 /\ Latest.out \in OpenOut /\ up \in {"serving", "closing"} /\ proc[Runs] = "gone"
    BY DEF Inv, Calling, Finishing, Claimed, OpenOut
  <1>2. RestTyped'
    BY DEF Inv, Typed, RestTyped
  <1>3. Calling'
    BY <1>1 DEF Calling, Claimed, Finishing
  <1>4. Fenced'
    BY DEF Inv, Fenced, Finishing
  <1> QED
    BY <1>1, <1>2, <1>3, <1>4, FinishMoves

\* What is spent while an attempt is open leaves it uncharged.
LEMMA SpentIs ==
  ASSUME Inv PROVE Spent \in Nat /\ MaxCost \in Nat /\ Spent <= MaxCost /\ Spent + 0 <= MaxCost
  BY Facts, AttIs DEF Inv, SpentWithinBudget

LEMMA InvocationFailsStep ==
  ASSUME Inv, InvocationFails PROVE Inv'
  <1> DEFINE o == IF Fresh THEN "invocation_failed" ELSE "cancelled"
             cs(refused) == << <<~Fresh \/ job.ctx, "canceled">>, <<refused, "operator">>,
                               <<job.rep, "unavailable">> >>
             code(refused) == First(cs(refused), Fallthrough)
             j(refused) == [job EXCEPT !.pc = "verdict", !.res = code(refused)]
  <1>1. /\ job.pc = "claimed" /\ Finished(o, 0)
        /\ UNCHANGED <<tk, leader, cool, late, busy, up, fatal, proc, boot>>
    BY DEF InvocationFails, clocks, world
  <1>2. PICK refused : job' = j(refused)
    BY DEF InvocationFails
  <1>3. code(refused) \in Codes
    <2>1. DOMAIN cs(refused) = 1 .. 3
      OBVIOUS
    <2>2. \A i \in 1 .. 3 : cs(refused)[i][2] \in Codes
      BY DEF Codes
    <2> HIDE DEF cs
    <2> QED
      BY <2>1, <2>2, FirstIn, FallthroughIn, 3 \in Nat
  <1> HIDE DEF code
  <1>4. j(refused) \in JobSet /\ j(refused).pc = "verdict" /\ j(refused).f = job.f
    BY <1>3, Facts DEF JobSet, Pcs
  <1> HIDE DEF j
  <1>5. o \in Closed /\ 0 \in Nat /\ job.pc \in Finishing
    BY <1>1 DEF Closed, Finishing
  <1> HIDE DEF o
  <1>6. cool' \in BOOLEAN /\ fatal' \in BOOLEAN
    BY <1>1 DEF Inv, Typed
  <1> QED
    BY <1>1, <1>2, <1>4, <1>5, <1>6, SpentIs, CallFinishes

LEMMA RetireStep ==
  ASSUME Inv, RetireAfterControl PROVE Inv'
  <1> DEFINE exact == /\ leader = job.f.l /\ tk.v = job.f.v + 1 /\ tk.r = job.f.r + 1
                      /\ tk.st \in Stops /\ Latest.out = "running"
             s == IF exact THEN "canceled" ELSE "operator"
             j == [job EXCEPT !.pc = "verdict", !.res = s]
  <1>1. /\ job.pc = "retire" /\ job' = j
        /\ fatal' = (fatal \/ ~exact)
        /\ IF exact THEN Finished("cancelled", 0) ELSE UNCHANGED att
        /\ UNCHANGED <<tk, leader, cool, late, busy, up, proc, boot>>
    BY DEF RetireAfterControl, clocks, world
  <1>2. s \in Codes
    BY DEF Codes
  <1>3. fatal \in BOOLEAN
    BY DEF Inv, Typed
  <1>4. fatal' \in BOOLEAN
    BY <1>1, <1>3, Zenon
  <1> HIDE DEF exact, s
  <1>5. j \in JobSet /\ j.pc = "verdict" /\ j.f = job.f
    BY <1>2, Facts DEF JobSet, Pcs
  <1> HIDE DEF j
  <1>6. job.pc \in Finishing /\ job.pc \in Claimed /\ "cancelled" \in Closed /\ 0 \in Nat
    BY <1>1 DEF Closed, Finishing, Claimed
  <1>7. cool' \in BOOLEAN /\ late' \in BOOLEAN /\ busy' \in {"no", "writer", "slot"}
    BY <1>1 DEF Inv, Typed
  <1>8. CASE exact
    BY <1>1, <1>4, <1>5, <1>6, <1>7, <1>8, SpentIs, CallFinishes
  <1>9. CASE ~exact
    <2>1. up \notin {"down", "recovering"}
      BY <1>6 DEF Inv, Calling
    <2> QED
      BY <1>1, <1>4, <1>5, <1>7, <1>9, <2>1, JobMoves DEF Claimed, Finishing
  <1> QED
    BY <1>8, <1>9

LEMMA BudgetStep ==
  ASSUME Inv, FailProviderAttemptBudget PROVE Inv'
  <1> DEFINE c == IF job.cost > MaxCost - Spent THEN MaxCost - Spent ELSE job.cost
             s == IF Fresh THEN "budget" ELSE "operator"
             j == [job EXCEPT !.pc = "verdict", !.res = s]
  <1>1. /\ job.pc = "budget" /\ job' = j
        /\ fatal' = (fatal \/ ~Fresh)
        /\ IF Fresh THEN Finished("budget_exhausted", c) ELSE UNCHANGED att
        /\ UNCHANGED <<tk, leader, cool, late, busy, up, proc, boot>>
    BY DEF FailProviderAttemptBudget, clocks, world
  <1>2. s \in Codes
    BY DEF Codes
  <1>3. fatal \in BOOLEAN /\ job.cost \in Nat
    BY Facts DEF Inv, Typed, JobSet
  <1>4. fatal' \in BOOLEAN
    BY <1>1, <1>3, Zenon
  <1>5. c \in Nat /\ Spent + c <= MaxCost
    BY <1>3, SpentIs
  <1> HIDE DEF c, s
  <1>6. j \in JobSet /\ j.pc = "verdict" /\ j.f = job.f
    BY <1>2, Facts DEF JobSet, Pcs
  <1> HIDE DEF j
  <1>7. job.pc \in Finishing /\ job.pc \in Claimed /\ "budget_exhausted" \in Closed
    BY <1>1 DEF Closed, Finishing, Claimed
  <1>8. cool' \in BOOLEAN /\ late' \in BOOLEAN /\ busy' \in {"no", "writer", "slot"}
    BY <1>1 DEF Inv, Typed
  <1>9. CASE Fresh
    BY <1>1, <1>4, <1>5, <1>6, <1>7, <1>8, <1>9, CallFinishes
  <1>10. CASE ~Fresh
    <2>1. up \notin {"down", "recovering"}
      BY <1>7 DEF Inv, Calling
    <2> QED
      BY <1>1, <1>4, <1>6, <1>8, <1>10, <2>1, JobMoves DEF Claimed, Finishing
  <1> QED
    BY <1>9, <1>10

LEMMA FinishStep ==
  ASSUME Inv, Finish PROVE Inv'
  <1> DEFINE over == late \/ Spent + job.cost > MaxCost
             spent == job.spent + job.cost
             cs == << <<job.out = "cancelled" /\ job.rep /\ ~job.ctx, "unavailable">>,
                      <<job.out = "cancelled",               "canceled">>,
                      <<job.out = "result_indeterminate",    "indeterminate">>,
                      <<job.out = "server_rejected",         "none">>,
                      <<job.out = "completed",               "completed">>,
                      <<spent >= MaxCost,                    "budget">>,
                      <<job.rep,                             "exhausted">> >>
             code == First(cs, "none")
             q == IF code = "none" THEN "route" ELSE "verdict"
             rj == IF job.out = "server_rejected" THEN job.b ELSE job.rej
             p == IF Fresh THEN "budget" ELSE "retire"
             k == [job EXCEPT !.pc = p]
  <1>1. job.pc = "drained" /\ UNCHANGED <<tk, leader, late, busy, up, fatal, proc, boot>>
    BY DEF Finish, world
  <1>2. job.pc \in Finishing /\ job.pc \in Claimed /\ job.out \in Closed
    BY <1>1 DEF Finishing, Claimed, Inv, Calling
  <1>3. late' \in BOOLEAN /\ busy' \in {"no", "writer", "slot"} /\ fatal' \in BOOLEAN /\ cool \in BOOLEAN
    BY <1>1 DEF Inv, Typed
  <1>4. CASE ~Fresh \/ over
    <2>1. job' = k /\ UNCHANGED <<att, cool>>
      BY <1>4 DEF Finish
    <2>2. p \in {"budget", "retire"}
      OBVIOUS
    <2> HIDE DEF p
    <2>3. k \in JobSet /\ k.pc = p /\ k.f = job.f /\ k.out = job.out
      BY <2>2, Facts DEF JobSet, Pcs
    <2> HIDE DEF k
    <2>4. up \notin {"down", "recovering"}
      BY <1>2 DEF Inv, Calling
    <2> QED
      BY <1>1, <1>2, <1>3, <2>1, <2>2, <2>3, <2>4, JobMoves DEF Finishing, Claimed
  <1>5. CASE ~(~Fresh \/ over)
    <2>1. PICK r \in BOOLEAN : r = (job.rep \/ job.out = "invalid_artifact")
      OBVIOUS
    <2>2. PICK w \in BOOLEAN : w = (cool /\ job.out # "server_rejected")
      OBVIOUS
    <2> DEFINE j == [job EXCEPT !.pc = q, !.res = code, !.spent = spent, !.out = "running",
                                !.cost = 0, !.rep = r, !.rej = rj]
    <2>3. Finished(job.out, job.cost)
      BY <1>5 DEF Finish
    <2>4. cool' = w
      BY <1>5, <2>2, Zenon DEF Finish
    <2>5. job' = j
      BY <1>5, <2>1, Zenon DEF Finish
    <2>6. code \in Codes
      <3>1. DOMAIN cs = 1 .. 7
        OBVIOUS
      <3>2. \A i \in 1 .. 7 : cs[i][2] \in Codes
        BY DEF Codes
      <3> HIDE DEF cs
      <3> QED
        BY <3>1, <3>2, FirstIn, 7 \in Nat, "none" \in Codes DEF Codes
    <2> HIDE DEF code
    <2>7. /\ job.cost \in Nat /\ job.spent \in Nat /\ job.b \in MaybeB /\ job.rej \in MaybeB
      BY Facts DEF JobSet
    <2>8. spent \in Nat /\ rj \in MaybeB /\ q \in {"route", "verdict"}
      BY <2>7
    <2>9. Spent + job.cost <= MaxCost
      BY <1>5, <2>7, SpentIs
    <2> HIDE DEF spent, rj, q
    <2>10. "running" \in OpenOut \cup Closed /\ 0 \in Nat
      BY DEF OpenOut
    <2>11. j \in JobSet /\ j.pc = q /\ j.f = job.f
      BY <2>6, <2>8, <2>10, Facts DEF JobSet, Pcs
    <2> HIDE DEF j
    <2> QED
      BY <1>1, <1>2, <1>3, <2>3, <2>4, <2>5, <2>7, <2>8, <2>9, <2>11, CallFinishes
  <1> QED
    BY <1>4, <1>5

LEMMA RecordLaunchStep ==
  ASSUME Inv, RecordProviderLaunch PROVE Inv'
  <1> DEFINE a == [att[Runs] EXCEPT !.launch = "released", !.boot = boot]
             j == [job EXCEPT !.pc = "running"]
  <1>1. /\ job.pc = "gated" /\ job' = j
        /\ proc' = [proc EXCEPT ![Runs] = "live"]
        /\ UNCHANGED <<tk, leader, cool, late, busy, up, fatal, boot>>
    BY DEF RecordProviderLaunch, clocks
  <1>2. Runs > 0 /\ Latest.out = "running" /\ up \in {"serving", "closing"} /\ Latest.cost = 0
    BY SMTT(30), <1>1, AttIs, Facts DEF Inv, Calling, Claimed, NewestOpen, Latest, OpenOut
  <1>3. att[Runs] \in AttSet /\ DOMAIN att = 1 .. Runs /\ Latest = att[Runs] /\ Runs \in Ids
    BY SMTT(30), <1>2, Facts, AttIs DEF Latest, Ids
  <1>4. boot \in Nat
    BY DEF Inv, Typed
  <1>5. a \in AttSet /\ a.out = "running" /\ a.cost = 0 /\ a.launch = "released"
    BY <1>2, <1>3, <1>4 DEF AttSet
  <1>6. att' = [att EXCEPT ![Runs] = a]
    BY <1>3 DEF RecordProviderLaunch
  <1> HIDE DEF a
  <1>7. j \in JobSet /\ j.pc = "running" /\ j.f = job.f
    BY Facts DEF JobSet, Pcs
  <1> HIDE DEF j
  <1>8. /\ proc' \in [Ids -> {"gone", "gated", "live", "stray"}]
        /\ \A i \in Ids : proc'[i] # "gone" => proc[i] # "gone" \/ i = Runs
    BY <1>1, <1>3, Facts, ProcIs
  <1>9. RestTyped'
    BY <1>1, <1>7, <1>8 DEF Inv, Typed, RestTyped
  <1>10. Runs' = Runs /\ Latest' = a
    BY <1>2, <1>5, <1>6, Facts, PutIs
  <1>11. Calling'
    BY <1>1, <1>2, <1>5, <1>7, <1>10 DEF Calling, Claimed, Finishing
  <1>12. Fenced'
    BY <1>1, <1>7 DEF Inv, Fenced
  <1>13. "running" \in OpenOut /\ "running" \notin Closed
    BY DEF OpenOut, Closed
  <1> QED
    BY <1>2, <1>5, <1>6, <1>8, <1>9, <1>11, <1>12, <1>13, SpentIs, PutMoves

LEMMA QuarantineStep ==
  ASSUME Inv, Quarantine PROVE Inv'
  <1> DEFINE a == [att[Runs] EXCEPT !.out = "undrained"]
             j == [job EXCEPT !.pc = "verdict", !.res = "operator"]
  <1>1. /\ job.pc = "undrained" /\ job' = j
        /\ fatal' = (fatal \/ ~Fresh)
        /\ UNCHANGED <<tk, leader, cool, late, busy, up, proc, boot>>
    BY DEF Quarantine, clocks, world
  <1>2. /\ Runs > 0 /\ Latest.out = "running" /\ up \in {"serving", "closing"} /\ Latest.cost = 0
        /\ Latest.launch # "drained"
    <2>1. Runs > 0 /\ Latest.out = "running" /\ up \in {"serving", "closing"} /\ Runs \in 1 .. Runs
      BY SMTT(30), <1>1, AttIs, Facts DEF Inv, Calling, Claimed
    <2>2. "running" \in OpenOut /\ "running" \notin Closed
      BY DEF OpenOut, Closed
    <2>3. att[Runs].launch # "drained" /\ att[Runs].cost = 0
      BY <2>1, <2>2 DEF Inv, Marked, NewestOpen, Latest
    <2> QED
      BY <2>1, <2>3 DEF Latest
  <1>3. att[Runs] \in AttSet /\ DOMAIN att = 1 .. Runs /\ Latest = att[Runs]
    BY <1>2, Facts, AttIs DEF Latest
  <1>4. "undrained" \in OpenOut /\ "undrained" \notin Closed
    BY DEF OpenOut, Closed
  <1>5. a \in AttSet /\ a.out = "undrained" /\ a.cost = 0 /\ a.launch # "drained"
    BY <1>2, <1>3, <1>4 DEF AttSet
  <1>6. att' = [att EXCEPT ![Runs] = a] \/ att' = att
    BY <1>3 DEF Quarantine
  <1> HIDE DEF a
  <1>7. "operator" \in Codes
    BY DEF Codes
  <1>8. j \in JobSet /\ j.pc = "verdict" /\ j.f = job.f
    BY <1>7, Facts DEF JobSet, Pcs
  <1> HIDE DEF j
  <1>9. fatal \in BOOLEAN
    BY DEF Inv, Typed
  <1>10. fatal' \in BOOLEAN
    BY <1>1, <1>9, Zenon
  <1>11. RestTyped'
    BY <1>1, <1>8, <1>10 DEF Inv, Typed, RestTyped
  <1>12. Calling'
    BY <1>1, <1>2, <1>8 DEF Calling, Claimed, Finishing
  <1>13. Fenced'
    BY <1>1, <1>8 DEF Inv, Fenced
  <1>14. CASE att' = [att EXCEPT ![Runs] = a]
    <2>1. Latest.out \in OpenOut /\ \A i \in Ids : proc'[i] # "gone" => proc[i] # "gone" \/ i = Runs
      BY <1>1, <1>2 DEF OpenOut
    <2>2. Spent + a.cost <= MaxCost
      BY <1>5, SpentIs
    <2>3. (a.out \in OpenOut => a.cost = 0) /\ (a.launch = "drained" <=> a.out \in Closed)
          /\ a.out \notin Closed
      BY <1>4, <1>5
    <2> QED
      BY <1>2, <1>5, <1>11, <1>12, <1>13, <1>14, <2>1, <2>2, <2>3, PutMoves
  <1>15. CASE att' = att
    BY <1>1, <1>2, <1>8, <1>10, <1>15, JobMoves DEF Inv, Typed, Claimed, Finishing
  <1> QED
    BY <1>6, <1>14, <1>15

LEMMA OpenIsLatest ==
  ASSUME Inv, Open
  PROVE  Runs > 0 /\ Runs \in Ids /\ Latest.out \in OpenOut /\ Latest.cost = 0 /\ Latest = att[Runs]
         /\ att[Runs] \in AttSet /\ DOMAIN att = 1 .. Runs
  <1>1. PICK i \in 1 .. Runs : att[i].out \in OpenOut
    BY DEF Open
  <1>2. i = Runs /\ att[i].cost = 0
    BY <1>1 DEF Inv, NewestOpen
  <1> QED
    BY <1>1, <1>2, Facts, AttIs DEF Latest, Ids

LEMMA RecoverStep ==
  ASSUME Inv, RecoverAttempt PROVE Inv'
  <1>1. /\ up = "recovering" /\ up' = "serving" /\ Open
        /\ Finished("drained_recovery", Latest.cost)
        /\ proc' = [proc EXCEPT ![Runs] = "gone"]
        /\ UNCHANGED <<tk, leader, cool, late, busy, job, fatal, boot>>
    BY DEF RecoverAttempt, clocks
  <1>2. Runs > 0 /\ Runs \in Ids /\ Latest.out \in OpenOut /\ Latest.cost = 0
    BY <1>1, OpenIsLatest
  <1>3. /\ proc' \in [Ids -> {"gone", "gated", "live", "stray"}] /\ proc'[Runs] = "gone"
        /\ \A i \in Ids : proc'[i] # "gone" => proc[i] # "gone" \/ i = Runs
    BY <1>1, <1>2, Facts, ProcIs
  <1>4. job.pc = "idle"
    BY <1>1 DEF Inv, Calling
  <1>5. RestTyped'
    BY <1>1, <1>3 DEF Inv, Typed, RestTyped
  <1>6. Calling' /\ Fenced'
    BY <1>1, <1>4 DEF Calling, Fenced, Claimed, Finishing
  <1>7. "drained_recovery" \in Closed
    BY DEF Closed
  <1> QED
    BY <1>1, <1>2, <1>3, <1>5, <1>6, <1>7, SpentIs, FinishMoves

LEMMA QuarantineRecoveredStep ==
  ASSUME Inv, QuarantineRecovered PROVE Inv'
  <1> DEFINE a == [att[Runs] EXCEPT !.out = "undrained_recovery", !.launch = "quarantined"]
  <1>1. /\ up = "recovering" /\ up' = "down" /\ Open
        /\ UNCHANGED <<tk, leader, cool, late, busy, job, fatal, proc, boot>>
    BY DEF QuarantineRecovered, clocks, world
  <1>2. Runs > 0 /\ Runs \in Ids /\ Latest.out \in OpenOut /\ Latest.cost = 0 /\ Latest = att[Runs]
        /\ att[Runs] \in AttSet /\ DOMAIN att = 1 .. Runs
    BY <1>1, OpenIsLatest
  <1>3. "undrained_recovery" \in OpenOut /\ "undrained_recovery" \notin Closed
    BY DEF OpenOut, Closed
  <1>4. a \in AttSet /\ a.out = "undrained_recovery" /\ a.cost = 0 /\ a.launch = "quarantined"
    BY <1>2, <1>3 DEF AttSet
  <1>5. att' = [att EXCEPT ![Runs] = a]
    BY <1>2 DEF QuarantineRecovered
  <1> HIDE DEF a
  <1>6. job.pc = "idle"
    BY <1>1 DEF Inv, Calling
  <1>7. RestTyped'
    BY <1>1 DEF Inv, Typed, RestTyped
  <1>8. Calling' /\ Fenced'
    BY <1>1, <1>6 DEF Calling, Fenced, Claimed, Finishing
  <1> QED
    BY <1>1, <1>2, <1>3, <1>4, <1>5, <1>7, <1>8, SpentIs, PutMoves

\* BeginProviderAttempt commits a claim.
LEMMA ClaimStep ==
  ASSUME Inv, NEW b \in Bindings, Claim(b) PROVE Inv'
  <1>1. PICK r \in BOOLEAN : r = LoneInvalid
    BY DEF LoneInvalid, LatestIn
  <1>2. PICK w \in BOOLEAN : w = RepairRequired
    <2>1. job.rep \in BOOLEAN
      BY Facts DEF JobSet
    <2> QED
      BY <2>1 DEF RepairRequired
  <1> DEFINE a == [f |-> job.f, b |-> b, rep |-> r, out |-> "running", cost |-> 0, boot |-> 0,
                   launch |-> "launching"]
             j == [job EXCEPT !.pc = "claimed", !.b = b, !.rep = w]
  <1>3. att' = Append(att, a)
    BY <1>1, Zenon DEF Claim
  <1>4. job' = j
    BY <1>2, Zenon DEF Claim
  <1>5. /\ job.pc = "route" /\ BeginError(b) = "ok"
        /\ UNCHANGED <<tk, leader, cool, late, busy, up, fatal, proc, boot>>
    BY DEF Claim, clocks, world
  <1>6. Fresh /\ tk.st = "run" /\ ~Open /\ ~(Runs >= Limit)
    BY <1>5, BeginOk
  <1>7. "running" \in OpenOut /\ "running" \notin Closed
    BY DEF OpenOut, Closed
  <1>8. a \in AttSet /\ a.out = "running" /\ a.cost = 0 /\ a.launch = "launching"
    BY <1>7, Facts DEF AttSet
  <1> HIDE DEF a
  <1>9. b \in MaybeB
    BY DEF MaybeB
  <1>10. j \in JobSet /\ j.pc = "claimed" /\ j.f = job.f
    BY <1>9, Facts DEF JobSet, Pcs
  <1> HIDE DEF j
  <1>11. /\ att' \in Seq(AttSet) /\ Runs' = Runs + 1 /\ Runs' \in 1 .. 4 /\ Latest' = a
         /\ \A i \in 1 .. Runs : att'[i] = att[i]
    <2>1. Len(att') = Runs + 1 /\ att' \in Seq(AttSet)
      BY <1>3, <1>8, Facts, AttIs
    <2>2. Runs' = Runs + 1
      BY <2>1 DEF Runs
    <2>3. Runs < 4 /\ Runs \in 0 .. 4
      BY <1>6, Facts, AttIs DEF Limit
    <2>4. att'[Runs + 1] = a /\ \A i \in 1 .. Runs : att'[i] = att[i]
      BY SMTT(30), <1>3, Facts, AttIs
    <2> QED
      BY <2>1, <2>2, <2>3, <2>4 DEF Latest
  <1>12. \A i \in 1 .. Runs : att[i].out \notin OpenOut
    BY <1>6 DEF Open
  <1>13. \A i \in Ids : proc[i] = "gone"
    <2>1. Runs > 0 => Latest.out \notin OpenOut
      BY <1>12, Facts, AttIs DEF Latest
    <2> QED
      BY SMTT(30), <2>1, Facts, AttIs DEF Inv, Grouped, Ids
  <1>14. Typed'
    BY <1>4, <1>5, <1>10, <1>11 DEF Inv, Typed
  <1>15. NewestOpen'
    <2>1. \A i \in 1 .. Runs' : i = Runs' \/ i \in 1 .. Runs
      BY SMTT(30), <1>11, Facts, AttIs
    <2> QED
      BY <1>8, <1>11, <1>12, <2>1 DEF NewestOpen, Latest
  <1>16. Marked'
    <2>1. \A i \in 1 .. Runs' : i = Runs' \/ i \in 1 .. Runs
      BY SMTT(30), <1>11, Facts, AttIs
    <2> QED
      BY <1>7, <1>8, <1>11, <2>1 DEF Inv, Marked, Latest
  <1>17. Grouped'
    BY <1>5, <1>13 DEF Grouped
  <1>18. Calling'
    <2>1. up \notin {"down", "recovering"} /\ up \in {"down", "recovering", "serving", "closing"}
      BY <1>5 DEF Inv, Calling, Typed
    <2> QED
      BY <1>4, <1>5, <1>8, <1>10, <1>11, <1>13, <2>1 DEF Calling, Ids
  <1>19. Fenced'
    BY <1>4, <1>5, <1>10 DEF Inv, Fenced
  <1>20. Spent' = Spent
    <2>1. ASSUME NEW i \in 1 .. 4 PROVE Charge(i)' = Charge(i)
      <3>1. Charge(i)' = IF i <= Runs' THEN att'[i].cost ELSE 0
        BY DEF Charge
      <3>2. CASE i <= Runs
        BY <1>11, <3>1, <3>2, Facts, AttIs DEF Charge
      <3>3. CASE i = Runs'
        BY SMTT(30), <1>8, <1>11, <3>1, <3>3, Facts, AttIs DEF Charge, Latest
      <3>4. CASE i > Runs'
        BY <1>11, <3>1, <3>4, Facts, AttIs DEF Charge
      <3> QED
        BY SMTT(30), <1>11, <3>2, <3>3, <3>4, Facts, AttIs
    <2> QED
      BY <2>1 DEF Spent
  <1>21. SpentWithinBudget'
    BY <1>20 DEF Inv, SpentWithinBudget
  <1> QED
    BY <1>14, <1>15, <1>16, <1>17, <1>18, <1>19, <1>21 DEF Inv

-----------------------------------------------------------------------------
(* The theorems *)

LEMMA InitInv == Init => Inv
  <1> SUFFICES ASSUME Init PROVE Inv
    OBVIOUS
  <1> DEFINE x == [st |-> "run", v |-> 1, r |-> 1, code |-> "none", epoch |-> FALSE]
  <1>1. x \in TkSet /\ tk = x
    <2>1. "run" \in States /\ "none" \in Codes
      BY DEF States, Codes
    <2> QED
      BY <2>1 DEF Init, TkSet
  <1>2. /\ leader = 1 /\ att = <<>> /\ job = NoJob /\ boot = 1 /\ up = "serving" /\ fatal = FALSE
        /\ cool = TRUE /\ late = FALSE /\ busy = "no" /\ proc = [i \in Ids |-> "gone"]
    BY DEF Init
  <1>3. Runs = 0
    BY <1>2 DEF Runs
  <1>4. att \in Seq(AttSet)
    BY <1>2
  <1>5. boot \in 1 .. MaxBoot
    BY <1>2, AttemptAssumption
  <1>6. Typed
    <2>1. proc \in [Ids -> {"gone", "gated", "live", "stray"}] /\ job \in JobSet /\ leader \in Nat
      BY <1>2, NoJobIs
    <2>2. tk \in TkSet
      BY <1>1
    <2>3. /\ cool \in BOOLEAN /\ late \in BOOLEAN /\ busy \in {"no", "writer", "slot"}
          /\ up \in {"down", "recovering", "serving", "closing"} /\ fatal \in BOOLEAN
      BY <1>2
    <2>4. Runs \in 0 .. 4
      BY <1>3
    <2> QED
      BY <1>4, <1>5, <2>1, <2>2, <2>3, <2>4 DEF Typed
  <1>7. NewestOpen /\ Marked
    BY <1>3 DEF NewestOpen, Marked
  <1>8. Grouped
    BY <1>2 DEF Grouped
  <1>9. Calling /\ Fenced
    BY <1>2, NoJobIs DEF Calling, Fenced, Claimed, Finishing
  <1>10. SpentWithinBudget
    <2>1. Charge(1) = 0 /\ Charge(2) = 0 /\ Charge(3) = 0 /\ Charge(4) = 0
      BY <1>3 DEF Charge
    <2> QED
      BY <2>1, AttemptAssumption DEF SpentWithinBudget, Spent
  <1> QED
    BY <1>6, <1>7, <1>8, <1>9, <1>10 DEF Inv

LEMMA NextInv == Inv /\ [Next]_vars => Inv'
  <1> SUFFICES ASSUME Inv, [Next]_vars PROVE Inv'
    OBVIOUS
  <1>1. CASE JobStep
    <2>1. ASSUME NEW b \in Bindings, AwaitBackoff(b) \/ Claim(b) PROVE Inv'
      BY <2>1, ClocksStep, ClaimStep
    <2>2. CASE StartPhase \/ Preflight \/ \E b \in Reported : Refuse(b)
      BY <2>2, StartPhaseStep, PreflightStep, RefuseStep
    <2>3. CASE InvocationFails \/ Spawn \/ RecordProviderLaunch \/ LaunchFails
      BY <2>3, InvocationFailsStep, SpawnStep, RecordLaunchStep, LaunchFailsStep
    <2>4. CASE Return \/ Drain \/ DrainFails \/ Quarantine
      BY <2>4, ReturnStep, DrainStep, DrainFailsStep, QuarantineStep
    <2>5. CASE Finish \/ RetireAfterControl \/ FailProviderAttemptBudget \/ Verdict
      BY <2>5, FinishStep, RetireStep, BudgetStep, VerdictStep
    <2> QED
      BY <1>1, <2>1, <2>2, <2>3, <2>4, <2>5 DEF JobStep
  <1>2. CASE \E s \in Stops : Stop(s)
    BY <1>2, StopStep
  <1>3. CASE CancelWork \/ CompleteStop \/ Resume \/ TransitionProviderRetry
    BY <1>3, CancelWorkStep, CompleteStopStep, ResumeStep, ProviderRetryStep
  <1>4. CASE DeadlinePasses \/ CoolDown \/ Contend
    BY <1>4, ClocksStep
  <1>5. CASE Crash \/ Close \/ Exit \/ Reboot \/ Start
    BY <1>5, CrashStep, CloseStep, ExitStep, RebootStep, StartStep
  <1>6. CASE Serve \/ RecoverAttempt \/ QuarantineRecovered
    BY <1>6, ServeStep, RecoverStep, QuarantineRecoveredStep
  <1>7. CASE \E i \in Ids : ProcessEnds(i)
    BY <1>7, ProcessEndsStep
  <1>8. CASE UNCHANGED vars
    <2>1. UNCHANGED <<tk, leader, att, cool, late, busy, up, job, fatal, proc, boot>>
      BY <1>8 DEF vars, durable, clocks, world
    <2> QED
      BY <2>1, ClockStep DEF Inv, Typed
  <1> QED
    BY <1>1, <1>2, <1>3, <1>4, <1>5, <1>6, <1>7, <1>8 DEF Next

LEMMA Invariance == Spec => []Inv
  BY InitInv, NextInv, PTL DEF Spec

\* The types of the attempts' rows, of the coordinator's call and of the
\* process groups; an attempt is marked drained exactly when it is closed.
THEOREM AttemptsType == Spec => []TypeOK
  <1>1. Inv => TypeOK
    <2> SUFFICES ASSUME Inv PROVE TypeOK
      OBVIOUS
    <2>1. Len(att) <= 4
      BY Facts, AttIs
    <2> QED
      BY <2>1, Zenon DEF Inv, Typed, Marked, TypeOK, TkSet, AttSet, JobSet, Pcs, MaybeB, Runs
  <1> QED
    BY <1>1, Invariance, PTL

\* At most one process group works for the ticket and its attempt is open,
\* whatever is cancelled, not drained, crashed or restarted (Coordinator.Run,
\* Recover): the slot and the worktree are never given away under a writer.
THEOREM AttemptsOneWriter == Spec => []OneWriter
  <1>1. Inv => OneWriter
    BY DEF Inv, Grouped, OneWriter, Alive
  <1> QED
    BY <1>1, Invariance, PTL

\* What the attempts of the entry have cost never passes the ticket's ceiling,
\* whatever a provider reports (finishProviderAttempt, FailProviderAttemptBudget).
THEOREM AttemptsWithinBudget == Spec => []SpentWithinBudget
  <1>1. Inv => SpentWithinBudget
    BY DEF Inv
  <1> QED
    BY <1>1, Invariance, PTL

-----------------------------------------------------------------------------
(* What a step may do to an attempt under a durable stop *)

NoResult ==
    \A i \in 1 .. Len(att') :
       /\ i <= Runs
       /\ att'[i].out # att[i].out =>
             /\ att'[i].out \in {"cancelled", "drained_recovery"} \cup OpenOut
             /\ att'[i].cost = att[i].cost

LEMMA SameHasNoResult ==
  ASSUME Inv, UNCHANGED att PROVE NoResult
  BY Facts, AttIs DEF NoResult

LEMMA EndHasNoResult ==
  ASSUME Inv, Runs > 0, Latest.cost = 0, NEW o \in {"cancelled", "drained_recovery"},
         Finished(o, 0)
  PROVE  NoResult
  <1>1. o \in Closed /\ 0 \in Nat
    BY DEF Closed
  <1>2. /\ att' \in Seq(AttSet) /\ Runs' = Runs
        /\ Latest'.out = o /\ Latest'.cost = 0
        /\ \A i \in 1 .. Runs : i # Runs => att'[i] = att[i]
    BY <1>1, Facts, FinishedIs
  <1>3. Len(att') = Runs /\ Latest' = att'[Runs]
    BY <1>2 DEF Runs, Latest
  <1> QED
    BY SMTT(30), <1>2, <1>3, Facts, AttIs DEF NoResult, Latest

\* A stop leaves no call with the ticket's fence.
LEMMA StopFences ==
  ASSUME Inv, tk.st \in Stops, job.pc # "idle" PROVE ~Fresh
  <1>1. job.f.v < tk.v
    BY DEF Inv, Fenced
  <1> QED
    BY <1>1, Facts DEF Fresh

LEMMA ClaimedIs ==
  ASSUME Inv, job.pc \in Claimed
  PROVE  Runs > 0 /\ Latest.cost = 0 /\ Latest.out = "running" /\ job.pc # "idle"
  <1>1. Runs > 0 /\ Latest.out = "running" /\ Runs \in 1 .. Runs /\ job.pc # "idle"
    BY SMTT(30), Facts, AttIs DEF Inv, Calling, Claimed
  <1>2. "running" \in OpenOut
    BY DEF OpenOut
  <1>3. att[Runs].cost = 0
    BY <1>1, <1>2 DEF Inv, NewestOpen, Latest
  <1> QED
    BY <1>1, <1>3 DEF Latest

LEMMA CallHasNoResult ==
  ASSUME Inv, tk.st \in Stops,
         InvocationFails \/ Quarantine \/ Finish \/ RetireAfterControl \/ FailProviderAttemptBudget
  PROVE  NoResult
  <1>1. job.pc \in Claimed
    BY DEF Claimed, InvocationFails, Quarantine, Finish, RetireAfterControl, FailProviderAttemptBudget
  <1>2. Runs > 0 /\ Latest.cost = 0 /\ ~Fresh
    BY <1>1, ClaimedIs, StopFences
  <1>3. CASE InvocationFails
    <2>1. Finished("cancelled", 0)
      BY <1>2, <1>3 DEF InvocationFails
    <2> QED
      BY <1>2, <2>1, EndHasNoResult
  <1>4. CASE RetireAfterControl
    <2>1. Finished("cancelled", 0) \/ UNCHANGED att
      BY <1>4 DEF RetireAfterControl
    <2> QED
      BY <1>2, <2>1, EndHasNoResult, SameHasNoResult
  <1>5. CASE Quarantine \/ Finish \/ FailProviderAttemptBudget
    <2>1. UNCHANGED att
      BY <1>2, <1>5 DEF Quarantine, Finish, FailProviderAttemptBudget
    <2> QED
      BY <2>1, SameHasNoResult
  <1> QED
    BY <1>3, <1>4, <1>5

LEMMA LaunchHasNoResult ==
  ASSUME Inv, RecordProviderLaunch PROVE NoResult
  <1> DEFINE a == [att[Runs] EXCEPT !.launch = "released", !.boot = boot]
  <1>1. Runs > 0
    BY ClaimedIs DEF RecordProviderLaunch, Claimed
  <1>2. att[Runs] \in AttSet /\ Latest = att[Runs] /\ boot \in Nat
    BY <1>1, Facts, AttIs DEF Latest, Inv, Typed
  <1>3. a \in AttSet /\ a.out = Latest.out
    BY <1>2 DEF AttSet
  <1>4. att' = [att EXCEPT ![Runs] = a]
    BY <1>1, Facts, AttIs DEF RecordProviderLaunch
  <1> HIDE DEF a
  <1>5. att' \in Seq(AttSet) /\ Runs' = Runs /\ Latest' = a
        /\ \A i \in 1 .. Runs : i # Runs => att'[i] = att[i]
    BY <1>1, <1>3, <1>4, Facts, PutIs
  <1>6. Len(att') = Runs /\ att'[Runs] = a
    BY <1>5 DEF Runs, Latest
  <1> QED
    BY SMTT(30), <1>2, <1>3, <1>5, <1>6, Facts, AttIs DEF NoResult

LEMMA RecoveryHasNoResult ==
  ASSUME Inv, RecoverAttempt \/ QuarantineRecovered PROVE NoResult
  <1>1. Runs > 0 /\ Latest.cost = 0 /\ Latest = att[Runs] /\ att[Runs] \in AttSet /\ DOMAIN att = 1 .. Runs
    BY OpenIsLatest DEF RecoverAttempt, QuarantineRecovered
  <1>2. CASE RecoverAttempt
    BY <1>1, <1>2, EndHasNoResult DEF RecoverAttempt
  <1>3. CASE QuarantineRecovered
    <2> DEFINE a == [att[Runs] EXCEPT !.out = "undrained_recovery", !.launch = "quarantined"]
    <2>1. "undrained_recovery" \in OpenOut
      BY DEF OpenOut
    <2>2. a \in AttSet /\ a.out = "undrained_recovery" /\ a.cost = 0
      BY <1>1, <2>1 DEF AttSet
    <2>3. att' = [att EXCEPT ![Runs] = a]
      BY <1>1, <1>3 DEF QuarantineRecovered
    <2> HIDE DEF a
    <2>4. att' \in Seq(AttSet) /\ Runs' = Runs /\ Latest' = a
          /\ \A i \in 1 .. Runs : i # Runs => att'[i] = att[i]
      BY <1>1, <2>2, <2>3, Facts, PutIs
    <2>5. Len(att') = Runs /\ att'[Runs] = a
      BY <2>4 DEF Runs, Latest
    <2> QED
      BY SMTT(30), <1>1, <2>1, <2>2, <2>4, <2>5, Facts, AttIs DEF NoResult
  <1> QED
    BY <1>2, <1>3

LEMMA RevokedStep ==
  ASSUME Inv, [Next]_vars, tk.st \in Stops PROVE NoResult
  <1>1. CASE JobStep
    <2>1. ASSUME NEW b, Claim(b) PROVE FALSE
      <3>1. tk.st = "run"
        BY <2>1, BeginOk DEF Claim
      <3> QED
        BY <3>1 DEF Stops
    <2>2. ASSUME StartPhase \/ Preflight \/ (\E b \in Reported : Refuse(b))
                 \/ (\E b \in Bindings : AwaitBackoff(b)) \/ Spawn \/ LaunchFails \/ Return
                 \/ Drain \/ DrainFails \/ Verdict
          PROVE  UNCHANGED att
      BY <2>2 DEF StartPhase, Preflight, Refuse, AwaitBackoff, Spawn, LaunchFails, Return, Drain,
                  DrainFails, Verdict, durable
    <2> QED
      BY <1>1, <2>1, <2>2, SameHasNoResult, CallHasNoResult, LaunchHasNoResult DEF JobStep
  <1>2. CASE RecoverAttempt \/ QuarantineRecovered
    BY <1>2, RecoveryHasNoResult
  <1>3. ASSUME (\E s \in Stops : Stop(s)) \/ CancelWork \/ CompleteStop \/ Resume
               \/ TransitionProviderRetry \/ DeadlinePasses \/ CoolDown \/ Contend
        PROVE  UNCHANGED att
    BY <1>3 DEF Stop, CancelWork, CompleteStop, Resume, TransitionProviderRetry, DeadlinePasses,
                CoolDown, Contend, durable
  <1>4. ASSUME Crash \/ Close \/ Exit \/ Reboot \/ Start \/ Serve \/ (\E i \in Ids : ProcessEnds(i))
               \/ UNCHANGED vars
        PROVE  UNCHANGED att
    BY <1>4 DEF Crash, Close, Exit, Reboot, Start, Serve, ProcessEnds, durable, vars
  <1> QED
    BY <1>1, <1>2, <1>3, <1>4, SameHasNoResult DEF Next

\* Once a stop is durable, the attempt it revoked ends without a result and
\* without a charge, at whatever point of the coordinator's run the stop falls
\* (RetireProviderAttemptAfterControlInvalidation, finishProviderAttempt).
THEOREM RevokedAttemptHasNoResult == Spec => RevokedHasNoResult
  <1>1. Inv /\ [Next]_vars =>
          [tk.st \in Stops =>
             \A i \in 1 .. Len(att') :
                /\ i <= Runs
                /\ att'[i].out # att[i].out =>
                      /\ att'[i].out \in {"cancelled", "drained_recovery"} \cup OpenOut
                      /\ att'[i].cost = att[i].cost]_vars
    BY RevokedStep DEF NoResult
  <1> QED
    BY <1>1, Invariance, PTL DEF Spec, RevokedHasNoResult

=============================================================================
