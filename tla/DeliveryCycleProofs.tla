------------------------- MODULE DeliveryCycleProofs -------------------------
(***************************************************************************)
(* Theorems of DeliveryCycle, for any number of daemons, faults and polls: *)
(* verdicts belong to the owner of the version they consume, the Builder   *)
(* of the repair can authenticate what led to it, and the startup fence    *)
(* of an undisturbed ticket names the daemon that held it.                 *)
(*                                                                         *)
(* The events of a history carry no fence.  The invariant Inv says how the *)
(* ghost owner can be read off the rows: always for the newest version and *)
(* at a row, and at every version while the history is Plain.  A plain     *)
(* history has no stop, no block and no resumed PR endpoint; of the others *)
(* Inv says only what the repair and the verdicts need.                    *)
(***************************************************************************)
EXTENDS DeliveryCycle, FiniteSetTheorems, TLAPS

-----------------------------------------------------------------------------
(* The invariant *)

FenceSet  == [v : Nat, r : Nat, l : Nat]
Names     == {"none", "initial", "retry", "queued", "planning", "verifying", "building",
              "publishing", "waiting_ci", "reviewing", "stopping", "paused", "blocked",
              "submit_valid", "operator_start", "phase_pass", "recovered", "effects_confirmed",
              "endpoint_reached", "operator_resume", "operator_recover", "typed_blocker",
              "operator_pause_or_take", "process_and_effects_drained", "ci_poll_exhausted",
              "checks_pending", "checks_green", "checks_red"}
EventSet  == [trig : Names, from : Names, to : Names, r : Nat, pl : Nat, l : Nat, code : Names]
OwnerSet  == [r : Nat, l : Nat]
RebindSet == [prior : FenceSet, anchor : Nat, f : FenceSet]
Halted    == {"stopping", "paused", "blocked"}
TicketSet == [state : Published0 \union Halted \union {"reviewing", "building"},
              resume : Published0 \union {"none"}, version : Nat, runner : Nat,
              code : {"none", "recoverable", "pr_opened"}]

\* The phase the ticket is in, or returns to.
Where == IF ticket.state \in Halted THEN ticket.resume ELSE ticket.state

Typed ==
    /\ leader \in Nat /\ leader >= 1
    /\ ticket \in TicketSet /\ (ticket.state \in Halted => ticket.resume \in Published0)
    /\ ticket.code = "pr_opened" => ticket.resume = "waiting_ci"
    /\ hist \in Seq(EventSet) /\ owner \in Seq(OwnerSet)
    /\ Len(hist) = ticket.version /\ Len(owner) = ticket.version
    /\ notes \subseteq 1 .. ticket.version
    /\ control \in [st : {"none", "sealed", "open"}, stop : FenceSet, auth : FenceSet]
    /\ control.auth.v <= ticket.version
    /\ wit \in [f : FenceSet, rebinds : Seq(RebindSet)]
    /\ endpoint \in [pr : BOOLEAN, f : FenceSet]
    /\ obs \in [f : FenceSet, class : {"none", "pending", "green", "red"}]
    /\ (obs # NoObs => policy # NoPolicy)
    /\ used \in Nat
    /\ repair \in [f : FenceSet, rows : SUBSET FenceSet]

\* The version of the Builder's pass; nothing before it ever changes.
PassAt == owner[5].l + 4

Prefix ==
    /\ PassAt \in {5, 6} /\ PassAt <= ticket.version
    /\ cand = [check |-> Fence(4, 1, 1), bind |-> Fence(PassAt - 1, PassAt - 4, PassAt - 4)]
    /\ \A v \in 1 .. 4 : hist[v] = Passed[v] /\ owner[v] = [r |-> 1, l |-> 1]
    /\ PassAt = 6 => hist[5] = Restarted
    /\ hist[PassAt] = Pass
    /\ \A v \in 5 .. PassAt : owner[v] = [r |-> PassAt - 4, l |-> PassAt - 4]
    /\ \A v \in DOMAIN hist : v > PassAt => hist[v].trig # "phase_pass"

\* In these states a daemon that serves made the newest version.
Fenceable == Published0 \union {"stopping", "building"}

Held ==
    /\ owner[ticket.version].r = ticket.runner
    /\ pc \in {"fenced", "serving"} /\ ticket.state \in Fenceable =>
          owner[ticket.version].l = leader
    /\ \A v \in DOMAIN owner : owner[v].l <= leader /\ owner[v].r <= ticket.runner
    /\ \A v \in Rows : owner[v] = [r |-> hist[v].r, l |-> hist[v].l]

\* Nothing follows an exhaustion that no operator may answer.
Exhausted(v) == hist[v].trig = "ci_poll_exhausted" /\ hist[v].code # "initial"
Unresumed ==
    \A v \in DOMAIN hist : Exhausted(v) =>
        v = ticket.version /\ ticket.state = "paused" /\ ticket.resume = "waiting_ci"

\* Who waits for CI was published, under a witness that is the newest note.
Announced == Versions("effects_confirmed") # {}
Announcing ==
    /\ Where \in {"waiting_ci", "reviewing", "building"} <=> Announced
    /\ Announced => Published /\ Versions("effects_confirmed") = {Waiting.v}
    /\ Announced /\ repair = NoRepair => \A n \in notes : n < Waiting.v

\* What the state says of a repair: its binding, and that only rows followed.
Repairing ==
    /\ ticket.state = "building" <=> repair # NoRepair
    /\ repair # NoRepair =>
          /\ RepairEntry.v \in DOMAIN hist /\ repair.f.v >= Waiting.v
          /\ Is(RepairEntry.v, "checks_red", "waiting_ci", "building")
          /\ repair.rows = candidateRepairRecoveryPrefixDigest(repair.f.v)
          /\ obs.class = "red" /\ obs.f = repair.f /\ policy # NoPolicy /\ used > 0
          /\ control.auth.v < RepairEntry.v
          /\ owner[RepairEntry.v] = [r |-> RepairEntry.r, l |-> RepairEntry.l]
          /\ \A v \in RepairEntry.v + 1 .. ticket.version :
                /\ Recovered(v) /\ hist[v].pl < hist[v].l
                /\ Prior(v) = Fence(v - 1, owner[v - 1].r, owner[v - 1].l)
          /\ endpoint.f = NoFence => RepairHistory(repair.f)

\* A history without a stop, a block or a resumed endpoint.
Stops == {"operator_pause_or_take", "typed_blocker"}
Plain == endpoint.f = NoFence /\ \A v \in DOMAIN hist : hist[v].trig \notin Stops

Owned(v) ==
    /\ \A w \in Rows : w <= v /\ (\A x \in Rows : ~(w < x /\ x <= v)) => owner[v] = owner[w]
    /\ (\A w \in Rows : w > v) => owner[v] = [r |-> 1, l |-> 1]

PlainHistory ==
    /\ control = NoControl /\ ticket.state \notin {"stopping", "blocked"}
    /\ ticket.state = "paused" => ticket.resume = "waiting_ci"
    /\ \A v \in DOMAIN hist : Owned(v)
    /\ \A v \in Rows : /\ hist[v].pl < hist[v].l
                       /\ Prior(v) = Fence(v - 1, owner[v - 1].r, owner[v - 1].l)
    /\ \A v \in PassAt + 1 .. (IF Announced THEN Waiting.v - 1 ELSE ticket.version) : Recovered(v)
    /\ Published => /\ Current.v \in PassAt .. ticket.version
                    /\ Current = Fence(Current.v, owner[Current.v].r, owner[Current.v].l)

Inv == /\ Typed /\ Prefix /\ Held /\ Unresumed /\ Announcing /\ Repairing
       /\ (Plain => PlainHistory) /\ VerdictIsOwn

-----------------------------------------------------------------------------
(* The newest of a set of versions *)

\* A number of a bounded set is its greatest.
LEMMA NewestIs ==
    ASSUME NEW n \in Nat, NEW S \in SUBSET (1 .. n), S # {}
    PROVE  Newest(S) \in S /\ \A y \in S : y <= Newest(S)
  <1> DEFINE Up(x) == {y \in S : x < y}
             F == SUBSET (1 .. n)
             R == StrictSubsetOrdering(1 .. n)
             T == {Up(x) : x \in S}
  <1>1. IsFiniteSet(1 .. n) /\ IsWellFoundedOn(R, FiniteSubsetsOf(1 .. n))
    BY FS_Interval, FS_StrictSubsetOrderingWellFounded
  <1>2. FiniteSubsetsOf(1 .. n) = F
    BY <1>1, FS_Subset DEF FiniteSubsetsOf
  <1>3. IsWellFoundedOn(R, F)
    BY <1>1, <1>2
  <1>4. T \subseteq F /\ T # {}
    OBVIOUS
  <1>5. \E t \in T : \A u \in T : ~(<<u, t>> \in R)
    <2> HIDE DEF R, F, T
    <2> QED
      BY ZenonT(60), <1>3, <1>4, WFMin
  <1>6. PICK x \in S : \A y \in S : ~(<<Up(y), Up(x)>> \in R)
    BY <1>5
  <1>7. \A y \in S : y <= x
    <2>1. SUFFICES ASSUME NEW y \in S, x < y PROVE FALSE
      OBVIOUS
    <2>2. x \in Nat /\ y \in Nat /\ ~(y < y) /\ \A z \in S : z \in Nat
      OBVIOUS
    <2>3. \A z \in Nat : y < z => x < z
      BY <2>1, <2>2
    <2>4. Up(y) \subseteq Up(x)
      BY <2>2, <2>3
    <2>5. y \in Up(x) /\ y \notin Up(y)
      BY <2>1, <2>2
    <2>6. <<Up(y), Up(x)>> \in R
      BY <2>4, <2>5 DEF StrictSubsetOrdering
    <2> QED
      BY <1>6, <2>6
  <1> QED
    BY <1>7 DEF Newest

-----------------------------------------------------------------------------
(* What a transition of the Store does to the history *)

\* Versions are appended, all of them made by this leader with one runner.
New == ticket.version + 1 .. ticket'.version
Grows ==
    /\ hist' \in Seq(EventSet) /\ owner' \in Seq(OwnerSet)
    /\ Len(hist') = ticket'.version /\ Len(owner') = ticket'.version
    /\ \A v \in 1 .. ticket.version : hist'[v] = hist[v] /\ owner'[v] = owner[v]
    /\ \A v \in New : owner'[v] = [r |-> ticket'.runner, l |-> leader]
    /\ ticket' \in TicketSet /\ ticket'.version > ticket.version
    /\ leader' = leader

LEMMA StepIs ==
    ASSUME Typed, leader' = leader, NEW e \in EventSet, NEW st, NEW rs, NEW r, NEW c,
           [state |-> st, resume |-> rs, version |-> ticket.version + 1,
            runner |-> r, code |-> c] \in TicketSet,
           Step(e, st, rs, r, c)
    PROVE  /\ Grows /\ ticket'.version = ticket.version + 1
           /\ hist'[ticket.version + 1] = e
           /\ ticket'.state = st /\ ticket'.resume = rs /\ ticket'.runner = r /\ ticket'.code = c
  <1>1. /\ hist' = Append(hist, e)
        /\ ticket' = [state |-> st, resume |-> rs, version |-> ticket.version + 1,
                      runner |-> r, code |-> c]
        /\ owner' = Append(owner, [r |-> r, l |-> leader])
    BY DEF Step
  <1>2. ticket.version \in Nat /\ r \in Nat /\ leader \in Nat
    BY DEF Typed, TicketSet
  <1>3. [r |-> r, l |-> leader] \in OwnerSet
    BY <1>2 DEF OwnerSet
  <1> DEFINE o == [r |-> r, l |-> leader]
  <1>4. /\ hist' \in Seq(EventSet) /\ Len(hist') = ticket.version + 1
        /\ hist'[ticket.version + 1] = e
        /\ \A v \in 1 .. ticket.version : hist'[v] = hist[v]
    BY <1>1, <1>2 DEF Typed
  <1>5. /\ owner' \in Seq(OwnerSet) /\ Len(owner') = ticket.version + 1
        /\ owner'[ticket.version + 1] = o
        /\ \A v \in 1 .. ticket.version : owner'[v] = owner[v]
    <2> HIDE DEF o
    <2> QED
      BY <1>1, <1>2, <1>3 DEF Typed, o
  <1>6. ticket' \in TicketSet /\ ticket'.version = ticket.version + 1 /\ ticket'.runner = r
    BY <1>1
  <1> QED
    BY <1>1, <1>2, <1>4, <1>5, <1>6 DEF Grows, New

\* The rows that were there are there, and so are the fences they name.
LEMMA RowsGrow ==
    ASSUME Typed, Grows
    PROVE  /\ DOMAIN hist = 1 .. ticket.version /\ DOMAIN hist' = 1 .. ticket'.version
           /\ DOMAIN owner = 1 .. ticket.version /\ DOMAIN owner' = 1 .. ticket'.version
           /\ ticket.version \in Nat /\ ticket'.version \in Nat
           /\ Rows \subseteq 1 .. ticket.version /\ Rows' \subseteq 1 .. ticket'.version
           /\ \A v \in 1 .. ticket.version :
                  /\ v \in Rows' <=> v \in Rows
                  /\ v \in Rows <=> hist[v].trig = "recovered"
                  /\ Prior(v)' = Prior(v) /\ At(v)' = At(v)
                  /\ hist'[v] = hist[v] /\ owner'[v] = owner[v]
                  /\ hist[v] \in EventSet /\ owner[v] \in OwnerSet
           /\ \A v \in New : /\ v \in Rows' <=> hist'[v].trig = "recovered"
                             /\ owner'[v] = [r |-> ticket'.runner, l |-> leader]
                             /\ hist'[v] \in EventSet
           /\ \A v \in 1 .. ticket'.version : v \in 1 .. ticket.version \/ v \in New
           /\ \A v \in New : v \in 1 .. ticket'.version /\ v > ticket.version
           /\ ticket'.version \in New
  <1>1. /\ DOMAIN hist = 1 .. ticket.version /\ DOMAIN hist' = 1 .. ticket'.version
        /\ DOMAIN owner = 1 .. ticket.version /\ DOMAIN owner' = 1 .. ticket'.version
        /\ ticket.version \in Nat /\ ticket'.version \in Nat /\ ticket'.version > ticket.version
    BY DEF Typed, Grows, TicketSet
  <1>2. /\ \A v \in 1 .. ticket.version : hist[v] \in EventSet /\ owner[v] \in OwnerSet
        /\ \A v \in 1 .. ticket'.version : hist'[v] \in EventSet
    BY <1>1 DEF Typed, Grows
  <1>3. /\ \A v \in 1 .. ticket.version : hist'[v] = hist[v] /\ owner'[v] = owner[v]
        /\ \A v \in New : owner'[v] = [r |-> ticket'.runner, l |-> leader]
    BY DEF Grows
  <1>4. /\ \A v \in 1 .. ticket'.version : v \in 1 .. ticket.version \/ v \in New
        /\ \A v \in New : v \in 1 .. ticket'.version /\ v > ticket.version
        /\ ticket'.version \in New
    BY <1>1 DEF New
  <1> QED
    BY <1>1, <1>2, <1>3, <1>4 DEF Rows, Recovered, Prior, At, Fence

\* Where every history begins.
LEMMA StartIs ==
    ASSUME Typed, Prefix
    PROVE  /\ ticket.version \in Nat /\ ticket.version >= 5
           /\ hist[1] = Event("submit_valid", "none", "queued")
           /\ hist[2] = Event("operator_start", "queued", "planning")
           /\ hist[3] = Event("phase_pass", "planning", "verifying")
           /\ hist[4] = Event("phase_pass", "verifying", "building")
           /\ \A v \in 1 .. 4 : owner[v] = [r |-> 1, l |-> 1] /\ v \notin Rows
           /\ PassAt \in {5, 6} /\ PassAt <= ticket.version /\ hist[PassAt] = Pass
           /\ PassAt \notin Rows
           /\ \A v \in Rows : v - 1 \in 1 .. ticket.version
  <1>1. ticket.version \in Nat /\ PassAt \in {5, 6} /\ PassAt <= ticket.version
    BY DEF Typed, Prefix, TicketSet
  <1>2. /\ hist[1] = Passed[1] /\ hist[2] = Passed[2] /\ hist[3] = Passed[3]
        /\ hist[4] = Passed[4] /\ hist[PassAt] = Pass
    BY DEF Prefix
  <1>3. /\ hist[1] = Event("submit_valid", "none", "queued")
        /\ hist[2] = Event("operator_start", "queued", "planning")
        /\ hist[3] = Event("phase_pass", "planning", "verifying")
        /\ hist[4] = Event("phase_pass", "verifying", "building")
    BY <1>2 DEF Passed
  <1>4. \A v \in 1 .. 4 : v \notin Rows
    BY <1>3 DEF Rows, Recovered, Event
  <1>5. PassAt \notin Rows
    BY <1>2 DEF Rows, Recovered, Event, Pass
  <1>6. \A v \in 1 .. 4 : owner[v] = [r |-> 1, l |-> 1]
    BY DEF Prefix
  <1>7. \A v \in Rows : v - 1 \in 1 .. ticket.version
    <2>1. DOMAIN hist = 1 .. ticket.version
      BY DEF Typed
    <2> QED
      BY <1>1, <1>4, <2>1 DEF Rows
  <1> QED
    BY <1>1, <1>2, <1>3, <1>4, <1>5, <1>6, <1>7

-----------------------------------------------------------------------------
(* The invariant under a transition, part by part *)

LEMMA TypedGrow ==
    ASSUME Typed, Grows, ticket'.state \in Halted => ticket'.resume \in Published0,
           ticket'.code = "pr_opened" => ticket'.resume = "waiting_ci",
           notes' \subseteq 1 .. ticket'.version,
           control' \in [st : {"none", "sealed", "open"}, stop : FenceSet, auth : FenceSet],
           control'.auth.v <= ticket'.version,
           wit' \in [f : FenceSet, rebinds : Seq(RebindSet)],
           endpoint' \in [pr : BOOLEAN, f : FenceSet],
           UNCHANGED <<obs, policy>>, used' \in Nat,
           repair' \in [f : FenceSet, rows : SUBSET FenceSet]
    PROVE  Typed'
  BY DEF Typed, Grows, NoObs, NoFence, Fence, NoPolicy

LEMMA PrefixGrow ==
    ASSUME Typed, Prefix, Grows, cand' = cand,
           \A v \in New : hist'[v].trig # "phase_pass"
    PROVE  Prefix' /\ PassAt' = PassAt
  <1>1. /\ ticket.version \in Nat /\ ticket'.version \in Nat /\ ticket.version >= 5
        /\ ticket'.version >= ticket.version /\ PassAt \in {5, 6} /\ PassAt <= ticket.version
    BY StartIs, RowsGrow
  <1>2. PassAt' = PassAt
    BY <1>1, RowsGrow DEF PassAt
  <1>3. \A v \in 1 .. 6 : v <= PassAt => hist'[v] = hist[v] /\ owner'[v] = owner[v]
    BY <1>1, RowsGrow
  <1>4. \A v \in DOMAIN hist' : v > PassAt => hist'[v].trig # "phase_pass"
    BY RowsGrow DEF Prefix
  <1> QED
    BY <1>1, <1>2, <1>3, <1>4 DEF Prefix

LEMMA HeldGrow ==
    ASSUME Typed, Held, Grows, ticket'.runner >= ticket.runner,
           \A v \in New : hist'[v].trig = "recovered" =>
               hist'[v].r = ticket'.runner /\ hist'[v].l = leader
    PROVE  Held'
  <1>1. /\ ticket.runner \in Nat /\ ticket'.runner \in Nat /\ leader \in Nat
        /\ \A v \in 1 .. ticket.version : owner[v].r \in Nat /\ owner[v].l \in Nat
    BY RowsGrow DEF Typed, Grows, TicketSet, OwnerSet
  <1>2. owner'[ticket'.version] = [r |-> ticket'.runner, l |-> leader] /\ leader' = leader
    BY RowsGrow DEF Grows
  <1>3. ASSUME NEW v \in DOMAIN owner'
        PROVE  owner'[v].l <= leader /\ owner'[v].r <= ticket'.runner
    <2>1. CASE v \in 1 .. ticket.version
      BY <1>1, <2>1, RowsGrow DEF Held
    <2>2. CASE v \in New
      BY <1>1, <2>2, RowsGrow
    <2> QED
      BY <2>1, <2>2, RowsGrow
  <1>4. \A v \in Rows' : owner'[v] = [r |-> hist'[v].r, l |-> hist'[v].l]
    <2> SUFFICES ASSUME NEW v \in Rows' PROVE owner'[v] = [r |-> hist'[v].r, l |-> hist'[v].l]
      OBVIOUS
    <2>1. CASE v \in 1 .. ticket.version
      BY <2>1, RowsGrow DEF Held
    <2>2. CASE v \in New
      BY <2>2, RowsGrow
    <2> QED
      BY <2>1, <2>2, RowsGrow
  <1> QED
    BY <1>2, <1>3, <1>4 DEF Held

LEMMA UnresumedGrow ==
    ASSUME Typed, Unresumed, Grows, ~Exhausted(ticket.version),
           \A v \in New : hist'[v].trig = "ci_poll_exhausted" =>
               v = ticket'.version /\ ticket'.state = "paused" /\ ticket'.resume = "waiting_ci"
    PROVE  Unresumed'
  BY RowsGrow DEF Unresumed, Exhausted

Verdicts == {"checks_pending", "checks_green", "checks_red"}

LEMMA VerdictGrow ==
    ASSUME Typed, Prefix, VerdictIsOwn, Grows,
           \A v \in New : hist'[v].trig \in Verdicts =>
               owner'[v - 1] = [r |-> hist'[v].r, l |-> hist'[v].l] /\ owner'[v] = owner'[v - 1]
    PROVE  VerdictIsOwn'
  <1> SUFFICES ASSUME NEW v \in 1 .. ticket'.version, hist'[v].trig \in Verdicts
               PROVE  owner'[v - 1] = [r |-> hist'[v].r, l |-> hist'[v].l] /\ owner'[v] = owner'[v - 1]
    BY RowsGrow DEF VerdictIsOwn, Verdicts
  <1>1. CASE v \in New
    BY <1>1
  <1>2. CASE v \in 1 .. ticket.version
    <2>1. hist[1].trig = "submit_valid" /\ ticket.version >= 5
      BY StartIs DEF Event
    <2>2. hist[v].trig \in Verdicts /\ v # 1
      BY <1>2, <2>1, RowsGrow DEF Verdicts
    <2>3. v - 1 \in 1 .. ticket.version
      BY <1>2, <2>2, RowsGrow
    <2> QED
      BY <1>2, <2>2, <2>3, RowsGrow DEF VerdictIsOwn, Verdicts
  <1> QED
    BY <1>1, <1>2, RowsGrow

After == {"waiting_ci", "reviewing", "building"}

LEMMA WaitingIs ==
    ASSUME Typed
    PROVE  Current \in FenceSet /\ Waiting = Fence(Current.v + 1, Current.r, Current.l)
  <1> DEFINE k == Len(wit.rebinds)
  <1>1. wit.f \in FenceSet /\ wit.rebinds \in Seq(RebindSet) /\ k \in Nat
    BY DEF Typed
  <1>2. ASSUME wit.rebinds # <<>> PROVE wit.rebinds[k].f \in FenceSet
    <2>1. k \in DOMAIN wit.rebinds
      BY <1>1, <1>2
    <2>2. wit.rebinds[k] \in RebindSet
      BY <1>1, <2>1
    <2> QED
      BY <2>2 DEF RebindSet
  <1> QED
    BY <1>1, <1>2 DEF Current, Waiting, Shift, Fence, FenceSet

LEMMA WaitingNat ==
    ASSUME Typed
    PROVE  /\ Current.v \in Nat /\ Current.r \in Nat /\ Current.l \in Nat
           /\ Waiting.v = Current.v + 1 /\ Waiting.v \in Nat
           /\ Waiting.r = Current.r /\ Waiting.l = Current.l
  <1>1. Current.v \in Nat /\ Current.r \in Nat /\ Current.l \in Nat
    BY WaitingIs DEF FenceSet
  <1> QED
    BY <1>1, WaitingIs DEF Fence

LEMMA AnnouncingGrow ==
    ASSUME Typed, Announcing, Grows, \A v \in New : hist'[v].trig # "effects_confirmed",
           Announced => wit' = wit,
           Where' \in After <=> Where \in After,
           Announced /\ repair' = NoRepair => repair = NoRepair /\ notes' = notes
    PROVE  Announcing' /\ (Announced' <=> Announced)
  <1>1. Versions("effects_confirmed")' = Versions("effects_confirmed")
    BY RowsGrow DEF Versions
  <1>2. Announced' <=> Announced
    BY <1>1 DEF Announced
  <1>3. ASSUME Announced PROVE Waiting' = Waiting /\ (Published' <=> Published)
    BY <1>3 DEF Waiting, Shift, Current, Published
  <1> QED
    BY <1>1, <1>2, <1>3 DEF Announcing, After

LEMMA RepairingQuiet ==
    ASSUME Repairing, ticket.state # "building", ticket'.state # "building", repair' = repair
    PROVE  Repairing'
  BY DEF Repairing, NoRepair, NoFence

\* A transition that is no recovery row leaves the history plain, or makes it not.
LEMMA PlainGrow ==
    ASSUME Typed, Prefix, Announcing, Grows, Plain => PlainHistory, cand' = cand, wit' = wit,
           endpoint'.f = NoFence => endpoint.f = NoFence,
           \A v \in New : hist'[v].trig \notin {"recovered", "phase_pass"},
           Plain' =>
               /\ Plain => control' = control
               /\ ticket'.state \notin {"stopping", "blocked"}
               /\ ticket'.state = "paused" => ticket'.resume = "waiting_ci"
               /\ Plain /\ PlainHistory => owner[ticket.version] = [r |-> ticket'.runner, l |-> leader]
               /\ Announced' /\ (Announced \/ Current.v = ticket.version)
    PROVE  Plain' => PlainHistory'
  <1> SUFFICES ASSUME Plain' PROVE PlainHistory'
    OBVIOUS
  <1>1. Plain /\ PlainHistory
    BY RowsGrow DEF Plain
  <1>2. Rows' = Rows
    BY RowsGrow
  <1>3. Current' = Current /\ Waiting' = Waiting /\ PassAt' = PassAt /\ (Published' <=> Published)
    BY PrefixGrow DEF Current, Waiting, Shift, Published
  <1>4. ASSUME NEW v \in 1 .. ticket'.version PROVE Owned(v)'
    <2>1. CASE v \in 1 .. ticket.version
      <3>1. Owned(v)
        BY <1>1, <2>1, RowsGrow DEF PlainHistory
      <3> QED
        BY <1>2, <2>1, <3>1, RowsGrow DEF Owned
    <2>2. CASE v \in New
      <3>1. Owned(ticket.version) /\ owner'[v] = owner[ticket.version]
        BY <1>1, <2>2, RowsGrow, StartIs DEF PlainHistory
      <3>2. \A w \in Rows : w \in 1 .. ticket.version /\ owner'[w] = owner[w]
        BY RowsGrow
      <3>3. v \in Nat /\ v > ticket.version /\ ticket.version \in Nat
        BY <2>2, RowsGrow
      <3> QED
        BY <1>2, <3>1, <3>2, <3>3 DEF Owned
    <2> QED
      BY <2>1, <2>2, RowsGrow
  <1>5. ASSUME NEW v \in Rows'
        PROVE  hist'[v].pl < hist'[v].l /\ Prior(v)' = Fence(v - 1, owner'[v - 1].r, owner'[v - 1].l)
    <2>1. hist[v].pl < hist[v].l /\ Prior(v) = Fence(v - 1, owner[v - 1].r, owner[v - 1].l)
      BY <1>1, <1>2 DEF PlainHistory
    <2>2. v - 1 \in 1 .. ticket.version
      BY <1>2, StartIs
    <2> QED
      BY <1>2, <2>1, <2>2, RowsGrow
  <1>6. \A v \in PassAt + 1 .. Waiting.v - 1 : Recovered(v)'
    <2>1. Announced => Waiting.v \in 1 .. ticket.version
      BY RowsGrow DEF Announcing, Versions
    <2>2. Waiting.v = Current.v + 1 /\ Current.v \in Nat
      BY WaitingIs DEF Fence, FenceSet
    <2>3. ~Announced => Waiting.v - 1 = ticket.version
      BY <1>1, <2>2
    <2>4. \A v \in PassAt + 1 .. Waiting.v - 1 : Recovered(v)
      BY <1>1, <2>3 DEF PlainHistory
    <2>5. \A v \in PassAt + 1 .. Waiting.v - 1 : v \in 1 .. ticket.version
      BY <2>1, <2>2, <2>3, StartIs
    <2> QED
      BY <1>2, <2>4, <2>5, RowsGrow DEF Rows
  <1>7. Published => Current.v \in PassAt .. ticket'.version
                     /\ Current = Fence(Current.v, owner'[Current.v].r, owner'[Current.v].l)
    BY <1>1, <1>3, RowsGrow, StartIs DEF PlainHistory
  <1>8. /\ control' = NoControl /\ ticket'.state \notin {"stopping", "blocked"}
        /\ ticket'.state = "paused" => ticket'.resume = "waiting_ci"
    BY <1>1 DEF PlainHistory
  <1>9. \A v \in DOMAIN hist' : Owned(v)'
    BY <1>4, RowsGrow
  <1>10. \A v \in PassAt' + 1 .. (IF Announced' THEN Waiting'.v - 1 ELSE ticket'.version) :
            Recovered(v)'
    BY <1>3, <1>6
  <1>11. Published' => Current'.v \in PassAt' .. ticket'.version
                     /\ Current' = Fence(Current'.v, owner'[Current'.v].r, owner'[Current'.v].l)
    BY <1>3, <1>7
  <1> HIDE DEF Fence, NoControl, Waiting, Current, Owned, Prior
  <1> QED
    BY <1>5, <1>8, <1>9, <1>10, <1>11 DEF PlainHistory

-----------------------------------------------------------------------------
(* Steps that make no version *)

LEMMA TypedIs ==
    ASSUME Typed
    PROVE  /\ ticket.version \in Nat /\ ticket.runner \in Nat /\ leader \in Nat
           /\ DOMAIN hist = 1 .. ticket.version /\ DOMAIN owner = 1 .. ticket.version
           /\ Rows \subseteq 1 .. ticket.version
           /\ \A v \in 1 .. ticket.version : hist[v] \in EventSet /\ owner[v] \in OwnerSet
           /\ \A v \in 1 .. ticket.version : v \in Rows <=> hist[v].trig = "recovered"
           /\ Live \in FenceSet
  <1>1. DOMAIN hist = 1 .. ticket.version /\ DOMAIN owner = 1 .. ticket.version
    BY DEF Typed
  <1>2. ticket.version \in Nat /\ ticket.runner \in Nat /\ leader \in Nat
    BY DEF Typed, TicketSet
  <1>3. \A v \in 1 .. ticket.version : hist[v] \in EventSet /\ owner[v] \in OwnerSet
    BY <1>1, <1>2 DEF Typed
  <1>4. Live \in FenceSet
    BY <1>2 DEF Live, Fence, FenceSet
  <1> QED
    BY <1>1, <1>2, <1>3, <1>4 DEF Rows, Recovered

\* What the history says is the same while hist, owner, wit and notes are.
LEMMA SameHistory ==
    ASSUME UNCHANGED <<ticket, hist, owner, notes, wit, repair>>
    PROVE  /\ Rows' = Rows /\ Current' = Current /\ Waiting' = Waiting
           /\ (Published' <=> Published) /\ (Announced' <=> Announced) /\ Where' = Where
           /\ RepairEntry' = RepairEntry /\ PassAt' = PassAt
           /\ candidateRepairRecoveryPrefixDigest(repair.f.v)'
                  = candidateRepairRecoveryPrefixDigest(repair.f.v)
           /\ (RepairHistory(repair.f)' <=> RepairHistory(repair.f))
           /\ \A v : /\ Recovered(v)' <=> Recovered(v)
                     /\ Prior(v)' = Prior(v)
                     /\ Owned(v)' <=> Owned(v)
  <1>1. /\ Rows' = Rows /\ Current' = Current /\ Waiting' = Waiting
        /\ (Published' <=> Published) /\ (Announced' <=> Announced) /\ Where' = Where
        /\ RepairEntry' = RepairEntry /\ PassAt' = PassAt
    BY DEF Rows, Recovered, Current, Waiting, Shift, Published, Announced, Versions, Where,
           RepairEntry, PassAt
  <1>2. candidateRepairRecoveryPrefixDigest(repair.f.v)'
            = candidateRepairRecoveryPrefixDigest(repair.f.v)
    BY DEF candidateRepairRecoveryPrefixDigest, Rows, Recovered, At
  <1>3. RepairHistory(repair.f)' <=> RepairHistory(repair.f)
    BY DEF RepairHistory, loadLatestPublicationRebind, Published, RecoveryStep, Recovered, Prior,
           At, Shift, BlockedPair, Is, Quiet, Waiting, Current,
           findCandidateRepairCIPollResumePair, PollPauses, Versions, OwnerBefore, Rows
  <1>4. \A v : /\ Recovered(v)' <=> Recovered(v)
               /\ Prior(v)' = Prior(v)
               /\ Owned(v)' <=> Owned(v)
    BY DEF Recovered, Prior, Owned, Rows
  <1> QED
    BY <1>1, <1>2, <1>3, <1>4

LEMMA Kept ==
    ASSUME Inv, UNCHANGED <<ticket, hist, owner, notes, cand, wit, endpoint, used, repair>>,
           leader' \in Nat, leader' >= leader,
           control' \in [st : {"none", "sealed", "open"}, stop : FenceSet, auth : FenceSet],
           control'.auth.v <= ticket.version, Plain => control' = control,
           repair # NoRepair => control'.auth = control.auth /\ UNCHANGED <<obs, policy>>,
           obs' \in [f : FenceSet, class : {"none", "pending", "green", "red"}],
           obs' # NoObs => policy' # NoPolicy,
           pc' \in {"fenced", "serving"} /\ ticket.state \in Fenceable =>
               owner[ticket.version].l = leader'
    PROVE  Inv'
  <1> USE SameHistory DEF Inv
  <1>1. Typed'
    BY DEF Typed, NoObs, NoFence, Fence, NoPolicy
  <1>2. Prefix'
    BY DEF Prefix
  <1>3. Held'
    <2>1. \A v \in DOMAIN owner : owner[v].l <= leader'
      <3>1. \A v \in DOMAIN owner : owner[v].l \in Nat /\ leader \in Nat
        BY TypedIs DEF OwnerSet
      <3> QED
        BY <3>1 DEF Held
    <2> QED
      BY <2>1 DEF Held, Fenceable
  <1>4. Unresumed'
    BY DEF Unresumed, Exhausted
  <1>5. Announcing'
    BY DEF Announcing, Versions
  <1>6. Repairing'
    BY DEF Repairing, Is
  <1>7. Plain' => PlainHistory'
    <2>1. Plain' <=> Plain
      BY DEF Plain
    <2>2. Plain => control' = NoControl
      BY DEF PlainHistory, NoControl, NoFence, Fence
    <2> QED
      BY <2>1, <2>2 DEF PlainHistory
  <1>8. VerdictIsOwn'
    BY DEF VerdictIsOwn
  <1> QED
    BY <1>1, <1>2, <1>3, <1>4, <1>5, <1>6, <1>7, <1>8

\* The effects of the candidate, the poll, the Builder's work and a crash leave
\* what the invariant speaks of alone; AcquireLeader moves only the epoch.
LEMMA QuietSteps ==
    ASSUME Inv,
           \/ \E k \in Kinds : ClaimEffect(k) \/ Apply(k) \/ FinishEffect(k) \/ ReconcileEffect(k)
           \/ WorkerReturns \/ BeginBuilder \/ EndBuilder \/ runCommand \/ commitCandidate
           \/ replayCandidateRepairPreparedCandidate \/ Crash \/ AcquireLeader
           \/ Rearm \/ RecordCIRequiredCheckPolicy \/ RecordCIObservation
    PROVE  Inv'
  <1> USE TypedIs
  <1>1. /\ Typed /\ Held /\ Repairing /\ (Plain => PlainHistory)
        /\ leader <= leader /\ leader \in Nat
        /\ control \in [st : {"none", "sealed", "open"}, stop : FenceSet, auth : FenceSet]
        /\ control.auth.v <= ticket.version
        /\ obs \in [f : FenceSet, class : {"none", "pending", "green", "red"}]
        /\ (obs # NoObs => policy # NoPolicy)
        /\ (pc \in {"fenced", "serving"} /\ ticket.state \in Fenceable
               => owner[ticket.version].l = leader)
    BY DEF Inv, Typed, Held
  <1>2. CASE UNCHANGED <<leader, ticket, hist, owner, notes, control, cand, wit, endpoint, used,
                         repair, obs, policy, pc>>
    <2>1. leader' = leader /\ control' = control /\ obs' = obs /\ policy' = policy /\ pc' = pc
      BY <1>2
    <2>2. UNCHANGED <<ticket, hist, owner, notes, cand, wit, endpoint, used, repair>>
      BY <1>2
    <2> QED
      BY Kept, <1>1, <2>1, <2>2
  <1>3. CASE \E k \in Kinds : ClaimEffect(k) \/ Apply(k) \/ FinishEffect(k) \/ ReconcileEffect(k)
    BY <1>2, <1>3 DEF ClaimEffect, Apply, FinishEffect, ReconcileEffect, machine, publication, ci
  <1>4. CASE WorkerReturns \/ BeginBuilder \/ EndBuilder \/ runCommand \/ commitCandidate
             \/ replayCandidateRepairPreparedCandidate
    BY <1>2, <1>4 DEF WorkerReturns, BeginBuilder, EndBuilder, runCommand, commitCandidate,
                      replayCandidateRepairPreparedCandidate, machine, publication, ci
  <1>5. CASE Crash
    <2>1. /\ UNCHANGED <<ticket, hist, owner, notes, cand, wit, endpoint, used, repair>>
          /\ leader' = leader /\ control' = control /\ obs' = obs /\ policy' = policy /\ pc' = "down"
      BY <1>5 DEF Crash, machine, publication, ci
    <2> QED
      BY Kept, <1>1, <2>1
  <1>6. CASE AcquireLeader
    <2>1. /\ UNCHANGED <<ticket, hist, owner, notes, cand, wit, endpoint, used, repair>>
          /\ leader' = leader + 1 /\ obs' = obs /\ policy' = policy /\ pc' = "acquired"
          /\ control' = IF control.st = "open" THEN [control EXCEPT !.st = "sealed"] ELSE control
      BY <1>6 DEF AcquireLeader, machine, ci
    <2>2. /\ control' \in [st : {"none", "sealed", "open"}, stop : FenceSet, auth : FenceSet]
          /\ control'.auth = control.auth
      BY <1>1, <2>1
    <2>3. Plain => control' = control
      BY <1>1, <2>1 DEF PlainHistory, NoControl
    <2> QED
      BY Kept, <1>1, <2>1, <2>2, <2>3
  <1>7. CASE Rearm
    <2>1. /\ UNCHANGED <<ticket, hist, owner, notes, cand, wit, endpoint, used, repair>>
          /\ leader' = leader /\ obs' = obs /\ policy' = policy /\ pc' = pc
          /\ control' = [control EXCEPT !.st = "open", !.auth = Live]
          /\ control.st = "sealed" /\ ticket.state \in Published0
      BY <1>7 DEF Rearm, machine, publication, ci
    <2>2. /\ control' \in [st : {"none", "sealed", "open"}, stop : FenceSet, auth : FenceSet]
          /\ control'.auth.v <= ticket.version
      <3>1. Live \in FenceSet /\ Live.v = ticket.version /\ ticket.version \in Nat
        BY <1>1 DEF Live, Fence
      <3>2. control' = [st |-> "open", stop |-> control.stop, auth |-> Live]
        BY <1>1, <2>1
      <3>3. control.stop \in FenceSet /\ ticket.version <= ticket.version
        BY <1>1, <3>1
      <3> QED
        BY <3>1, <3>2, <3>3
    <2>3. ~Plain
      BY <1>1, <2>1 DEF PlainHistory, NoControl
    <2>4. repair = NoRepair
      BY <1>1, <2>1 DEF Repairing, Published0
    <2> QED
      BY Kept, <1>1, <2>1, <2>2, <2>3, <2>4
  <1>8. CASE RecordCIRequiredCheckPolicy
    <2>1. /\ UNCHANGED <<ticket, hist, owner, notes, cand, wit, endpoint, used, repair>>
          /\ leader' = leader /\ obs' = obs /\ control' = control /\ pc' = pc
          /\ policy # NoPolicy => policy' = policy
          /\ ticket.state = "waiting_ci"
      BY <1>8 DEF RecordCIRequiredCheckPolicy, machine, publication, Serves
    <2>2. repair = NoRepair
      BY <1>1, <2>1 DEF Repairing
    <2> QED
      BY Kept, <1>1, <2>1, <2>2
  <1>9. CASE RecordCIObservation
    <2>1. /\ UNCHANGED <<ticket, hist, owner, notes, cand, wit, endpoint, used, repair>>
          /\ leader' = leader /\ policy' = policy /\ control' = control /\ pc' = pc
          /\ repair = NoRepair /\ worker.f = Live
          /\ \E checks : policyMatchesObservation(checks)
                         /\ obs' = canonicalCIObservation(checks, worker.f)
      BY <1>9 DEF RecordCIObservation, machine, publication
    <2>2. /\ obs' \in [f : FenceSet, class : {"none", "pending", "green", "red"}]
          /\ policy' # NoPolicy
      <3>1. Live \in FenceSet
        BY <1>1
      <3> QED
        BY <2>1, <3>1 DEF policyMatchesObservation, canonicalCIObservation,
                          ciObservationClassification
    <2> QED
      BY Kept, <1>1, <2>1, <2>2
  <1> QED
    BY <1>3, <1>4, <1>5, <1>6, <1>7, <1>8, <1>9

LEMMA RecordPublishedKeeps ==
    ASSUME Inv, RecordPublishedCandidate
    PROVE  Inv'
  <1>1. /\ UNCHANGED <<leader, ticket, hist, owner, notes, control, cand, endpoint, obs, policy,
                       used, repair, pc>>
        /\ wit' = [f |-> Live, rebinds |-> <<>>] /\ ticket.state = "publishing" /\ pc = "serving"
    BY DEF RecordPublishedCandidate, Ready, Serves, machine, ci
  <1>2. /\ Typed /\ Prefix /\ Held /\ Unresumed /\ Announcing /\ Repairing /\ VerdictIsOwn
        /\ Plain => PlainHistory
    BY DEF Inv
  <1>3. ~Announced /\ repair = NoRepair /\ Where = "publishing"
    BY <1>1, <1>2 DEF Announcing, Repairing, Where, Halted
  <1>4. Typed'
    BY <1>1, <1>2, TypedIs DEF Typed
  <1>5. Prefix' /\ Held' /\ Unresumed' /\ VerdictIsOwn' /\ PassAt' = PassAt
    BY <1>1, <1>2 DEF Prefix, PassAt, Held, Fenceable, Rows, Recovered, Unresumed, Exhausted,
                      VerdictIsOwn
  <1>6. ~Announced' /\ Where' = "publishing"
    BY <1>1, <1>3 DEF Announced, Versions, Where, Halted
  <1>7. Announcing'
    BY <1>6 DEF Announcing
  <1>8. Repairing'
    BY <1>1, <1>2, RepairingQuiet
  <1>9. Plain' => PlainHistory'
    <2> SUFFICES ASSUME Plain' PROVE PlainHistory'
      OBVIOUS
    <2>1. Plain /\ PlainHistory
      BY <1>1, <1>2 DEF Plain
    <2>2. Current' = Live
      BY <1>1 DEF Current, Live, Fence
    <2>3. owner[ticket.version] = [r |-> ticket.runner, l |-> leader]
      BY <1>1, <1>2, TypedIs, StartIs DEF Held, Fenceable, Published0, OwnerSet
    <2>4. Live.v \in PassAt .. ticket.version
          /\ Live = Fence(Live.v, owner[Live.v].r, owner[Live.v].l)
      BY <1>2, <2>3, StartIs DEF Live, Fence
    <2>5. \A v : /\ Recovered(v)' <=> Recovered(v)
                 /\ Prior(v)' = Prior(v) /\ (Owned(v)' <=> Owned(v)) /\ Rows' = Rows
      BY <1>1 DEF Recovered, Prior, Owned, Rows
    <2>6. \A v \in PassAt + 1 .. ticket.version : Recovered(v)
      BY <1>3, <2>1 DEF PlainHistory
    <2> QED
      BY <1>1, <1>5, <1>6, <2>1, <2>2, <2>4, <2>5, <2>6 DEF PlainHistory
  <1> QED
    BY <1>4, <1>5, <1>7, <1>8, <1>9 DEF Inv

-----------------------------------------------------------------------------
(* What the Builder of a repair reads stays readable *)

\* Versions and notes are only added, the notes no earlier than the newest version.
Extends ==
    /\ wit' = wit /\ ticket'.version \in Nat /\ ticket'.version >= ticket.version
    /\ DOMAIN hist' = 1 .. ticket'.version
    /\ \A v \in 1 .. ticket.version : hist'[v] = hist[v]
    /\ notes \subseteq notes'
    /\ \A n \in notes' : n \in notes \/ n >= ticket.version

LEMMA ExtendsIs ==
    ASSUME Typed, Extends
    PROVE  /\ Current' = Current /\ Waiting' = Waiting /\ (Published' <=> Published)
           /\ \A v \in 1 .. ticket.version :
                 /\ v \in Rows' <=> v \in Rows
                 /\ Recovered(v)' <=> Recovered(v)
                 /\ Prior(v)' = Prior(v) /\ At(v)' = At(v)
           /\ \A v, t, a, b : Is(v, t, a, b) => Is(v, t, a, b)'
           /\ \A v \in 1 .. ticket.version - 1 : v \in notes' <=> v \in notes
           /\ \A z \in 1 .. ticket.version + 1 :
                 OwnerBefore(Waiting, z)' = OwnerBefore(Waiting, z)
  <1>1. /\ ticket.version \in Nat /\ ticket'.version \in Nat /\ ticket'.version >= ticket.version
        /\ DOMAIN hist = 1 .. ticket.version /\ DOMAIN hist' = 1 .. ticket'.version
    BY TypedIs DEF Extends
  <1>2. Current' = Current /\ Waiting' = Waiting /\ (Published' <=> Published)
    BY DEF Extends, Current, Waiting, Shift, Published
  <1>3. \A v \in 1 .. ticket.version : v \in DOMAIN hist' /\ hist'[v] = hist[v]
    BY <1>1 DEF Extends
  <1>4. \A v \in 1 .. ticket.version :
           /\ v \in Rows' <=> v \in Rows
           /\ Recovered(v)' <=> Recovered(v)
           /\ Prior(v)' = Prior(v) /\ At(v)' = At(v)
    BY <1>1, <1>3 DEF Rows, Recovered, Prior, At, Fence
  <1>5. \A v, t, a, b : Is(v, t, a, b) => Is(v, t, a, b)'
    BY <1>1, <1>3 DEF Is
  <1>6. \A v \in 1 .. ticket.version - 1 : v \in notes' <=> v \in notes
    BY <1>1 DEF Extends
  <1>7. ASSUME NEW z \in 1 .. ticket.version + 1
        PROVE  OwnerBefore(Waiting, z)' = OwnerBefore(Waiting, z)
    <2>0. PICK b : b = Waiting
      OBVIOUS
    <2> DEFINE R == {w \in Rows : b.v < w /\ w < z}
    <2>1. R' = R
      <3>1. Rows \subseteq 1 .. ticket.version /\ Rows' \subseteq 1 .. ticket'.version
        BY <1>1 DEF Rows
      <3>2. ASSUME NEW w, w < z PROVE w \in Rows <=> w \in Rows'
        <4>0. \A x \in 1 .. ticket'.version : x < z => x \in 1 .. ticket.version
          BY <1>1
        <4>1. w \in Rows \/ w \in Rows' => w \in 1 .. ticket.version
          BY <3>1, <3>2, <4>0
        <4> QED
          BY <1>4, <4>1
      <3> HIDE <1>1
      <3> QED
        BY <3>2
    <2>2. OwnerBefore(Waiting, z) = IF R = {} THEN b ELSE At(Newest(R))
      BY <2>0 DEF OwnerBefore
    <2>3. OwnerBefore(Waiting, z)' = IF R' = {} THEN b ELSE At(Newest(R))'
      BY <1>2, <2>0 DEF OwnerBefore
    <2>4. ASSUME R # {} PROVE At(Newest(R)) = At(Newest(R))'
      <3>1. PICK m \in 1 .. ticket.version : m = Newest(R)
        <4>1. R \subseteq 1 .. ticket.version
          BY <1>1 DEF Rows
        <4> QED
          BY <1>1, <2>4, <4>1, NewestIs
      <3>2. Newest(R)' = m
        <4> HIDE DEF R
        <4> QED
          BY <2>1, <3>1 DEF Newest
      <3>3. At(m)' = At(m)
        BY <1>4
      <3> HIDE DEF R
      <3> QED
        BY <3>1, <3>2, <3>3 DEF At
    <2> QED
      BY <2>1, <2>2, <2>3, <2>4
  <1> QED
    BY <1>2, <1>4, <1>5, <1>6, <1>7

LEMMA LoadKept ==
    ASSUME Typed, Extends, loadLatestPublicationRebind
    PROVE  loadLatestPublicationRebind'
  <1>0. PICK W : W = wit
    OBVIOUS
  <1>a. wit' = W /\ Published /\ (Published' <=> Published)
    BY <1>0, ExtendsIs DEF Extends, loadLatestPublicationRebind
  <1> DEFINE P(k) == IF k = 1 THEN W.f ELSE W.rebinds[k - 1].f
  <1>1. SUFFICES ASSUME NEW k \in DOMAIN W.rebinds
                 PROVE  /\ W.rebinds[k].anchor = k - 1
                        /\ RecoveryStep(W.rebinds[k].prior, W.rebinds[k].f)'
                        /\ W.rebinds[k].prior # P(k) =>
                              /\ W.rebinds[k].prior = Shift(P(k), 2)
                              /\ BlockedPair(P(k).v + 1, "publishing")'
    BY <1>a DEF loadLatestPublicationRebind, Shift
  <1>2. PICK b, q : b = W.rebinds[k] /\ q = P(k)
    OBVIOUS
  <1>3. /\ b.anchor = k - 1 /\ RecoveryStep(b.prior, b.f)
        /\ b.prior # q => b.prior = Shift(q, 2) /\ BlockedPair(q.v + 1, "publishing")
    BY <1>0, <1>2 DEF loadLatestPublicationRebind
  <1>4. b \in RebindSet /\ q \in FenceSet
    <2>1. W.rebinds \in Seq(RebindSet) /\ W.f \in FenceSet
      BY <1>0 DEF Typed
    <2>2. \A j \in DOMAIN W.rebinds : W.rebinds[j] \in RebindSet /\ W.rebinds[j].f \in FenceSet
      <3>1. \A j \in DOMAIN W.rebinds : W.rebinds[j] \in RebindSet
        BY <2>1
      <3>2. \A x \in RebindSet : x.f \in FenceSet
        BY DEF RebindSet
      <3> QED
        BY <3>1, <3>2
    <2>3. k # 1 => k - 1 \in DOMAIN W.rebinds
      BY <2>1
    <2> QED
      BY <1>2, <2>1, <2>2, <2>3
  <1>5. b.f.v \in 1 .. ticket.version /\ Prior(b.f.v) = b.prior /\ b.prior.v = b.f.v - 1
    BY <1>3, TypedIs DEF RecoveryStep, Recovered, Prior, Fence
  <1>6. RecoveryStep(b.prior, b.f)'
    <2>1. hist'[b.f.v] = hist[b.f.v] /\ b.f.v \in DOMAIN hist'
      BY <1>5, TypedIs DEF Extends
    <2> QED
      BY <1>3, <2>1 DEF RecoveryStep, Recovered, Prior, At
  <1>7. ASSUME b.prior # q PROVE BlockedPair(q.v + 1, "publishing")'
    <2>1. PICK v : v = q.v + 1
      OBVIOUS
    <2>2. /\ Is(v, "typed_blocker", "publishing", "blocked")
          /\ Is(v + 1, "operator_recover", "blocked", "publishing")
          /\ Quiet(v, v + 1) /\ b.prior = Shift(q, 2)
      BY <1>3, <1>7, <2>1 DEF BlockedPair
    <2>3. q.v \in Nat /\ b.f.v \in Nat /\ ticket.version \in Nat
      BY <1>4, TypedIs DEF FenceSet, RebindSet
    <2>4. b.prior.v = q.v + 2
      BY <2>2 DEF Shift, Fence
    <2>5. v \in Nat /\ v + 1 < ticket.version
      BY <1>5, <2>1, <2>3, <2>4
    <2>6. notes' \intersect (v .. v + 1) = {}
      BY <2>2, <2>3, <2>5 DEF Quiet, Extends
    <2>7. v \in DOMAIN hist /\ v + 1 \in DOMAIN hist
      BY <2>2 DEF Is
    <2>8. /\ v \in DOMAIN hist' /\ hist'[v] = hist[v]
          /\ v + 1 \in DOMAIN hist' /\ hist'[v + 1] = hist[v + 1]
      BY <2>7, TypedIs DEF Extends
    <2> QED
      BY <2>1, <2>2, <2>6, <2>8 DEF BlockedPair, Is, Quiet
  <1> QED
    BY <1>2, <1>3, <1>6, <1>7

\* The operator answered the pause of the poll at x before c.
Answered(x, c) ==
    /\ x < c /\ hist[x].code = "initial" /\ x \notin notes
    /\ Is(x + 1, "operator_resume", "paused", "waiting_ci")
    /\ x + 1 \in notes => x + 1 = c

\* The history that led to the red verdict stays what it was.
LEMMA RepairKept ==
    ASSUME Typed, Extends, repair' = repair, repair.f.v < ticket.version,
           RepairHistory(repair.f)
    PROVE  RepairHistory(repair.f)'
  <1>1. PICK c, b : c = repair.f /\ b = Waiting
    OBVIOUS
  <1>2. /\ repair'.f = c /\ Waiting' = b
        /\ c.v \in Nat /\ b.v \in Nat /\ b.v >= 1
        /\ c.v < ticket.version /\ ticket.version \in Nat
    <2>1. c \in FenceSet /\ Current \in FenceSet /\ b.v = Current.v + 1
      BY <1>1, WaitingIs DEF Typed, Fence
    <2>2. c.v \in Nat /\ Current.v \in Nat
      BY <2>1 DEF FenceSet
    <2> QED
      BY <1>1, <2>1, <2>2, TypedIs, ExtendsIs
  <1>3. /\ loadLatestPublicationRebind /\ c.v >= b.v
        /\ Is(b.v, "effects_confirmed", "publishing", "waiting_ci")
        /\ c.v \in notes
        /\ \E o \in {OwnerBefore(Waiting, c.v + 1)} : c = Fence(c.v, o.r, o.l)
    BY <1>1 DEF RepairHistory
  <1>4. PICK X : X = PollPauses(b.v, c.v)
    OBVIOUS
  <1>5. Cardinality(X) <= 1 /\ \A x \in X : Answered(x, c.v)
    <2>1. findCandidateRepairCIPollResumePair(c.v) # {0}
      BY <1>1 DEF RepairHistory
    <2>2. ~(Cardinality(X) <= 1) => findCandidateRepairCIPollResumePair(c.v) = {0}
      BY <1>1, <1>4 DEF findCandidateRepairCIPollResumePair
    <2>3. ASSUME NEW x \in X, ~Answered(x, c.v) PROVE findCandidateRepairCIPollResumePair(c.v) = {0}
      BY <1>1, <1>4, <2>3 DEF findCandidateRepairCIPollResumePair, Answered
    <2> QED
      BY <2>1, <2>2, <2>3
  <1>6. PollPauses(b.v, c.v)' = X
    <2>1. /\ \A x \in DOMAIN hist : x \in DOMAIN hist' /\ hist'[x] = hist[x]
          /\ \A x \in DOMAIN hist' : x <= c.v => x \in DOMAIN hist
      BY <1>2, TypedIs DEF Extends
    <2> QED
      BY <1>1, <1>2, <1>4, <2>1 DEF PollPauses, Versions
  <1>7. ASSUME NEW x \in X PROVE Answered(x, c.v)'
    <2>1. x \in 1 .. ticket.version /\ Answered(x, c.v)
      BY <1>4, <1>5, TypedIs DEF PollPauses, Versions
    <2>2. x + 1 \in 1 .. ticket.version - 1 /\ x \in 1 .. ticket.version - 1
      BY <1>2, <2>1 DEF Answered
    <2>3. hist'[x] = hist[x] /\ Is(x + 1, "operator_resume", "paused", "waiting_ci")'
      BY <2>1, ExtendsIs DEF Extends, Answered
    <2>4. (x \in notes' <=> x \in notes) /\ (x + 1 \in notes' <=> x + 1 \in notes)
      BY <2>2, ExtendsIs
    <2> QED
      BY <2>1, <2>3, <2>4 DEF Answered
  <1>8. findCandidateRepairCIPollResumePair(c.v)' = X
    BY <1>2, <1>5, <1>6, <1>7 DEF findCandidateRepairCIPollResumePair, Answered
  <1>9. ASSUME NEW v \in b.v + 1 .. c.v
        PROVE  \E o \in {OwnerBefore(Waiting, v)'} :
                  \/ v \in X \/ v - 1 \in X
                  \/ /\ v \in notes' => v = c.v
                     /\ IF Recovered(v)' THEN Prior(v)' = Fence(v - 1, o.r, o.l)
                        ELSE hist'[v].trig = "checks_pending" /\ hist'[v].r = o.r /\ hist'[v].l = o.l
    <2>0. findCandidateRepairCIPollResumePair(c.v) = X
      BY <1>1, <1>4, <1>5 DEF findCandidateRepairCIPollResumePair, Answered
    <2>1. \E o \in {OwnerBefore(Waiting, v)} :
                  \/ v \in X \/ v - 1 \in X
                  \/ /\ v \in notes => v = c.v
                     /\ IF Recovered(v) THEN Prior(v) = Fence(v - 1, o.r, o.l)
                        ELSE hist[v].trig = "checks_pending" /\ hist[v].r = o.r /\ hist[v].l = o.l
      BY <1>1, <2>0 DEF RepairHistory
    <2>2. v \in 1 .. ticket.version - 1 /\ v \in 1 .. ticket.version /\ v \in 1 .. ticket.version + 1
      BY <1>2
    <2>3. OwnerBefore(Waiting, v)' = OwnerBefore(Waiting, v)
      BY <2>2, ExtendsIs
    <2>4. /\ v \in notes' <=> v \in notes
          /\ Recovered(v)' <=> Recovered(v)
          /\ Prior(v)' = Prior(v) /\ hist'[v] = hist[v]
      BY <2>2, ExtendsIs DEF Extends
    <2> QED
      BY <2>1, <2>3, <2>4
  <1>10. OwnerBefore(Waiting, c.v + 1)' = OwnerBefore(Waiting, c.v + 1)
    BY <1>2, ExtendsIs
  <1>11. /\ loadLatestPublicationRebind' /\ c.v \in notes'
         /\ Is(b.v, "effects_confirmed", "publishing", "waiting_ci")'
    BY <1>3, LoadKept, ExtendsIs DEF Extends
  <1>12. X # {0}
    BY <1>2, <1>4 DEF PollPauses
  <1> QED
    BY <1>2, <1>3, <1>8, <1>9, <1>10, <1>11, <1>12 DEF RepairHistory

\* Without a stop at the PR endpoint the wait for CI starts at the waiting event.
LEMMA BaselineIs ==
    ASSUME Typed, endpoint.f = NoFence
    PROVE  prEndpointCIBaseline = Waiting
  <1>1. Waiting.v + 2 # 0
    BY WaitingIs DEF Fence, FenceSet
  <1>2. ~authenticatePREndpointResume(Waiting.v + 2)
    BY <1>1 DEF authenticatePREndpointResume, NoFence, Fence
  <1> QED
    BY <1>2 DEF prEndpointCIBaseline

\* The red verdict: what its daemon has just read of the wait for CI is what the
\* repair will read of it.
LEMMA VerdictHistory ==
    ASSUME Typed, Unresumed, Announcing, Extends, ticket'.version = ticket.version + 1,
           endpoint.f = NoFence, loadCICurrentPublicationAt(leader), repair = NoRepair,
           repair'.f = Live, notes' = notes \union {ticket.version}
    PROVE  RepairHistory(repair.f)'
  <1>1. PICK c, b : c = Live /\ b = Waiting
    OBVIOUS
  <1>2. /\ repair'.f = c /\ Waiting' = b /\ c.v = ticket.version
        /\ b.v \in Nat /\ b.v >= 1 /\ ticket.version \in Nat
    <2>1. Current.v \in Nat /\ b.v = Current.v + 1
      BY <1>1, WaitingIs DEF Fence, FenceSet
    <2> QED
      BY <1>1, <2>1, TypedIs, ExtendsIs DEF Live, Fence
  <1>3. /\ loadLatestPublicationRebind /\ ticket.state = "waiting_ci"
        /\ Is(b.v, "effects_confirmed", "publishing", "waiting_ci")
        /\ validateCIRecoveryLedger(Waiting, c) /\ PendingChain(Waiting)
    BY <1>1, BaselineIs DEF loadCICurrentPublicationAt, Live
  <1>4. b.v \in 1 .. ticket.version /\ Announced
    BY <1>3, TypedIs DEF Is, Announced, Versions
  <1>5. \A n \in notes : n < b.v
    BY <1>1, <1>4 DEF Announcing
  <1>6. PICK X : X = PollPauses(b.v, c.v)
    OBVIOUS
  <1>7. \A x \in X : x \in 1 .. ticket.version /\ b.v < x /\ hist[x].trig = "ci_poll_exhausted"
    BY <1>2, <1>6, TypedIs DEF PollPauses, Versions
  <1>8. {x \in X : hist[x].code = "initial"} = X
    <2>1. ASSUME NEW x \in X PROVE hist[x].code = "initial"
      BY <1>3, <1>7, TypedIs DEF Unresumed, Exhausted
    <2> QED
      BY <2>1
  <1>9. PICK P : P = findCIPollResumePair(b.v, c.v)
    OBVIOUS
  <1>10. /\ P # {0}
         /\ \A v \in b.v + 1 .. c.v : \E o \in {OwnerBefore(Waiting, v)} :
               IF Recovered(v) THEN Prior(v) = Fence(v - 1, o.r, o.l) /\ hist[v].l > o.l
               ELSE /\ v \notin notes
                    /\ hist[v].trig = "checks_pending" \/ (v \in P) \/ (v - 1) \in P
         /\ \E o \in {OwnerBefore(Waiting, c.v + 1)} : c = Fence(c.v, o.r, o.l)
    BY <1>1, <1>3, <1>9 DEF validateCIRecoveryLedger
  <1> DEFINE Odd(x) == ~(x < c.v /\ Is(x + 1, "operator_resume", "paused", "waiting_ci") /\ Quiet(x, x + 1))
  <1>11. P = IF \E x \in X : Odd(x) THEN {} ELSE IF Cardinality(X) > 1 THEN {0} ELSE X
    BY <1>6, <1>8, <1>9 DEF findCIPollResumePair
  <1>12. ASSUME NEW x \in X PROVE ~Odd(x)
    <2>1. SUFFICES ASSUME Odd(x) PROVE FALSE
      OBVIOUS
    <2>2. P = {}
      <3> HIDE DEF Odd
      <3> QED
        BY <1>11, <2>1
    <2>3. x \in b.v + 1 .. c.v /\ ~Recovered(x) /\ hist[x].trig # "checks_pending"
      BY <1>2, <1>7 DEF Recovered
    <2> QED
      BY <1>10, <2>2, <2>3
  <1>13. P = X /\ ~(Cardinality(X) > 1) /\ X # {0}
    <2> HIDE DEF Odd
    <2> QED
      BY <1>10, <1>11, <1>12
  <1>14. PollPauses(b.v, c.v)' = X
    <2>1. DOMAIN hist = 1 .. c.v /\ DOMAIN hist' = 1 .. c.v + 1
          /\ \A x \in 1 .. c.v : hist'[x] = hist[x]
      BY <1>2, TypedIs DEF Extends
    <2>2. \A x \in 1 .. c.v + 1 : x <= c.v => x \in 1 .. c.v
      BY <1>2
    <2> QED
      BY <1>1, <1>2, <1>6, <2>1, <2>2 DEF PollPauses, Versions
  <1>15. ASSUME NEW x \in X PROVE Answered(x, c.v)'
    <2>1. /\ x \in 1 .. ticket.version /\ x < c.v /\ hist[x].code = "initial"
          /\ Is(x + 1, "operator_resume", "paused", "waiting_ci") /\ x \notin notes
      BY <1>5, <1>7, <1>8, <1>12, <1>2
    <2>2. x + 1 \notin notes /\ x \notin notes'
      BY <1>2, <1>5, <1>7, <2>1
    <2>3. hist'[x] = hist[x] /\ Is(x + 1, "operator_resume", "paused", "waiting_ci")'
      BY <2>1, ExtendsIs DEF Extends
    <2>4. x + 1 \in notes' => x + 1 = c.v
      BY <1>2, <2>2
    <2> QED
      BY <2>1, <2>2, <2>3, <2>4 DEF Answered
  <1>16. findCandidateRepairCIPollResumePair(c.v)' = X
    <2>1. Cardinality(X) <= 1
      <3>1. Cardinality(X) \in Nat
        <4>1. X \subseteq 1 .. ticket.version
          BY <1>7
        <4>2. IsFiniteSet(1 .. ticket.version)
          BY <1>2, FS_Interval
        <4>3. IsFiniteSet(X)
          BY <4>1, <4>2, FS_Subset
        <4> QED
          BY <4>3, FS_CardinalityType
      <3> QED
        BY <1>13, <3>1
    <2> QED
      BY <1>2, <1>14, <1>15, <2>1 DEF findCandidateRepairCIPollResumePair, Answered
  <1>17. ASSUME NEW v \in b.v + 1 .. c.v
        PROVE  \E o \in {OwnerBefore(Waiting, v)'} :
                  \/ v \in X \/ v - 1 \in X
                  \/ /\ v \in notes' => v = c.v
                     /\ IF Recovered(v)' THEN Prior(v)' = Fence(v - 1, o.r, o.l)
                        ELSE hist'[v].trig = "checks_pending" /\ hist'[v].r = o.r /\ hist'[v].l = o.l
    <2>1. v \in 1 .. ticket.version /\ v \in 1 .. ticket.version + 1 /\ v > b.v
      BY <1>2
    <2>2. /\ OwnerBefore(Waiting, v)' = OwnerBefore(Waiting, v)
          /\ Recovered(v)' <=> Recovered(v)
          /\ Prior(v)' = Prior(v) /\ hist'[v] = hist[v]
      BY <2>1, ExtendsIs DEF Extends
    <2>3. v \in notes' => v = c.v
      BY <1>2, <1>5, <2>1
    <2>4. hist[v].trig = "checks_pending" =>
             hist[v].r = OwnerBefore(Waiting, v).r /\ hist[v].l = OwnerBefore(Waiting, v).l
      BY <1>1, <1>3, <2>1, TypedIs DEF PendingChain, Versions
    <2> QED
      BY <1>10, <1>13, <2>2, <2>3, <2>4
  <1>18. OwnerBefore(Waiting, c.v + 1)' = OwnerBefore(Waiting, c.v + 1)
    BY <1>2, ExtendsIs
  <1>19. /\ loadLatestPublicationRebind' /\ c.v \in notes' /\ c.v >= b.v
         /\ Is(b.v, "effects_confirmed", "publishing", "waiting_ci")'
    BY <1>2, <1>3, <1>4, LoadKept, ExtendsIs
  <1> QED
    BY <1>2, <1>10, <1>13, <1>16, <1>17, <1>18, <1>19 DEF RepairHistory

-----------------------------------------------------------------------------
(* Notes of the same version: a successor, and a witness at a later fence *)

LEMMA RepairIs ==
    ASSUME Typed, Repairing, repair # NoRepair
    PROVE  /\ RepairEntry \in FenceSet /\ RepairEntry.v = repair.f.v + 1
           /\ RepairEntry.r = repair.f.r /\ RepairEntry.l = repair.f.l
           /\ repair.f.v \in Nat /\ repair.f.v < ticket.version
           /\ RepairEntry.v \in 1 .. ticket.version /\ RepairEntry.v \notin Rows
  <1>1. repair.f \in FenceSet
    BY DEF Typed
  <1>2. RepairEntry.v \in 1 .. ticket.version /\ hist[RepairEntry.v].trig = "checks_red"
    BY TypedIs DEF Repairing, Is
  <1> QED
    BY <1>1, <1>2, TypedIs DEF RepairEntry, Shift, Fence, FenceSet

\* Parts that read neither notes nor wit.
LEMMA SameVersions ==
    ASSUME Typed, Prefix, Held, Unresumed, VerdictIsOwn,
           UNCHANGED <<leader, ticket, hist, owner, cand>>,
           pc' = pc \/ (pc' \in {"serving", "refused"} /\ pc = "fenced")
    PROVE  Prefix' /\ Held' /\ Unresumed' /\ VerdictIsOwn' /\ PassAt' = PassAt
  BY DEF Prefix, PassAt, Held, Fenceable, Rows, Recovered, Unresumed, Exhausted, VerdictIsOwn

LEMMA RecordCandidateKeeps ==
    ASSUME Inv, RecordCandidate
    PROVE  Inv'
  <1>1. /\ UNCHANGED <<leader, ticket, hist, owner, control, cand, wit, endpoint, obs, policy,
                       used, repair, pc>>
        /\ notes' = notes \/ notes' = notes \union {ticket.version}
        /\ ticket.state = "building"
    BY DEF RecordCandidate, Serves, publication
  <1>2. /\ Typed /\ Prefix /\ Held /\ Unresumed /\ Announcing /\ Repairing /\ VerdictIsOwn
        /\ Plain => PlainHistory
    BY DEF Inv
  <1>3. repair # NoRepair /\ repair' # NoRepair
    BY <1>1, <1>2 DEF Repairing
  <1>4. ticket.version \in Nat /\ ticket.version >= 5
    BY <1>2, StartIs
  <1>5. Typed'
    <2>1. notes' \subseteq 1 .. ticket.version
      <3>1. notes \subseteq 1 .. ticket.version /\ ticket.version \in 1 .. ticket.version
        BY <1>2, <1>4 DEF Typed
      <3> QED
        BY <1>1, <3>1
    <2> QED
      BY <1>1, <1>2, <2>1 DEF Typed, NoObs, NoFence, Fence, NoPolicy
  <1>6. Prefix' /\ Held' /\ Unresumed' /\ VerdictIsOwn' /\ PassAt' = PassAt
    BY <1>1, <1>2, SameVersions
  <1>7. /\ Announced' <=> Announced
        /\ Where' = Where /\ Waiting' = Waiting /\ Current' = Current
        /\ (Published' <=> Published)
        /\ RepairEntry' = RepairEntry
        /\ candidateRepairRecoveryPrefixDigest(repair.f.v)'
               = candidateRepairRecoveryPrefixDigest(repair.f.v)
    BY <1>1 DEF Announced, Versions, Where, Waiting, Current, Shift, Published, RepairEntry,
                candidateRepairRecoveryPrefixDigest, Rows, Recovered, At
  <1>8. Announcing'
    BY <1>1, <1>2, <1>3, <1>7 DEF Announcing, Versions
  <1>9. Repairing'
    <2>1. Extends
      BY <1>1, <1>2, <1>4, TypedIs DEF Extends
    <2>2. endpoint.f = NoFence => RepairHistory(repair.f)'
      BY <1>1, <1>2, <1>3, <2>1, RepairIs, RepairKept DEF Repairing
    <2> QED
      BY <1>1, <1>2, <1>3, <1>7, <2>2 DEF Repairing, Is, Recovered, Prior
  <1>10. Plain' => PlainHistory'
    <2>1. Plain' <=> Plain
      BY <1>1 DEF Plain
    <2>2. \A v : /\ Recovered(v)' <=> Recovered(v)
                 /\ Prior(v)' = Prior(v) /\ (Owned(v)' <=> Owned(v)) /\ Rows' = Rows
      BY <1>1 DEF Recovered, Prior, Owned, Rows
    <2> QED
      BY <1>1, <1>2, <1>6, <1>7, <2>1, <2>2 DEF PlainHistory
  <1> QED
    BY <1>5, <1>6, <1>8, <1>9, <1>10 DEF Inv

LEMMA RebindRecoveredKeeps ==
    ASSUME Inv, RebindRecovered
    PROVE  Inv'
  <1> DEFINE bs == IF ticket.state = "publishing" /\ Published THEN Rebinds ELSE {<<>>}
  <1>1. /\ UNCHANGED <<leader, ticket, hist, owner, control, cand, endpoint, obs, policy,
                       used, repair>>
        /\ wit' = IF bs = {} THEN wit ELSE [wit EXCEPT !.rebinds = @ \o (CHOOSE b \in bs : TRUE)]
        /\ notes' = IF wit' = wit THEN notes ELSE notes \union {ticket.version}
        /\ pc = "fenced" /\ pc' \in {"serving", "refused"}
    BY DEF RebindRecovered, ci
  <1>2. /\ Typed /\ Prefix /\ Held /\ Unresumed /\ Announcing /\ Repairing /\ VerdictIsOwn
        /\ Plain => PlainHistory
    BY DEF Inv
  <1>3. /\ ticket.version \in Nat /\ ticket.version >= 5
        /\ wit.rebinds \in Seq(RebindSet) /\ wit.f \in FenceSet
        /\ wit = [f |-> wit.f, rebinds |-> wit.rebinds]
    BY <1>2, StartIs DEF Typed
  <1>4. CASE wit' = wit
    <2>1. notes' = notes
      BY <1>1, <1>4
    <2>2. /\ Typed /\ Held /\ Repairing /\ leader <= leader /\ leader \in Nat
          /\ control \in [st : {"none", "sealed", "open"}, stop : FenceSet, auth : FenceSet]
          /\ control.auth.v <= ticket.version
          /\ obs \in [f : FenceSet, class : {"none", "pending", "green", "red"}]
          /\ (obs # NoObs => policy # NoPolicy)
          /\ (ticket.state \in Fenceable => owner[ticket.version].l = leader)
      BY <1>1, <1>2, TypedIs DEF Typed, Held
    <2> QED
      BY <1>1, <1>4, <2>1, <2>2, Kept
  <1>5. CASE wit' # wit
    <2>1. ticket.state = "publishing" /\ Published /\ bs = Rebinds /\ bs # {}
      <3>1. bs # {}
        BY <1>1, <1>5
      <3>2. bs # {<<>>}
        <4>1. SUFFICES ASSUME bs = {<<>>} PROVE FALSE
          OBVIOUS
        <4>2. (CHOOSE b \in bs : TRUE) = <<>>
          BY <4>1
        <4>3. wit' = [wit EXCEPT !.rebinds = wit.rebinds \o <<>>]
          BY <1>1, <3>1, <4>2
        <4>4. wit.rebinds \o <<>> = wit.rebinds
          BY <1>3
        <4> QED
          BY <1>3, <1>5, <4>3, <4>4
      <3> QED
        BY <3>1, <3>2
    <2>2. PICK x \in RebindSet : bs = {<<x>>} /\ x.f = Live
      <3>1. Live \in FenceSet /\ Current \in FenceSet /\ Shift(Current, 2) \in FenceSet
            /\ Len(wit.rebinds) \in Nat
        BY <1>2, <1>3, TypedIs, WaitingIs DEF Shift, Fence, FenceSet
      <3> DEFINE One(p, a) == [prior |-> p, f |-> Live, anchor |-> a]
      <3>2. bs = {<<>>} \/ bs = {<<One(Shift(Current, 2), 0)>>}
            \/ bs = {<<One(Current, Len(wit.rebinds))>>}
        BY <2>1 DEF Rebinds
      <3>3. One(Shift(Current, 2), 0) \in RebindSet /\ One(Current, Len(wit.rebinds)) \in RebindSet
        BY <3>1 DEF RebindSet
      <3>4. bs # {<<>>}
        <4>1. SUFFICES ASSUME bs = {<<>>} PROVE FALSE
          OBVIOUS
        <4>2. (CHOOSE b \in bs : TRUE) = <<>>
          BY <4>1
        <4>3. wit' = [wit EXCEPT !.rebinds = wit.rebinds \o <<>>]
          BY <1>1, <2>1, <4>2
        <4>4. wit.rebinds \o <<>> = wit.rebinds
          BY <1>3
        <4> QED
          BY <1>3, <1>5, <4>3, <4>4
      <3>5. One(Shift(Current, 2), 0).f = Live /\ One(Current, Len(wit.rebinds)).f = Live
        OBVIOUS
      <3> HIDE DEF One, bs
      <3> QED
        BY <3>2, <3>3, <3>4, <3>5
    <2>3. wit' = [wit EXCEPT !.rebinds = wit.rebinds \o <<x>>]
      <3>1. (CHOOSE b \in bs : TRUE) = <<x>>
        BY <2>2
      <3> QED
        BY <1>1, <2>1, <3>1
    <2>4. /\ wit' \in [f : FenceSet, rebinds : Seq(RebindSet)]
          /\ Current' = Live /\ (Published' <=> Published)
      <3>0. PICK Q : Q = wit.rebinds
        OBVIOUS
      <3>a. Q \in Seq(RebindSet) /\ Q \o <<x>> = Append(Q, x) /\ Append(Q, x) \in Seq(RebindSet)
            /\ Len(Append(Q, x)) = Len(Q) + 1 /\ Append(Q, x)[Len(Q) + 1] = x /\ Len(Q) \in Nat
        BY <1>3, <3>0
      <3>1. PICK R \in Seq(RebindSet) : R = Append(Q, x)
        BY <3>a
      <3>2. R # <<>> /\ R[Len(R)] = x
        BY <3>a, <3>1
      <3>3. wit' = [f |-> wit.f, rebinds |-> R]
        BY <1>3, <2>3, <3>0, <3>a, <3>1
      <3>4. wit'.f = wit.f /\ wit'.rebinds = R
        BY <3>3
      <3>5. Current' = Live
        BY <2>2, <3>2, <3>4 DEF Current
      <3>6. Published' <=> Published
        BY <3>4 DEF Published, NoFence, Fence
      <3> QED
        BY <1>3, <3>3, <3>5, <3>6
    <2>5. Typed'
      <3>1. notes' \subseteq 1 .. ticket.version
        <4>1. notes \subseteq 1 .. ticket.version /\ ticket.version \in 1 .. ticket.version
          BY <1>2, <1>3 DEF Typed
        <4> QED
          BY <1>1, <4>1
      <3> QED
        BY <1>1, <1>2, <2>4, <3>1 DEF Typed, NoObs, NoFence, Fence, NoPolicy
    <2>6. Prefix' /\ Held' /\ Unresumed' /\ VerdictIsOwn' /\ PassAt' = PassAt
      BY <1>1, <1>2, SameVersions
    <2>7. ~Announced /\ ~Announced' /\ Where' = "publishing"
      BY <1>1, <1>2, <2>1 DEF Announcing, Where, Halted, Announced, Versions
    <2>8. Announcing'
      BY <2>7 DEF Announcing
    <2>9. Repairing'
      BY <1>1, <1>2, <2>1, RepairingQuiet
    <2>10. Plain' => PlainHistory'
      <3> SUFFICES ASSUME Plain' PROVE PlainHistory'
        OBVIOUS
      <3>1. Plain /\ PlainHistory
        BY <1>1, <1>2 DEF Plain
      <3>2. owner[ticket.version] = [r |-> ticket.runner, l |-> leader]
        BY <1>1, <1>2, <1>3, <2>1, TypedIs DEF Held, Fenceable, Published0, OwnerSet
      <3>3. Live.v \in PassAt .. ticket.version
            /\ Live = Fence(Live.v, owner[Live.v].r, owner[Live.v].l)
        BY <1>2, <3>2, StartIs DEF Live, Fence
      <3>4. \A v : /\ Recovered(v)' <=> Recovered(v)
                   /\ Prior(v)' = Prior(v) /\ (Owned(v)' <=> Owned(v)) /\ Rows' = Rows
        BY <1>1 DEF Recovered, Prior, Owned, Rows
      <3>5. \A v \in PassAt + 1 .. ticket.version : Recovered(v)
        BY <2>7, <3>1 DEF PlainHistory
      <3> QED
        BY <1>1, <2>4, <2>6, <2>7, <3>1, <3>3, <3>4, <3>5 DEF PlainHistory
    <2> QED
      BY <2>5, <2>6, <2>8, <2>9, <2>10 DEF Inv
  <1> QED
    BY <1>4, <1>5

-----------------------------------------------------------------------------
(* Steps that make versions, other than a recovery row *)

LEMMA GrowKeeps ==
    ASSUME Inv, Grows, UNCHANGED <<cand, obs, policy>>, Announcing', Repairing',
           ticket'.state \in Halted => ticket'.resume \in Published0,
           ticket'.code = "pr_opened" => ticket'.resume = "waiting_ci",
           notes' \subseteq 1 .. ticket'.version,
           control' \in [st : {"none", "sealed", "open"}, stop : FenceSet, auth : FenceSet],
           control'.auth.v <= ticket'.version,
           wit' \in [f : FenceSet, rebinds : Seq(RebindSet)],
           endpoint' \in [pr : BOOLEAN, f : FenceSet], used' \in Nat,
           repair' \in [f : FenceSet, rows : SUBSET FenceSet],
           ticket'.runner >= ticket.runner, ~Exhausted(ticket.version),
           \A v \in New :
              /\ hist'[v].trig \notin {"recovered", "phase_pass"}
              /\ hist'[v].trig = "ci_poll_exhausted" =>
                    v = ticket'.version /\ ticket'.state = "paused" /\ ticket'.resume = "waiting_ci"
              /\ hist'[v].trig \in Verdicts =>
                    owner'[v - 1] = [r |-> hist'[v].r, l |-> hist'[v].l] /\ owner'[v] = owner'[v - 1],
           Plain' =>
               /\ wit' = wit /\ endpoint.f = NoFence /\ control' = control
               /\ ticket'.state \notin {"stopping", "blocked"}
               /\ ticket'.state = "paused" => ticket'.resume = "waiting_ci"
               /\ PlainHistory => owner[ticket.version] = [r |-> ticket'.runner, l |-> leader]
               /\ Announced' /\ (Announced \/ Current.v = ticket.version)
    PROVE  Inv'
  <1>1. /\ Typed /\ Prefix /\ Held /\ Unresumed /\ Announcing /\ Repairing /\ VerdictIsOwn
        /\ Plain => PlainHistory
    BY DEF Inv
  <1>2. Typed'
    BY <1>1, TypedGrow
  <1>3. Prefix'
    BY <1>1, PrefixGrow
  <1>4. Held'
    BY <1>1, HeldGrow
  <1>5. Unresumed'
    BY <1>1, UnresumedGrow
  <1>6. VerdictIsOwn'
    BY <1>1, VerdictGrow
  <1>7. Plain' => PlainHistory'
    BY <1>1, PlainGrow
  <1> QED
    BY <1>2, <1>3, <1>4, <1>5, <1>6, <1>7 DEF Inv

\* One event of a ticket that is not repairing.
LEMMA EventKeeps ==
    ASSUME Inv, Grows, UNCHANGED <<cand, obs, policy, used, repair>>,
           ticket.state # "building", ticket'.state # "building",
           ticket'.state \in Halted => ticket'.resume \in Published0,
           ticket'.code = "pr_opened" => ticket'.resume = "waiting_ci",
           notes' \subseteq 1 .. ticket'.version, Announced => notes' = notes /\ wit' = wit,
           control' \in [st : {"none", "sealed", "open"}, stop : FenceSet, auth : FenceSet],
           control'.auth.v <= ticket'.version,
           wit' \in [f : FenceSet, rebinds : Seq(RebindSet)],
           endpoint' \in [pr : BOOLEAN, f : FenceSet],
           ticket'.runner >= ticket.runner, ~Exhausted(ticket.version),
           Where' \in After <=> Where \in After,
           \A v \in New :
              /\ hist'[v].trig \notin {"recovered", "phase_pass", "effects_confirmed"}
              /\ hist'[v].trig = "ci_poll_exhausted" =>
                    v = ticket'.version /\ ticket'.state = "paused" /\ ticket'.resume = "waiting_ci"
              /\ hist'[v].trig \in Verdicts =>
                    owner'[v - 1] = [r |-> hist'[v].r, l |-> hist'[v].l] /\ owner'[v] = owner'[v - 1],
           Plain' =>
               /\ wit' = wit /\ endpoint.f = NoFence /\ control' = control
               /\ ticket'.state \notin {"stopping", "blocked"}
               /\ ticket'.state = "paused" => ticket'.resume = "waiting_ci"
               /\ PlainHistory => owner[ticket.version] = [r |-> ticket'.runner, l |-> leader]
               /\ Announced
    PROVE  Inv'
  <1>1. Typed /\ Announcing /\ Repairing
    BY DEF Inv
  <1>2. repair = NoRepair
    BY <1>1 DEF Repairing
  <1>3. Announcing' /\ (Announced' <=> Announced)
    BY <1>1, <1>2, AnnouncingGrow
  <1>4. Repairing'
    BY <1>1, RepairingQuiet
  <1>5. used' \in Nat /\ repair' \in [f : FenceSet, rows : SUBSET FenceSet]
    BY <1>1 DEF Typed
  <1> QED
    BY <1>3, <1>4, <1>5, GrowKeeps

LEMMA EventIs ==
    ASSUME NEW t \in Names, NEW a \in Names, NEW b \in Names
    PROVE  /\ Event(t, a, b) \in EventSet
           /\ Event(t, a, b).trig = t /\ Event(t, a, b).from = a /\ Event(t, a, b).to = b
  <1>1. "none" \in Names
    BY DEF Names
  <1> QED
    BY <1>1 DEF Event, EventSet

\* What was not plain stays so, and a stop or a block is not plain.
LEMMA NotPlain ==
    ASSUME Typed, Grows, endpoint'.f = NoFence => endpoint.f = NoFence,
           ~Plain \/ \E v \in New : hist'[v].trig \in Stops
    PROVE  ~Plain'
  BY RowsGrow DEF Plain

LEMMA OneVersion ==
    ASSUME Typed, Grows, ticket'.version = ticket.version + 1
    PROVE  New = {ticket.version + 1} /\ ticket.version + 1 - 1 = ticket.version
  BY RowsGrow DEF New

\* The parts of the invariant every action starts from.
LEMMA Parts ==
    ASSUME Inv
    PROVE  /\ Typed /\ Prefix /\ Held /\ Unresumed /\ Announcing /\ Repairing /\ VerdictIsOwn
           /\ Plain => PlainHistory
           /\ ticket.version \in Nat /\ ticket.runner \in Nat /\ leader \in Nat
           /\ ticket \in TicketSet /\ notes \subseteq 1 .. ticket.version
           /\ control \in [st : {"none", "sealed", "open"}, stop : FenceSet, auth : FenceSet]
           /\ control.auth.v <= ticket.version
           /\ wit \in [f : FenceSet, rebinds : Seq(RebindSet)]
           /\ endpoint \in [pr : BOOLEAN, f : FenceSet]
           /\ ticket.state \in Halted => ticket.resume \in Published0
           /\ ticket.code = "pr_opened" => ticket.resume = "waiting_ci"
           /\ notes \subseteq 1 .. ticket.version + 1
           /\ control.auth.v <= ticket.version + 1
           /\ ticket.runner >= ticket.runner /\ ticket.runner + 1 >= ticket.runner
  <1>1. /\ Typed /\ Prefix /\ Held /\ Unresumed /\ Announcing /\ Repairing /\ VerdictIsOwn
        /\ Plain => PlainHistory
    BY DEF Inv
  <1>2. /\ ticket \in TicketSet /\ notes \subseteq 1 .. ticket.version
        /\ control \in [st : {"none", "sealed", "open"}, stop : FenceSet, auth : FenceSet]
        /\ control.auth.v <= ticket.version
        /\ wit \in [f : FenceSet, rebinds : Seq(RebindSet)]
        /\ endpoint \in [pr : BOOLEAN, f : FenceSet]
        /\ ticket.state \in Halted => ticket.resume \in Published0
        /\ ticket.code = "pr_opened" => ticket.resume = "waiting_ci"
    BY <1>1 DEF Typed
  <1>3. ticket.version \in Nat /\ ticket.runner \in Nat /\ leader \in Nat
    BY <1>1, TypedIs
  <1>4. control.auth.v \in Nat
    BY <1>2 DEF FenceSet
  <1>5. /\ notes \subseteq 1 .. ticket.version + 1
        /\ control.auth.v <= ticket.version + 1
        /\ ticket.runner >= ticket.runner /\ ticket.runner + 1 >= ticket.runner
    BY <1>2, <1>3, <1>4
  <1> QED
    BY <1>1, <1>2, <1>3, <1>5

\* One event, as every handler of the operator and the worker makes it.
LEMMA MoveIs ==
    ASSUME Typed, leader' = leader, NEW t \in Names, NEW a \in Names, NEW b \in Names,
           NEW rs \in Published0 \union {"none"}, NEW r \in Nat,
           NEW c \in {"none", "recoverable", "pr_opened"},
           b \in Published0 \union Halted \union {"reviewing", "building"},
           Step(Event(t, a, b), b, rs, r, c)
    PROVE  /\ Grows /\ ticket'.version = ticket.version + 1 /\ New = {ticket.version + 1}
           /\ hist'[ticket.version + 1].trig = t /\ hist'[ticket.version + 1].code = "none"
           /\ ticket'.state = b /\ ticket'.resume = rs /\ ticket'.runner = r /\ ticket'.code = c
  <1>1. Event(t, a, b) \in EventSet
    BY EventIs
  <1>2. [state |-> b, resume |-> rs, version |-> ticket.version + 1,
         runner |-> r, code |-> c] \in TicketSet
    BY TypedIs DEF TicketSet
  <1>3. /\ Grows /\ ticket'.version = ticket.version + 1
        /\ hist'[ticket.version + 1] = Event(t, a, b)
        /\ ticket'.state = b /\ ticket'.resume = rs /\ ticket'.runner = r /\ ticket'.code = c
    BY <1>1, <1>2, StepIs
  <1>4. New = {ticket.version + 1}
    BY <1>3, OneVersion
  <1> QED
    BY <1>3, <1>4 DEF Event

LEMMA PauseKeeps ==
    ASSUME Inv, Pause
    PROVE  Inv'
  <1> USE Parts
  <1>1. /\ ticket.state \in Published0
        /\ Step(Event("operator_pause_or_take", ticket.state, "stopping"), "stopping",
                ticket.state, ticket.runner + 1, "none")
        /\ control' = Sealed(Fence(ticket.version + 1, ticket.runner + 1, leader))
        /\ UNCHANGED <<leader, notes, cand, wit, endpoint, obs, policy, used, repair, pc>>
    BY DEF Pause, publication, ci
  <1>2. /\ "operator_pause_or_take" \in Names /\ "stopping" \in Names /\ ticket.state \in Names
        /\ "stopping" \in Halted /\ ticket.runner + 1 \in Nat
        /\ ticket.state \in Published0 \union {"none"}
    BY <1>1 DEF Published0, Names, Halted
  <1>3. /\ Grows /\ ticket'.version = ticket.version + 1 /\ New = {ticket.version + 1}
        /\ hist'[ticket.version + 1].trig = "operator_pause_or_take"
        /\ ticket'.state = "stopping" /\ ticket'.resume = ticket.state
        /\ ticket'.runner = ticket.runner + 1 /\ ticket'.code = "none"
    BY <1>1, <1>2, MoveIs
  <1>5. ~Plain'
    BY <1>1, <1>3, NotPlain DEF Stops
  <1>6. Where' = Where
    BY <1>1, <1>3 DEF Where, Halted, Published0
  <1>7. /\ control' \in [st : {"none", "sealed", "open"}, stop : FenceSet, auth : FenceSet]
        /\ control'.auth.v <= ticket'.version
    <2>1. ticket.version + 1 \in Nat /\ ticket.runner + 1 \in Nat /\ leader \in Nat
          /\ ticket.version + 1 <= ticket.version + 1
      OBVIOUS
    <2> QED
      BY <1>1, <1>3, <2>1 DEF Sealed, Fence, FenceSet
  <1>8. ~Exhausted(ticket.version)
    BY <1>1, StartIs, TypedIs DEF Unresumed, Published0
  <1> QED
    BY <1>1, <1>2, <1>3, <1>5, <1>6, <1>7, <1>8, EventKeeps DEF Verdicts, Published0, After

LEMMA DrainKeeps ==
    ASSUME Inv, Drain
    PROVE  Inv'
  <1> USE Parts
  <1>1. /\ ticket.state = "stopping" /\ ticket.resume \in Published0
        /\ Step(Event("process_and_effects_drained", "stopping", "paused"), "paused",
                ticket.resume, ticket.runner, "none")
        /\ control' = Sealed(Fence(ticket.version, ticket.runner, leader))
        /\ UNCHANGED <<leader, notes, cand, wit, endpoint, obs, policy, used, repair, pc>>
    BY DEF Drain, Move, publication, ci, Halted, Live
  <1>2. /\ "process_and_effects_drained" \in Names /\ "stopping" \in Names /\ "paused" \in Names
        /\ "paused" \in Halted /\ ticket.resume \in Published0 \union {"none"}
    BY <1>1 DEF Names, Halted
  <1>3. /\ Grows /\ ticket'.version = ticket.version + 1 /\ New = {ticket.version + 1}
        /\ hist'[ticket.version + 1].trig = "process_and_effects_drained"
        /\ ticket'.state = "paused" /\ ticket'.resume = ticket.resume
        /\ ticket'.runner = ticket.runner /\ ticket'.code = "none"
    BY <1>1, <1>2, MoveIs
  <1>5. ~Plain'
    BY <1>1, <1>3, NotPlain DEF PlainHistory
  <1>6. Where' = Where
    BY <1>1, <1>3 DEF Where, Halted
  <1>7. /\ control' \in [st : {"none", "sealed", "open"}, stop : FenceSet, auth : FenceSet]
        /\ control'.auth.v <= ticket'.version
    <2>1. ticket.version <= ticket.version + 1
      OBVIOUS
    <2> QED
      BY <1>1, <1>3, <2>1 DEF Sealed, Fence, FenceSet
  <1>8. ~Exhausted(ticket.version)
    BY <1>1, StartIs, TypedIs DEF Unresumed
  <1> QED
    BY <1>1, <1>2, <1>3, <1>5, <1>6, <1>7, <1>8, EventKeeps DEF Verdicts, After

LEMMA BlockKeeps ==
    ASSUME Inv, blockPublishing \/ blockCI
    PROVE  Inv'
  <1> USE Parts
  <1>1. /\ ticket.state \in Published0
        /\ Step(Event("typed_blocker", ticket.state, "blocked"), "blocked", ticket.state,
                ticket.runner, "recoverable")
        /\ UNCHANGED <<leader, notes, control, cand, wit, endpoint, obs, policy, used, repair, pc>>
    BY DEF blockPublishing, blockCI, TransitionPublishedBlock, Serves, publication, ci, Published0
  <1>2. /\ "typed_blocker" \in Names /\ "blocked" \in Names /\ ticket.state \in Names
        /\ "blocked" \in Halted /\ ticket.state \in Published0 \union {"none"}
    BY <1>1 DEF Published0, Names, Halted
  <1>3. /\ Grows /\ ticket'.version = ticket.version + 1 /\ New = {ticket.version + 1}
        /\ hist'[ticket.version + 1].trig = "typed_blocker"
        /\ ticket'.state = "blocked" /\ ticket'.resume = ticket.state
        /\ ticket'.runner = ticket.runner /\ ticket'.code = "recoverable"
    BY <1>1, <1>2, MoveIs
  <1>4. ~Plain'
    BY <1>1, <1>3, NotPlain DEF Stops
  <1>5. Where' = Where
    BY <1>1, <1>3 DEF Where, Halted, Published0
  <1>6. ~Exhausted(ticket.version)
    BY <1>1, StartIs, TypedIs DEF Unresumed, Published0
  <1> QED
    BY <1>1, <1>2, <1>3, <1>4, <1>5, <1>6, EventKeeps DEF Verdicts, Published0, After

LEMMA RecoverBlockedKeeps ==
    ASSUME Inv, RecoverBlocked
    PROVE  Inv'
  <1> USE Parts
  <1>1. /\ ticket.state = "blocked" /\ ticket.resume \in Published0
        /\ Step(Event("operator_recover", "blocked", ticket.resume), ticket.resume, "none",
                ticket.runner, "none")
        /\ control' = Sealed(Fence(ticket.version, ticket.runner, leader))
        /\ UNCHANGED <<leader, notes, cand, wit, endpoint, obs, policy, used, repair, pc>>
    BY DEF RecoverBlocked, Move, publication, ci, Halted, Live
  <1>2. /\ "operator_recover" \in Names /\ "blocked" \in Names /\ ticket.resume \in Names
        /\ "none" \in Published0 \union {"none"}
    BY <1>1 DEF Published0, Names
  <1>3. /\ Grows /\ ticket'.version = ticket.version + 1 /\ New = {ticket.version + 1}
        /\ hist'[ticket.version + 1].trig = "operator_recover"
        /\ ticket'.state = ticket.resume /\ ticket'.runner = ticket.runner /\ ticket'.code = "none"
    BY <1>1, <1>2, MoveIs
  <1>4. ~Plain'
    BY <1>1, <1>3, NotPlain DEF PlainHistory
  <1>5. Where' = Where
    BY <1>1, <1>3 DEF Where, Halted, Published0
  <1>6. ~Exhausted(ticket.version)
    BY <1>1, StartIs, TypedIs DEF Unresumed
  <1>7. /\ control' \in [st : {"none", "sealed", "open"}, stop : FenceSet, auth : FenceSet]
        /\ control'.auth.v <= ticket'.version
    <2>1. ticket.version <= ticket.version + 1
      OBVIOUS
    <2> QED
      BY <1>1, <1>3, <2>1 DEF Sealed, Fence, FenceSet
  <1>8. ticket.state # "building" /\ ticket'.state # "building" /\ ticket'.state \notin Halted
    BY <1>1, <1>3 DEF Published0, Halted
  <1> QED
    BY <1>1, <1>2, <1>3, <1>4, <1>5, <1>6, <1>7, <1>8, EventKeeps DEF Verdicts

LEMMA ResumePREndpointKeeps ==
    ASSUME Inv, ResumePREndpoint
    PROVE  Inv'
  <1> USE Parts
  <1>1. /\ ticket.state = "paused" /\ ticket.resume = "waiting_ci"
        /\ Versions("endpoint_reached") = {ticket.version}
        /\ Step(Event("operator_resume", "paused", "waiting_ci"), "waiting_ci", "none",
                ticket.runner, "none")
        /\ endpoint' = [endpoint EXCEPT !.f = Fence(ticket.version + 1, ticket.runner, leader)]
        /\ UNCHANGED <<leader, notes, control, cand, wit, obs, policy, used, repair, pc>>
    BY DEF ResumePREndpoint, Move, ci
  <1>2. /\ "operator_resume" \in Names /\ "paused" \in Names /\ "waiting_ci" \in Names
        /\ "none" \in Published0 \union {"none"}
        /\ "none" \in {"none", "recoverable", "pr_opened"}
        /\ "waiting_ci" \in Published0 \union Halted \union {"reviewing", "building"}
        /\ leader' = leader /\ ticket.runner \in Nat
    BY <1>1 DEF Published0, Names
  <1>3. /\ Grows /\ ticket'.version = ticket.version + 1 /\ New = {ticket.version + 1}
        /\ hist'[ticket.version + 1].trig = "operator_resume"
        /\ ticket'.state = "waiting_ci" /\ ticket'.runner = ticket.runner /\ ticket'.code = "none"
    <2>1. Typed
      OBVIOUS
    <2> QED
      BY ONLY <1>1, <1>2, <2>1, MoveIs
  <1>4. /\ endpoint' \in [pr : BOOLEAN, f : FenceSet] /\ endpoint'.f # NoFence
    <2>1. ticket.version + 1 \in Nat /\ ticket.version + 1 # 0
      OBVIOUS
    <2> QED
      BY <1>1, <2>1 DEF Fence, FenceSet, NoFence
  <1>5. ~Plain'
    BY <1>4 DEF Plain, NoFence, Fence
  <1>6. Where' = Where
    BY <1>1, <1>3 DEF Where, Halted
  <1>7. ~Exhausted(ticket.version)
    BY <1>1 DEF Exhausted, Versions
  <1>8. ticket.state # "building" /\ ticket'.state # "building" /\ ticket'.state \notin Halted
    BY <1>1, <1>3 DEF Halted
  <1> QED
    BY <1>1, <1>2, <1>3, <1>4, <1>5, <1>6, <1>7, <1>8, EventKeeps DEF Verdicts

LEMMA AdmitCIPollKeeps ==
    ASSUME Inv, AdmitCIPoll
    PROVE  Inv'
  <1> USE Parts
  <1>1. /\ ticket.state = "waiting_ci" /\ pc = "serving"
        /\ UNCHANGED <<leader, notes, control, cand, wit, endpoint, obs, policy, used, repair, pc>>
        /\ \/ UNCHANGED <<ticket, hist, owner>>
           \/ \E code \in {"initial", "retry"} : Pauses(code)
    <2>1. ASSUME NEW x, Pauses(IF x THEN "retry" ELSE "initial")
          PROVE  \E code \in {"initial", "retry"} : Pauses(code)
      BY <2>1
    <2> QED
      BY <2>1 DEF AdmitCIPoll, Serves, publication
  <1>2. owner[ticket.version] = [r |-> ticket.runner, l |-> leader]
    <2>1. owner[ticket.version].r = ticket.runner /\ owner[ticket.version].l = leader
      BY <1>1 DEF Held, Fenceable, Published0
    <2>2. owner[ticket.version] \in OwnerSet
      BY TypedIs, StartIs
    <2> QED
      BY ONLY <2>1, <2>2 DEF OwnerSet
  <1>3. CASE UNCHANGED <<ticket, hist, owner>>
    <2>1. /\ leader <= leader /\ owner[ticket.version].l = leader
          /\ obs \in [f : FenceSet, class : {"none", "pending", "green", "red"}]
          /\ (obs # NoObs => policy # NoPolicy)
      BY <1>2 DEF Typed
    <2> QED
      BY <1>1, <1>3, <2>1, Kept
  <1>4. CASE \E code \in {"initial", "retry"} : Pauses(code)
    <2>1. PICK code \in {"initial", "retry"} : Pauses(code)
      BY <1>4
    <2> DEFINE e == [Event("ci_poll_exhausted", "waiting_ci", "paused") EXCEPT !.code = code]
    <2>2. e \in EventSet /\ e.trig = "ci_poll_exhausted"
      BY DEF EventSet, Event, Names
    <2>3. [state |-> "paused", resume |-> "waiting_ci", version |-> ticket.version + 1,
           runner |-> ticket.runner, code |-> "none"] \in TicketSet
      BY DEF TicketSet, Halted, Published0
    <2>4. Step(e, "paused", "waiting_ci", ticket.runner, "none")
      BY <2>1 DEF Pauses
    <2>5. /\ Grows /\ ticket'.version = ticket.version + 1 /\ hist'[ticket.version + 1] = e
          /\ ticket'.state = "paused" /\ ticket'.resume = "waiting_ci"
          /\ ticket'.runner = ticket.runner /\ ticket'.code = "none"
      <3> HIDE DEF e
      <3> QED
        BY <1>1, <2>2, <2>3, <2>4, StepIs
    <2>6. New = {ticket.version + 1} /\ hist'[ticket.version + 1].trig = "ci_poll_exhausted"
      BY <2>2, <2>5, OneVersion
    <2>7. Where = "waiting_ci" /\ Where' = "waiting_ci" /\ Announced
      BY <1>1, <2>5 DEF Where, Halted, Announcing
    <2>8. ~Exhausted(ticket.version)
      BY <1>1, StartIs, TypedIs DEF Unresumed
    <2>9. ticket.state # "building" /\ ticket'.state # "building" /\ ticket'.resume \in Published0
          /\ ticket'.state \notin {"stopping", "blocked"}
      BY <1>1, <2>5 DEF Published0
    <2>10. Plain' => endpoint.f = NoFence
      BY <1>1 DEF Plain
    <2> HIDE DEF e
    <2> QED
      BY <1>1, <1>2, <2>5, <2>6, <2>7, <2>8, <2>9, <2>10, EventKeeps DEF Verdicts
  <1> QED
    BY <1>1, <1>3, <1>4

-----------------------------------------------------------------------------
(* Who owned a version, of a history that was not stopped *)

\* The newest row of an interval of versions, when there is one.
LEMMA NewestRow ==
    ASSUME Typed, NEW a \in Nat, NEW z \in Nat, {w \in Rows : a < w /\ w < z} # {}
    PROVE  \E m \in Rows : /\ m = Newest({w \in Rows : a < w /\ w < z})
                           /\ a < m /\ m < z /\ m \in 1 .. ticket.version
                           /\ \A w \in Rows : ~(m < w /\ w < z)
  <1> DEFINE S == {w \in Rows : a < w /\ w < z}
  <1>1. /\ S \in SUBSET (1 .. ticket.version) /\ S # {}
        /\ ticket.version \in Nat /\ Rows \subseteq 1 .. ticket.version
    BY TypedIs
  <1>2. Newest(S) \in S /\ \A y \in S : y <= Newest(S)
    <2> HIDE DEF S
    <2> QED
      BY <1>1, NewestIs
  <1>3. PICK m \in S : m = Newest(S) /\ \A y \in S : y <= m
    BY <1>2
  <1>4. \A w \in Rows : ~(m < w /\ w < z)
    BY <1>1, <1>3
  <1> QED
    BY <1>1, <1>3, <1>4

\* A version that is no row has the owner of the one before it.
LEMMA OwnerSame ==
    ASSUME Typed, NEW a \in 1 .. ticket.version, NEW b \in a .. ticket.version,
           Owned(a), Owned(b), \A w \in Rows : ~(a < w /\ w <= b)
    PROVE  owner[a] = owner[b]
  <1>1. ticket.version \in Nat /\ a \in Nat /\ b \in Nat /\ a <= b
        /\ \A w \in Rows : w \in 1 .. ticket.version /\ w \in Nat
    BY TypedIs
  <1>2. CASE {w \in Rows : 0 < w /\ w < b + 1} = {}
    <2>1. (\A w \in Rows : w > b) /\ (\A w \in Rows : w > a)
      BY <1>1, <1>2
    <2>2. owner[a] = [r |-> 1, l |-> 1]
      BY <2>1 DEF Owned
    <2>3. owner[b] = [r |-> 1, l |-> 1]
      BY <2>1 DEF Owned
    <2> QED
      BY <2>2, <2>3
  <1>3. CASE {w \in Rows : 0 < w /\ w < b + 1} # {}
    <2>0. PICK o, z \in Nat : o = 0 /\ z = b + 1
      BY <1>1
    <2>a. o \in Nat /\ {w \in Rows : o < w /\ w < z} # {}
      BY <1>3, <2>0
    <2>1. PICK m \in Rows : /\ m = Newest({w \in Rows : o < w /\ w < z})
                            /\ o < m /\ m < z /\ m \in 1 .. ticket.version
                            /\ \A w \in Rows : ~(m < w /\ w < z)
      BY <2>a, NewestRow
    <2>2. m <= a /\ m <= b
      BY <1>1, <2>0, <2>1
    <2>3. \A x \in Rows : ~(m < x /\ x <= b) /\ ~(m < x /\ x <= a)
      BY <1>1, <2>0, <2>1
    <2> QED
      BY <2>2, <2>3 DEF Owned
  <1> QED
    BY <1>2, <1>3

\* The newest row since the waiting event names the owner of the version before.
LEMMA OwnerBeforeIs ==
    ASSUME Typed, Prefix, Held, Published, PlainHistory, Waiting.v \in 1 .. ticket.version,
           Waiting.v \notin Rows,
           NEW z \in Waiting.v + 1 .. ticket.version + 1
    PROVE  /\ OwnerBefore(Waiting, z).r = owner[z - 1].r
           /\ OwnerBefore(Waiting, z).l = owner[z - 1].l
  <1>1. PICK b : b = Waiting
    OBVIOUS
  <1>2. /\ b.v = Current.v + 1 /\ b.r = Current.r /\ b.l = Current.l
        /\ ticket.version \in Nat /\ b.v \in 1 .. ticket.version /\ Current.v \in Nat
        /\ Current.v \in 1 .. ticket.version
    <2>1. Current.v \in PassAt .. ticket.version /\ PassAt \in {5, 6}
      BY StartIs DEF PlainHistory
    <2> QED
      BY <1>1, <2>1, WaitingIs, TypedIs DEF Fence, FenceSet
  <1>3. \A v \in 1 .. ticket.version : Owned(v)
    BY TypedIs DEF PlainHistory
  <1>4. CASE {w \in Rows : b.v < w /\ w < z} = {}
    <2>1. OwnerBefore(Waiting, z) = b
      BY <1>1, <1>4 DEF OwnerBefore
    <2>2. owner[Current.v] = owner[z - 1]
      <3>1. PICK y, x : y = z - 1 /\ x = Current.v
        OBVIOUS
      <3>2. x \in 1 .. ticket.version /\ y \in x .. ticket.version /\ y \in 1 .. ticket.version
            /\ y + 1 = z /\ b.v = x + 1
        BY <1>1, <1>2, <3>1
      <3>3. \A w \in Rows : ~(x < w /\ w <= y)
        <4>1. \A w \in Rows : w \in Nat /\ w # b.v
          BY <1>1, TypedIs
        <4>2. \A w \in Rows : ~(b.v < w /\ w < z)
          BY <1>4
        <4> QED
          BY <3>2, <4>1, <4>2
      <3> QED
        BY <1>3, <3>1, <3>2, <3>3, OwnerSame
    <2>3. Current = Fence(Current.v, owner[Current.v].r, owner[Current.v].l)
      BY DEF PlainHistory
    <2> QED
      BY <1>2, <2>1, <2>2, <2>3 DEF Fence
  <1>5. CASE {w \in Rows : b.v < w /\ w < z} # {}
    <2>1. b.v \in Nat /\ z \in Nat
      BY <1>1, <1>2
    <2>2. PICK m \in Rows : /\ m = Newest({w \in Rows : b.v < w /\ w < z})
                            /\ b.v < m /\ m < z /\ m \in 1 .. ticket.version
                            /\ \A w \in Rows : ~(m < w /\ w < z)
      BY <1>5, <2>1, NewestRow
    <2>3. OwnerBefore(Waiting, z) = At(m)
      BY <1>1, <1>5, <2>2 DEF OwnerBefore
    <2>4. owner[m] = [r |-> hist[m].r, l |-> hist[m].l]
      BY DEF Held
    <2>5. owner[m] = owner[z - 1]
      <3>1. PICK y : y = z - 1
        OBVIOUS
      <3>2. y \in m .. ticket.version /\ y \in 1 .. ticket.version /\ y + 1 = z
        BY <1>2, <2>1, <2>2, <3>1
      <3>3. \A w \in Rows : ~(m < w /\ w <= y)
        <4>1. \A w \in Rows : w \in Nat
          BY TypedIs
        <4> QED
          BY <2>2, <3>2, <4>1
      <3> QED
        BY <1>3, <2>2, <3>1, <3>2, <3>3, OwnerSame
    <2> QED
      BY <2>3, <2>4, <2>5 DEF At, Fence
  <1> QED
    BY <1>1, <1>4, <1>5

LEMMA AnnouncedIs ==
    ASSUME Typed, Announcing, Announced
    PROVE  /\ Published /\ Waiting.v \in 1 .. ticket.version /\ Waiting.v \notin Rows
           /\ Is(Waiting.v, hist[Waiting.v].trig, hist[Waiting.v].from, hist[Waiting.v].to)
           /\ hist[Waiting.v].trig = "effects_confirmed"
  <1>1. Waiting.v \in Versions("effects_confirmed") /\ Published
    BY DEF Announcing
  <1> QED
    BY <1>1, TypedIs DEF Versions, Is

\* The resume of the first exhaustion is made by who made the exhaustion.
LEMMA PollResumed ==
    ASSUME Inv, Extends, Announced, PlainHistory, ticket'.version = ticket.version + 1,
           ticket'.runner = ticket.runner, leader' = leader,
           hist[ticket.version].trig = "ci_poll_exhausted", CIPollResume(ticket.version)'
    PROVE  owner[ticket.version] = [r |-> ticket.runner, l |-> leader]
  <1> USE Parts
  <1>1. PICK n, b : n = ticket.version /\ b = Waiting
    OBVIOUS
  <1>2. /\ n \in Nat /\ n >= 5 /\ b.v \in 1 .. n /\ b.v \notin Rows /\ Published
        /\ n \in 1 .. n /\ hist[n].trig = "ci_poll_exhausted" /\ n \notin Rows
        /\ \A v \in 1 .. n : owner[v] \in OwnerSet
    BY <1>1, StartIs, AnnouncedIs, TypedIs
  <1>3. /\ Waiting' = b /\ ticket'.version = n + 1 /\ n + 1 - 2 + 1 = n /\ n + 1 - 1 = n
    BY <1>1, <1>2, ExtendsIs
  <1>4. n > b.v
    <2>1. (findCIPollResumePair(Waiting.v, ticket.version) = {ticket.version - 1})'
      BY DEF CIPollResume
    <2>2. (\A x \in findCIPollResumePair(Waiting.v, ticket.version) : x = 0 \/ Waiting.v < x)'
      BY DEF findCIPollResumePair, PollPauses
    <2> QED
      BY <1>2, <1>3, <2>1, <2>2
  <1>5. /\ OwnerBefore(Waiting, n)'.r = ticket.runner
        /\ OwnerBefore(Waiting, n)'.l = leader
    <2>1. PICK q : q = ticket'.version - 2
      OBVIOUS
    <2>2. q + 1 = n
      BY <1>2, <1>3, <2>1
    <2>3. validateCIRecoveryLedger(Waiting, Fence(ticket.version - 2, ticket.runner, leader))'
      BY DEF CIPollResume
    <2>4. validateCIRecoveryLedger(Waiting, Fence(q, ticket.runner, leader))'
      BY <2>1, <2>3
    <2>5. /\ OwnerBefore(Waiting, q + 1)'.r = ticket.runner'
          /\ OwnerBefore(Waiting, q + 1)'.l = leader'
      BY <2>4 DEF validateCIRecoveryLedger, Fence
    <2> QED
      BY <2>2, <2>5
  <1>6. OwnerBefore(Waiting, n)' = OwnerBefore(Waiting, n)
    BY <1>1, <1>2, ExtendsIs
  <1>7. /\ OwnerBefore(Waiting, n).r = owner[n - 1].r
        /\ OwnerBefore(Waiting, n).l = owner[n - 1].l
    <2>1. n \in Waiting.v + 1 .. ticket.version + 1
      BY <1>1, <1>2, <1>4
    <2> QED
      BY <1>1, <1>2, <2>1, OwnerBeforeIs
  <1>8. owner[n - 1] = owner[n]
    <2>1. PICK a : a = n - 1
      OBVIOUS
    <2>2. a \in 1 .. n /\ n \in a .. n /\ n = a + 1
      BY <1>2, <2>1
    <2>3. \A w \in Rows : ~(a < w /\ w <= n)
      BY <1>1, <1>2, <2>2, TypedIs
    <2>4. Owned(a) /\ Owned(n)
      BY <1>1, <1>2, <2>2, TypedIs DEF PlainHistory
    <2> QED
      BY <1>1, <2>1, <2>2, <2>3, <2>4, OwnerSame
  <1> QED
    BY <1>1, <1>2, <1>5, <1>6, <1>7, <1>8 DEF OwnerSet

\* A drained pause that is resumed was no plain history.
LEMMA DrainedIs ==
    ASSUME Inv, Extends, ticket'.version = ticket.version + 1, ticket'.runner \in Nat, Announced,
           DrainedResume("waiting_ci")'
    PROVE  ~Plain' /\ hist[ticket.version].trig = "process_and_effects_drained"
  <1>0. Typed /\ Prefix /\ ticket.version \in Nat
    BY Parts
  <1>1. PICK s, e : s = Waiting' /\ e = Live'
    OBVIOUS
  <1>2. PICK sv, n, k : sv = s.v /\ n = ticket.version /\ k = e.r - s.r
    OBVIOUS
  <1>3. /\ sv \in Nat /\ n \in Nat /\ e.v = n + 1 /\ e.r = ticket'.runner /\ s.r \in Nat
        /\ DOMAIN hist' = 1 .. n + 1 /\ \A v \in 1 .. n : hist'[v] = hist[v]
    <2>1. s = Waiting
      BY <1>0, <1>1, ExtendsIs
    <2>2. s.v \in Nat /\ s.r \in Nat
      BY <1>0, <2>1, WaitingNat
    <2> QED
      BY <1>0, <1>1, <1>2, <2>2 DEF Live, Fence, Extends
  <1>4. e.v > s.v /\ e.v # s.v /\ validateRunnerControlAdvance(s, e)'
    <2>1. (ticket.version > Waiting.v)' /\ validateRunnerControlAdvance(s, e)'
      BY <1>1 DEF DrainedResume
    <2> QED
      BY <1>1, <1>2, <1>3, <2>1 DEF Live, Fence
  <1>5. k > 0 /\ e.v = s.v + 3 * k
    BY <1>2, <1>4 DEF validateRunnerControlAdvance
  <1>6. k \in Nat /\ n + 1 = sv + 3 * k /\ s.v = sv
    <2>1. k \in Int
      BY <1>2, <1>3
    <2> QED
      BY ONLY <1>2, <1>3, <1>5, <2>1
  <1>7. ASSUME NEW j \in 0 .. k - 1
        PROVE  /\ Is(s.v + 3 * j + 1, "operator_pause_or_take", hist[s.v + 3 * j + 1].from, "stopping")'
               /\ Is(s.v + 3 * j + 2, "process_and_effects_drained", "stopping", "paused")'
    BY <1>2, <1>4 DEF validateRunnerControlAdvance
  <1>8. hist'[sv + 1].trig = "operator_pause_or_take" /\ sv + 1 \in 1 .. n + 1
    <2>1. PICK j : j = 0
      OBVIOUS
    <2>2. j \in 0 .. k - 1
      BY <1>5, <1>6, <2>1
    <2>3. Is(s.v + 3 * j + 1, "operator_pause_or_take", hist[s.v + 3 * j + 1].from, "stopping")'
      BY <1>7, <2>2
    <2>4. s.v + 3 * j + 1 = sv + 1
      BY <1>3, <1>6, <2>1
    <2> QED
      BY <1>3, <2>3, <2>4 DEF Is
  <1>9. hist'[n].trig = "process_and_effects_drained"
    <2>1. PICK j : j = k - 1
      OBVIOUS
    <2>2. j \in 0 .. k - 1 /\ j \in Nat /\ k = j + 1
      BY <1>5, <1>6, <2>1
    <2>3. Is(s.v + 3 * j + 2, "process_and_effects_drained", "stopping", "paused")'
      BY <1>7, <2>2
    <2>4. sv + 3 * j + 2 = n
      BY <1>3, <1>6, <2>2
    <2> QED
      BY <1>6, <2>3, <2>4 DEF Is
  <1>10. ~Plain'
    BY <1>3, <1>8 DEF Plain, Stops
  <1> QED
    BY <1>0, <1>2, <1>3, <1>9, <1>10, StartIs

LEMMA ResumeKeeps ==
    ASSUME Inv, Resume
    PROVE  Inv'
  <1> USE Parts
  <1>1. PICK st : st = ticket.resume
    OBVIOUS
  <1> DEFINE b == [prior |-> Current, anchor |-> Len(wit.rebinds),
                   f |-> Fence(ticket.version + 1, ticket.runner, leader)]
  <1>2. /\ ticket.state = "paused" /\ st \in Published0
        /\ Step(Event("operator_resume", "paused", st), st, "none", ticket.runner, "none")
        /\ UNCHANGED <<leader, control, cand, endpoint, obs, policy, used, repair, pc>>
        /\ \/ /\ st = "publishing" /\ notes' = notes \union {ticket.version + 1}
              /\ wit' = [wit EXCEPT !.rebinds = Append(@, b)]
           \/ /\ UNCHANGED <<wit, notes>>
              /\ \/ /\ hist[ticket.version].trig = "ci_poll_exhausted"
                    /\ hist[ticket.version].code = "initial"
                    /\ CIPollResume(ticket.version)'
                 \/ /\ ~(/\ hist[ticket.version].trig = "ci_poll_exhausted"
                         /\ hist[ticket.version].code = "initial")
                    /\ DrainedResume(st)'
    BY <1>1 DEF Resume, Move, ci, Halted
  <1>3. /\ "operator_resume" \in Names /\ "paused" \in Names /\ st \in Names
        /\ "none" \in Published0 \union {"none"}
        /\ "none" \in {"none", "recoverable", "pr_opened"}
        /\ st \in Published0 \union Halted \union {"reviewing", "building"}
        /\ leader' = leader /\ ticket.runner \in Nat
    BY <1>2 DEF Published0, Names
  <1>4. /\ Grows /\ ticket'.version = ticket.version + 1 /\ New = {ticket.version + 1}
        /\ hist'[ticket.version + 1].trig = "operator_resume"
        /\ ticket'.state = st /\ ticket'.runner = ticket.runner /\ ticket'.code = "none"
    BY <1>2, <1>3, MoveIs
  <1>5. Where = st /\ Where' = st
    BY <1>1, <1>2, <1>4 DEF Where, Halted, Published0
  <1>6. /\ ticket.state # "building" /\ ticket'.state # "building" /\ ticket'.state \notin Halted
        /\ ticket'.state \notin {"stopping", "blocked", "paused"}
    BY <1>2, <1>4 DEF Published0, Halted
  <1>7. Announced <=> st = "waiting_ci"
    BY <1>2, <1>5 DEF Announcing, Published0
  <1>8. /\ notes' \subseteq 1 .. ticket'.version
        /\ wit' \in [f : FenceSet, rebinds : Seq(RebindSet)]
        /\ Announced => notes' = notes /\ wit' = wit
    <2>1. ticket.version + 1 \in 1 .. ticket.version + 1
      OBVIOUS
    <2>2. b \in RebindSet
      <3>1. Current \in FenceSet /\ Len(wit.rebinds) \in Nat /\ ticket.version + 1 \in Nat
        BY WaitingIs
      <3> QED
        BY <3>1 DEF Fence, FenceSet, RebindSet
    <2>3. [wit EXCEPT !.rebinds = Append(@, b)] \in [f : FenceSet, rebinds : Seq(RebindSet)]
      <3> HIDE DEF b
      <3>1. wit.rebinds \in Seq(RebindSet)
        OBVIOUS
      <3>2. Append(wit.rebinds, b) \in Seq(RebindSet)
        BY <2>2, <3>1
      <3> QED
        BY <3>2
    <2> HIDE DEF b
    <2> QED
      BY <1>2, <1>4, <1>7, <2>1, <2>3
  <1>9. /\ ~Exhausted(ticket.version)
        /\ Plain' => /\ wit' = wit /\ Announced
                     /\ PlainHistory => owner[ticket.version] = [r |-> ticket.runner, l |-> leader]
    <2>1. CASE st = "publishing"
      <3>1. ~Exhausted(ticket.version)
        BY <1>1, <2>1, StartIs, TypedIs DEF Unresumed
      <3>2. ~Plain'
        BY <1>1, <1>2, <1>4, <2>1, NotPlain DEF PlainHistory
      <3> QED
        BY <3>1, <3>2
    <2>2. CASE st = "waiting_ci"
      <3>1. Extends
        <4>1. wit' = wit /\ notes' = notes
          BY <1>7, <1>8, <2>2
        <4> QED
          BY <1>4, <4>1, RowsGrow DEF Extends
      <3>2. CASE hist[ticket.version].trig = "ci_poll_exhausted"
                 /\ hist[ticket.version].code = "initial"
        <4>1. CIPollResume(ticket.version)'
          BY <1>2, <2>2, <3>2
        <4> QED
          BY <1>3, <1>4, <1>7, <1>8, <2>2, <3>1, <3>2, <4>1, PollResumed DEF Exhausted
      <3>3. CASE ~(hist[ticket.version].trig = "ci_poll_exhausted"
                   /\ hist[ticket.version].code = "initial")
        <4>1. DrainedResume("waiting_ci")'
          BY <1>2, <2>2, <3>3
        <4>2. ticket'.runner \in Nat
          BY <1>4 DEF Grows, TicketSet
        <4> QED
          BY <1>4, <1>7, <2>2, <3>1, <4>1, <4>2, DrainedIs DEF Exhausted
      <3> QED
        BY <3>2, <3>3
    <2> QED
      BY <1>2, <2>1, <2>2 DEF Published0
  <1>10. Plain' => endpoint.f = NoFence /\ control' = control
    BY <1>2 DEF Plain
  <1> HIDE DEF b
  <1>11. UNCHANGED <<cand, obs, policy, used, repair>> /\ endpoint' \in [pr : BOOLEAN, f : FenceSet]
         /\ control' = control
    BY <1>2
  <1> HIDE <1>2
  <1> QED
    BY <1>4, <1>5, <1>6, <1>8, <1>9, <1>10, <1>11, EventKeeps DEF Verdicts

LEMMA TwoMore ==
    ASSUME NEW S, NEW H \in Seq(S), NEW x \in S, NEW y \in S
    PROVE  /\ H \o <<x, y>> \in Seq(S) /\ Len(H \o <<x, y>>) = Len(H) + 2
           /\ (H \o <<x, y>>)[Len(H) + 1] = x /\ (H \o <<x, y>>)[Len(H) + 2] = y
           /\ \A v \in 1 .. Len(H) : (H \o <<x, y>>)[v] = H[v]
  <1> DEFINE P == [i \in 1 .. 2 |-> IF i = 1 THEN x ELSE y]
  <1>1. PICK T \in Seq(S) : T = <<x, y>> /\ Len(T) = 2 /\ T[1] = x /\ T[2] = y
    <2>1. P \in [1 .. 2 -> S] /\ P[1] = x /\ P[2] = y
      OBVIOUS
    <2>2. P = <<x, y>>
      OBVIOUS
    <2>3. P \in Seq(S) /\ Len(P) = 2
      BY <2>1
    <2> HIDE DEF P
    <2> QED
      BY <2>1, <2>2, <2>3
  <1>2. Len(H) \in Nat
    OBVIOUS
  <1>3. /\ H \o T \in Seq(S) /\ Len(H \o T) = Len(H) + 2
    BY <1>1
  <1>4. /\ (H \o T)[Len(H) + 1] = T[1] /\ (H \o T)[Len(H) + 2] = T[2]
    BY <1>1, <1>2
  <1>5. \A v \in 1 .. Len(H) : (H \o T)[v] = H[v]
    BY <1>1, <1>2
  <1> QED
    BY <1>1, <1>3, <1>4, <1>5

LEMMA TransitionKeeps ==
    ASSUME Inv, TransitionPublishedCandidate
    PROVE  Inv'
  <1> USE Parts
  <1> DEFINE e1 == Event("effects_confirmed", "publishing", "waiting_ci")
             e2 == Event("endpoint_reached", "waiting_ci", "paused")
             o  == [r |-> ticket.runner, l |-> leader]
  <1>1. /\ ticket.state = "publishing" /\ pc = "serving" /\ Published /\ Current = Live
        /\ UNCHANGED <<leader, notes, control, cand, wit, endpoint, obs, policy, used, repair, pc>>
    BY DEF TransitionPublishedCandidate, Serves, LoadPublishedCandidate,
           loadLatestPublicationRebind, publication, ci
  <1>2. e1 \in EventSet /\ e2 \in EventSet /\ o \in OwnerSet
    BY DEF Event, EventSet, Names, OwnerSet
  <1>3. PICK n \in Nat : n = ticket.version /\ n >= 5
    BY StartIs
  <1>4. owner[n] = o
    BY <1>1, <1>3, TypedIs DEF Held, Fenceable, Published0, OwnerSet
  <1>5. /\ Grows /\ ticket'.runner = ticket.runner /\ ticket'.version \in {n + 1, n + 2}
        /\ hist'[n + 1] = e1 /\ (ticket'.version = n + 2 => hist'[n + 2] = e2)
        /\ ticket'.code = "pr_opened" => ticket'.resume = "waiting_ci"
        /\ \/ ticket'.state = "waiting_ci"
           \/ ticket'.state = "paused" /\ ticket'.resume = "waiting_ci"
    <2>1. CASE Move("effects_confirmed", "waiting_ci", "none")
      <3>1. Step(Event("effects_confirmed", "publishing", "waiting_ci"), "waiting_ci", "none",
                 ticket.runner, "none")
        BY <1>1, <2>1 DEF Move
      <3>2. [state |-> "waiting_ci", resume |-> "none", version |-> ticket.version + 1,
             runner |-> ticket.runner, code |-> "none"] \in TicketSet
        BY DEF TicketSet, Published0
      <3> HIDE DEF e1
      <3> QED
        BY <1>1, <1>2, <1>3, <3>1, <3>2, StepIs DEF e1
    <2>2. CASE /\ hist' = hist \o <<e1, e2>>
               /\ owner' = owner \o [i \in 1 .. 2 |-> o]
               /\ ticket' = [ticket EXCEPT !.state = "paused", !.resume = "waiting_ci",
                                           !.version = @ + 2, !.code = "pr_opened"]
      <3>1. PICK H, O : H = hist /\ O = owner
        OBVIOUS
      <3>2. /\ H \in Seq(EventSet) /\ Len(H) = n /\ O \in Seq(OwnerSet) /\ Len(O) = n
        BY <1>3, <3>1 DEF Typed
      <3>3. PICK x \in EventSet, y \in EventSet, w \in OwnerSet : x = e1 /\ y = e2 /\ w = o
        BY <1>2
      <3>4. /\ H \o <<x, y>> \in Seq(EventSet) /\ Len(H \o <<x, y>>) = n + 2
            /\ (H \o <<x, y>>)[n + 1] = x /\ (H \o <<x, y>>)[n + 2] = y
            /\ \A v \in 1 .. n : (H \o <<x, y>>)[v] = H[v]
        BY <3>2, TwoMore
      <3>5. [i \in 1 .. 2 |-> w] = <<w, w>>
        OBVIOUS
      <3>6. /\ O \o <<w, w>> \in Seq(OwnerSet) /\ Len(O \o <<w, w>>) = n + 2
            /\ (O \o <<w, w>>)[n + 1] = w /\ (O \o <<w, w>>)[n + 2] = w
            /\ \A v \in 1 .. n : (O \o <<w, w>>)[v] = O[v]
        BY <3>2, TwoMore
      <3>7. /\ ticket' \in TicketSet /\ ticket'.version = n + 2 /\ ticket'.runner = ticket.runner
            /\ ticket'.state = "paused" /\ ticket'.resume = "waiting_ci"
        <4>1. ticket' = [state |-> "paused", resume |-> "waiting_ci", version |-> n + 2,
                         runner |-> ticket.runner, code |-> "pr_opened"]
          BY <1>3, <2>2 DEF TicketSet
        <4> QED
          BY <1>3, <4>1 DEF TicketSet, Halted, Published0
      <3>8. New = {n + 1, n + 2}
        BY <1>3, <3>7 DEF New
      <3>9. Grows
        <4>1. hist' = H \o <<x, y>> /\ owner' = O \o <<w, w>>
          BY <2>2, <3>1, <3>3, <3>5
        <4>2. \A v \in New : owner'[v] = w
          BY <3>6, <3>8, <4>1
        <4>3. \A v \in 1 .. ticket.version : hist'[v] = hist[v] /\ owner'[v] = owner[v]
          BY <1>3, <3>1, <3>4, <3>6, <4>1
        <4>4. /\ hist' \in Seq(EventSet) /\ owner' \in Seq(OwnerSet)
              /\ Len(hist') = n + 2 /\ Len(owner') = n + 2
          BY <3>2, <3>4, <3>6, <4>1
        <4>5. n + 2 > n /\ \A v \in New : owner'[v] = [r |-> ticket'.runner, l |-> leader]
          BY <3>3, <3>7, <4>2
        <4> HIDE DEF e1, e2, o
        <4> QED
          BY <1>1, <1>3, <3>7, <4>3, <4>4, <4>5 DEF Grows
      <3> QED
        BY <2>2, <3>1, <3>3, <3>4, <3>7, <3>9
    <2> QED
      BY <2>1, <2>2 DEF TransitionPublishedCandidate
  <1>6. /\ \A v \in New : v = n + 1 \/ v = n + 2
        /\ n + 1 \in New /\ (n + 2 \in New => ticket'.version = n + 2)
    BY <1>3, <1>5 DEF New
  <1>7. /\ hist'[n + 1].trig = "effects_confirmed"
        /\ \A v \in New : v # n + 1 => hist'[v].trig = "endpoint_reached"
    BY <1>5, <1>6 DEF Event
  <1>8. Announcing' /\ Announced'
    <2>1. Versions("effects_confirmed") = {}
      BY <1>1 DEF Announcing, Announced, Where, Halted
    <2>2. Versions("effects_confirmed")' = {n + 1}
      <3>1. \A v \in 1 .. n : hist'[v].trig # "effects_confirmed"
        BY <1>3, <1>5, <2>1, RowsGrow DEF Versions
      <3>2. n + 1 # n + 2 /\ \A v \in DOMAIN hist' : v \in 1 .. n \/ v \in New
        BY <1>3, <1>5, RowsGrow
      <3>3. n + 1 \in DOMAIN hist'
        BY <1>5, <1>6, RowsGrow
      <3> QED
        BY <1>7, <3>1, <3>2, <3>3 DEF Versions
    <2>3. Current' = Current /\ Waiting' = Waiting /\ (Published' <=> Published)
      BY <1>1 DEF Current, Waiting, Shift, Published
    <2>4. Waiting.v = n + 1
      BY <1>1, <1>3, WaitingNat DEF Live, Fence
    <2>5. Where' = "waiting_ci"
      BY <1>5 DEF Where, Halted
    <2>6. \A m \in notes' : m < n + 1
      BY <1>1, <1>3
    <2> QED
      BY <1>1, <2>2, <2>3, <2>4, <2>5, <2>6 DEF Announcing, Announced
  <1>9. Repairing'
    BY <1>1, <1>5, RepairingQuiet
  <1>10. ~Exhausted(ticket.version)
    BY <1>1, StartIs, TypedIs DEF Unresumed
  <1>11. /\ ticket'.state \in Halted => ticket'.resume \in Published0
         /\ ticket'.state \notin {"stopping", "blocked"}
         /\ ticket'.state = "paused" => ticket'.resume = "waiting_ci"
    BY <1>5 DEF Halted, Published0
  <1>12. /\ notes' \subseteq 1 .. ticket'.version /\ control'.auth.v <= ticket'.version
         /\ used' \in Nat /\ repair' \in [f : FenceSet, rows : SUBSET FenceSet]
    <2>1. control.auth.v \in Nat
      BY DEF FenceSet
    <2>2. used \in Nat /\ repair \in [f : FenceSet, rows : SUBSET FenceSet]
      BY DEF Typed
    <2> QED
      BY <1>1, <1>3, <1>5, <2>1, <2>2
  <1>13. Current.v = ticket.version
    BY <1>1 DEF Live, Fence
  <1>14. Plain' => endpoint.f = NoFence
    BY <1>1 DEF Plain
  <1>15. \A v \in New : hist'[v].trig \in {"effects_confirmed", "endpoint_reached"}
    BY <1>7
  <1>16. owner[ticket.version] = [r |-> ticket'.runner, l |-> leader]
    BY <1>3, <1>4, <1>5
  <1> HIDE DEF e1, e2, o
  <1> QED
    BY <1>1, <1>5, <1>8, <1>9, <1>10, <1>11, <1>12, <1>13, <1>14, <1>15, <1>16, GrowKeeps
       DEF Verdicts

\* The four verdicts, and when the red one starts a repair.
LEMMA VerdictIs ==
    ASSUME NEW v, v = Verdict(obs.class)
    PROVE  /\ \/ v = <<"checks_pending", "waiting_ci", "none">>
              \/ v = <<"checks_green", "reviewing", "none">>
              \/ v = <<"checks_red", "building", "none">> /\ obs.class = "red"
              \/ v = <<"checks_red", "paused", "waiting_ci">>
  <1>1. CASE obs.class = "pending" \/ obs.class = "green"
    BY <1>1 DEF Verdict, Repairs
  <1>2. CASE ~(obs.class = "pending" \/ obs.class = "green") /\ Repairs(obs.class)
    BY <1>2 DEF Verdict, Repairs
  <1>3. CASE ~(obs.class = "pending" \/ obs.class = "green") /\ ~Repairs(obs.class)
    BY <1>3 DEF Verdict
  <1> QED
    BY <1>1, <1>2, <1>3

LEMMA ConsumeKeeps ==
    ASSUME Inv, ConsumeCIObservation
    PROVE  Inv'
  <1> USE Parts
  <1>1. PICK n \in Nat : n = ticket.version /\ n >= 5
    BY StartIs
  <1>2. PICK v : /\ v = Verdict(obs.class)
                 /\ Step([Event(v[1], "waiting_ci", v[2]) EXCEPT !.r = obs.f.r, !.l = obs.f.l],
                         v[2], v[3], ticket.runner, "none")
                 /\ IF v[2] = "building"
                    THEN used' = used + 1 /\ notes' = notes \union {n} /\ recordRepairBinding
                    ELSE UNCHANGED <<used, repair, notes>>
    BY <1>1 DEF ConsumeCIObservation, Consume
  <1>3. /\ ticket.state = "waiting_ci" /\ pc = "serving" /\ obs.f = Live /\ policy # NoPolicy
        /\ loadCICurrentPublicationAt(leader)
        /\ UNCHANGED <<leader, control, cand, wit, endpoint, obs, policy, pc>>
    BY DEF ConsumeCIObservation, Consume, authenticateCurrentCIObservation, publication
  <1>4. /\ owner[n] = [r |-> ticket.runner, l |-> leader] /\ repair = NoRepair
        /\ Where = "waiting_ci" /\ Announced
    BY <1>1, <1>3, TypedIs DEF Held, Fenceable, Published0, OwnerSet, Repairing, Where, Halted,
                               Announcing
  <1> DEFINE e == [Event(v[1], "waiting_ci", v[2]) EXCEPT !.r = obs.f.r, !.l = obs.f.l]
  <1>5. /\ v[1] \in Verdicts /\ v[1] \in Names /\ v[2] \in Names
        /\ v[2] \in {"waiting_ci", "reviewing", "building", "paused"}
        /\ v[3] \in Published0 \union {"none"} /\ (v[2] = "paused" => v[3] = "waiting_ci")
        /\ v[2] = "building" => v[1] = "checks_red" /\ obs.class = "red"
    BY <1>2, VerdictIs DEF Verdicts, Names, Published0
  <1>6. e \in EventSet /\ e.trig = v[1] /\ e.from = "waiting_ci" /\ e.to = v[2]
        /\ e.r = ticket.runner /\ e.l = leader
    <2>1. obs.f.r = ticket.runner /\ obs.f.l = leader
      BY <1>3 DEF Live, Fence
    <2>2. PICK t \in Names, u \in Names, r \in Nat, l \in Nat :
                 t = v[1] /\ u = v[2] /\ r = obs.f.r /\ l = obs.f.l
      BY <1>5, <2>1
    <2>3. PICK x \in EventSet : /\ x = Event(t, "waiting_ci", u)
                                /\ x.trig = t /\ x.from = "waiting_ci" /\ x.to = u
      <3>1. "waiting_ci" \in Names
        BY DEF Names
      <3> QED
        BY ONLY <2>2, <3>1, EventIs
    <2>4. e \in EventSet /\ e.trig = t /\ e.from = "waiting_ci" /\ e.to = u /\ e.r = r /\ e.l = l
      <3>1. e = [x EXCEPT !.r = r, !.l = l]
        BY <2>2, <2>3
      <3>2. PICK y : y = [x EXCEPT !.r = r, !.l = l]
        OBVIOUS
      <3>3. y \in EventSet
        BY ONLY <2>2, <2>3, <3>2 DEF EventSet
      <3>4. y.trig = t /\ y.from = "waiting_ci" /\ y.to = u /\ y.r = r /\ y.l = l
        BY ONLY <2>2, <2>3, <3>2 DEF EventSet
      <3> HIDE DEF e
      <3> QED
        BY ONLY <3>1, <3>2, <3>3, <3>4
    <2> HIDE DEF e
    <2> QED
      BY <2>1, <2>2, <2>4
  <1>7. [state |-> v[2], resume |-> v[3], version |-> ticket.version + 1,
         runner |-> ticket.runner, code |-> "none"] \in TicketSet
    BY <1>5 DEF TicketSet, Published0, Halted
  <1>8. /\ Grows /\ ticket'.version = ticket.version + 1
        /\ hist'[ticket.version + 1] = e
        /\ ticket'.state = v[2] /\ ticket'.resume = v[3] /\ ticket'.runner = ticket.runner
        /\ ticket'.code = "none"
    <2>1. Step(e, v[2], v[3], ticket.runner, "none")
      BY <1>2
    <2> HIDE DEF e
    <2> QED
      BY <1>3, <1>6, <1>7, <2>1, StepIs
  <1> HIDE DEF e
  <1>9. /\ New = {n + 1} /\ ticket'.version = n + 1 /\ hist'[n + 1].trig = v[1]
        /\ hist'[n + 1].from = "waiting_ci" /\ hist'[n + 1].to = v[2]
        /\ hist'[n + 1].r = ticket.runner /\ hist'[n + 1].l = leader
        /\ owner'[n + 1] = [r |-> ticket.runner, l |-> leader]
        /\ owner'[n] = [r |-> ticket.runner, l |-> leader]
        /\ n \in 1 .. n /\ n + 1 - 1 = n /\ n + 1 \in DOMAIN hist'
    BY <1>1, <1>4, <1>6, <1>8, OneVersion, RowsGrow
  <1>10. \A x \in New :
            /\ hist'[x].trig \notin {"recovered", "phase_pass", "effects_confirmed",
                                    "ci_poll_exhausted"}
            /\ hist'[x].trig \in Verdicts =>
                  owner'[x - 1] = [r |-> hist'[x].r, l |-> hist'[x].l] /\ owner'[x] = owner'[x - 1]
    <2>1. ASSUME NEW x \in New PROVE x = n + 1 /\ x - 1 = n
      BY <1>1, <1>9, <2>1
    <2>2. v[1] \notin {"recovered", "phase_pass", "effects_confirmed", "ci_poll_exhausted"}
      BY <1>5 DEF Verdicts
    <2> QED
      BY ONLY <1>9, <2>1, <2>2
  <1>11. ~Exhausted(ticket.version)
    BY <1>3, StartIs, TypedIs DEF Unresumed
  <1>12. /\ ticket'.state \in Halted => ticket'.resume \in Published0
         /\ ticket'.code = "pr_opened" => ticket'.resume = "waiting_ci"
         /\ ticket'.state \notin {"stopping", "blocked"}
         /\ ticket'.state = "paused" => ticket'.resume = "waiting_ci"
         /\ Where' \in After /\ Where \in After
    BY <1>4, <1>5, <1>8 DEF Halted, Published0, Where, After
  <1>13. Plain' => endpoint.f = NoFence
    BY <1>3 DEF Plain
  <1>14. owner[ticket.version] = [r |-> ticket'.runner, l |-> leader]
    BY <1>1, <1>4, <1>8
  <1>15. /\ control' \in [st : {"none", "sealed", "open"}, stop : FenceSet, auth : FenceSet]
         /\ wit' \in [f : FenceSet, rebinds : Seq(RebindSet)] /\ wit' = wit /\ control' = control
         /\ endpoint' \in [pr : BOOLEAN, f : FenceSet] /\ UNCHANGED <<cand, obs, policy>>
         /\ control'.auth.v <= ticket'.version /\ ticket'.runner >= ticket.runner
    BY <1>3, <1>8
  <1>16. CASE v[2] # "building"
    <2>1. UNCHANGED <<used, repair, notes>> /\ notes' \subseteq 1 .. ticket'.version
      BY <1>2, <1>8, <1>16
    <2>2. ticket.state # "building" /\ ticket'.state # "building"
      BY <1>3, <1>8, <1>16
    <2> HIDE <1>2, <1>3
    <2> QED
      BY <1>4, <1>8, <1>10, <1>11, <1>12, <1>13, <1>14, <1>15, <2>1, <2>2, EventKeeps
  <1>17. CASE v[2] = "building"
    <2>1. used' = used + 1 /\ notes' = notes \union {n} /\ recordRepairBinding
      BY <1>2, <1>17
    <2>2. PICK D : D = candidateRepairRecoveryPrefixDigest(n)
      OBVIOUS
    <2>3. D \subseteq FenceSet /\ D = candidateRepairRecoveryPrefixDigest(n)'
      <3>1. D = {At(w) : w \in {x \in Rows : x <= n}}
        BY <2>2 DEF candidateRepairRecoveryPrefixDigest
      <3>2. \A w \in Rows : w \in 1 .. n /\ At(w) \in FenceSet
        <4>1. \A w \in Rows : w \in 1 .. n /\ hist[w] \in EventSet
          BY <1>1, TypedIs
        <4>2. \A w \in Rows : w \in Nat /\ hist[w].r \in Nat /\ hist[w].l \in Nat
          BY <1>1, <4>1 DEF EventSet
        <4> QED
          BY <4>1, <4>2 DEF At, Fence, FenceSet
      <3>3. {x \in Rows' : x <= n} = {x \in Rows : x <= n}
        <4>1. \A x \in 1 .. n + 1 : x <= n <=> x \in 1 .. n
          BY <1>1
        <4>2. Rows \subseteq 1 .. n /\ Rows' \subseteq 1 .. n + 1 /\ \A x \in 1 .. n : x \in Rows' <=> x \in Rows
          BY <1>1, <1>9, <1>8, RowsGrow
        <4>3. \A x \in 1 .. n : x \in 1 .. n + 1
          BY <1>1
        <4> QED
          BY <4>1, <4>2, <4>3
      <3>4. \A w \in {x \in Rows : x <= n} : At(w)' = At(w)
        BY <1>1, <1>8, <3>2, RowsGrow
      <3>5. candidateRepairRecoveryPrefixDigest(n)' = {At(w)' : w \in {x \in Rows' : x <= n}}
        BY DEF candidateRepairRecoveryPrefixDigest
      <3>6. {At(w)' : w \in {x \in Rows' : x <= n}} = {At(w)' : w \in {x \in Rows : x <= n}}
        BY <3>3
      <3>7. {At(w)' : w \in {x \in Rows : x <= n}} = {At(w) : w \in {x \in Rows : x <= n}}
        BY <3>4
      <3> QED
        BY <3>1, <3>2, <3>5, <3>6, <3>7
    <2>4. repair' = [f |-> obs.f, rows |-> D] /\ obs.f = Fence(n, ticket.runner, leader)
      BY <1>1, <1>3, <2>1, <2>2 DEF recordRepairBinding, Live, Fence
    <2>5. /\ repair'.f = Live /\ repair'.f = Fence(n, ticket.runner, leader) /\ repair'.rows = D
          /\ repair' # NoRepair
          /\ repair' \in [f : FenceSet, rows : SUBSET FenceSet]
      <3>1. Fence(n, ticket.runner, leader) \in FenceSet /\ Fence(n, ticket.runner, leader) # NoFence
        BY <1>1 DEF Fence, FenceSet, NoFence
      <3> QED
        BY <1>3, <2>3, <2>4, <3>1 DEF NoRepair
    <2>6. /\ used' \in Nat /\ used' > 0 /\ notes' \subseteq 1 .. ticket'.version
      <3>1. used \in Nat
        BY DEF Typed
      <3> QED
        BY <1>1, <1>8, <2>1, <3>1
    <2>7. Announcing' /\ Announced'
      <3>1. \A x \in New : hist'[x].trig # "effects_confirmed"
        BY <1>10
      <3> QED
        BY <1>4, <1>8, <1>12, <1>15, <2>5, <3>1, AnnouncingGrow
    <2>8. Extends
      <3>1. \A m \in notes' : m \in notes \/ m >= ticket.version
        BY <1>1, <2>1
      <3> QED
        BY <1>8, <1>15, <2>1, <3>1, RowsGrow DEF Extends
    <2>9. endpoint.f = NoFence => RepairHistory(repair.f)'
      BY <1>1, <1>3, <1>4, <1>8, <2>1, <2>5, <2>8, VerdictHistory
    <2>10. RepairEntry' = Fence(n + 1, ticket.runner, leader)
      BY <2>5 DEF RepairEntry, Shift, Fence
    <2>11. Waiting'.v <= n
      BY <1>1, <1>4, <2>8, AnnouncedIs, ExtendsIs
    <2>12. Repairing'
      <3>1. ticket'.state = "building" /\ repair' # NoRepair
        BY <1>8, <1>17, <2>5
      <3>2. PICK z, y : z = RepairEntry' /\ y = repair'.f
        OBVIOUS
      <3>3. z.v = n + 1 /\ z.r = ticket.runner /\ z.l = leader /\ y.v = n
        BY <2>5, <2>10, <3>2 DEF Fence
      <3>4. /\ z.v \in DOMAIN hist' /\ y.v >= Waiting'.v
            /\ Is(z.v, "checks_red", "waiting_ci", "building")'
        BY <1>5, <1>9, <1>17, <2>11, <3>3 DEF Is
      <3>5. repair'.rows = candidateRepairRecoveryPrefixDigest(y.v)'
        BY <2>3, <2>5, <3>3
      <3>6. obs'.class = "red" /\ obs'.f = y /\ policy' # NoPolicy
        BY <1>3, <1>5, <1>17, <2>5, <3>2
      <3>7. control'.auth.v < z.v
        <4>1. control.auth.v \in Nat
          BY DEF FenceSet
        <4> QED
          BY <1>1, <1>3, <3>3, <4>1
      <3>8. owner'[z.v] = [r |-> z.r, l |-> z.l]
        BY <1>9, <3>3
      <3>9. z.v + 1 .. ticket'.version = {}
        BY <1>1, <1>9, <3>3
      <3>10. endpoint'.f = NoFence => RepairHistory(repair.f)'
        BY <1>3, <2>9
      <3> HIDE DEF NoRepair, NoFence
      <3> QED
        BY <2>6, <3>1, <3>2, <3>4, <3>5, <3>6, <3>7, <3>8, <3>9, <3>10 DEF Repairing
    <2> HIDE <1>2, <1>3
    <2> QED
      BY <1>4, <1>8, <1>10, <1>11, <1>12, <1>13, <1>14, <1>15, <2>5, <2>6, <2>7, <2>12, GrowKeeps
  <1> QED
    BY <1>16, <1>17

-----------------------------------------------------------------------------
(* The startup fence names the owner of the newest version *)

\* Where the history tells who held the ticket, a witness names that leader.
Known  == Plain \/ ticket.state = "building"
Fit(W) == W \subseteq 0 .. leader - 1 /\ (Known => W \subseteq {0, owner[ticket.version].l})

LEMMA LatestIs ==
    ASSUME Typed
    PROVE  \/ LatestRow = 0 /\ Rows = {}
           \/ /\ LatestRow \in Rows /\ LatestRow \in 1 .. ticket.version
              /\ hist[LatestRow].l \in Nat /\ hist[LatestRow].r \in Nat
              /\ \A w \in Rows : w <= LatestRow
  <1>1. CASE Rows = {}
    BY <1>1 DEF LatestRow
  <1>2. CASE Rows # {}
    <2>1. PICK n \in Nat : n = ticket.version
      BY TypedIs
    <2>2. Rows \in SUBSET (1 .. n)
      BY <2>1, TypedIs
    <2>3. Newest(Rows) \in Rows /\ \A w \in Rows : w <= Newest(Rows)
      BY <1>2, <2>2, NewestIs
    <2>4. LatestRow = Newest(Rows)
      BY <1>2 DEF LatestRow
    <2>5. hist[LatestRow] \in EventSet
      BY <2>3, <2>4, TypedIs
    <2> QED
      BY <2>3, <2>4, <2>5, TypedIs DEF EventSet
  <1> QED
    BY <1>1, <1>2

LEMMA FitIs ==
    ASSUME Typed
    PROVE  /\ Fit({}) /\ Fit(Refuse)
           /\ \A l \in Nat : (Known => l = owner[ticket.version].l) =>
                 Fit(Witness(l)) /\ (Older(l) => Fit({l}))
  <1>1. leader \in Nat /\ leader >= 1
    BY DEF Typed
  <1>2. Fit({}) /\ Fit(Refuse)
    BY <1>1 DEF Fit, Refuse
  <1>3. ASSUME NEW l \in Nat, Known => l = owner[ticket.version].l
        PROVE  Fit(Witness(l)) /\ (Older(l) => Fit({l}))
    <2>1. ASSUME l < leader PROVE Fit({l})
      BY <1>1, <1>3, <2>1 DEF Fit
    <2> QED
      BY <1>2, <2>1 DEF Witness, Older
  <1> QED
    BY <1>2, <1>3

\* The first witness that is not empty is one of them.
LEMMA FirstIn ==
    ASSUME NEW ws, NEW S, \A i \in DOMAIN ws : ws[i] \subseteq S,
           \E i \in DOMAIN ws : ws[i] # {} /\ \A j \in 1 .. i - 1 : ws[j] = {}
    PROVE  First(ws) \in S
  <1> DEFINE P(i) == ws[i] # {} /\ \A j \in 1 .. i - 1 : ws[j] = {}
             k == CHOOSE i \in DOMAIN ws : P(i)
  <1>1. k \in DOMAIN ws /\ P(k)
    <2> HIDE DEF P
    <2>1. \E i \in DOMAIN ws : P(i)
      BY DEF P
    <2> QED
      BY <2>1
  <1>2. (CHOOSE l \in ws[k] : TRUE) \in ws[k]
    BY <1>1
  <1>3. First(ws) = CHOOSE l \in ws[k] : TRUE
    BY DEF First
  <1> QED
    BY <1>1, <1>2, <1>3

LEMMA FirstOfOne ==
    ASSUME NEW a, NEW S, a \subseteq S, a # {}
    PROVE  First(<<a>>) \in S
  <1>1. PICK ws : ws = <<a>>
    OBVIOUS
  <1>2. DOMAIN ws = 1 .. 1 /\ ws[1] = a
    BY <1>1
  <1>3. \A i \in DOMAIN ws : ws[i] \subseteq S
    BY <1>2
  <1>4. ws[1] # {} /\ \A j \in 1 .. 1 - 1 : ws[j] = {}
    BY <1>2
  <1>5. \E i \in DOMAIN ws : ws[i] # {} /\ \A j \in 1 .. i - 1 : ws[j] = {}
    BY <1>2, <1>4
  <1>6. First(ws) \in S
    BY <1>3, <1>5, FirstIn
  <1> QED
    BY <1>1, <1>6

LEMMA FirstOfFour ==
    ASSUME NEW a, NEW b, NEW c, NEW d, NEW S,
           a \subseteq S, b \subseteq S, c \subseteq S, d \subseteq S, d # {}
    PROVE  First(<<a, b, c, d>>) \in S
  <1>1. PICK ws : ws = <<a, b, c, d>>
    OBVIOUS
  <1>2. DOMAIN ws = 1 .. 4 /\ ws[1] = a /\ ws[2] = b /\ ws[3] = c /\ ws[4] = d
    BY <1>1
  <1>3. \A i \in DOMAIN ws : ws[i] \subseteq S
    BY <1>2
  <1>4. \E i \in 1 .. 4 : ws[i] # {} /\ \A j \in 1 .. 4 : j < i => ws[j] = {}
    BY <1>2
  <1>5. \E i \in DOMAIN ws : ws[i] # {} /\ \A j \in 1 .. i - 1 : ws[j] = {}
    BY <1>2, <1>4
  <1>6. First(ws) \in S
    BY <1>3, <1>5, FirstIn
  <1> QED
    BY <1>1, <1>6

LEMMA FirstOfSix ==
    ASSUME NEW a, NEW b, NEW c, NEW d, NEW e, NEW f, NEW S,
           a \subseteq S, b \subseteq S, c \subseteq S, d \subseteq S, e \subseteq S,
           f \subseteq S, f # {}
    PROVE  First(<<a, b, c, d, e, f>>) \in S
  <1>1. PICK ws : ws = <<a, b, c, d, e, f>>
    OBVIOUS
  <1>2. /\ DOMAIN ws = 1 .. 6 /\ ws[1] = a /\ ws[2] = b /\ ws[3] = c /\ ws[4] = d
        /\ ws[5] = e /\ ws[6] = f
    BY <1>1
  <1>3. \A i \in DOMAIN ws : ws[i] \subseteq S
    BY <1>2
  <1>4. \E i \in 1 .. 6 : ws[i] # {} /\ \A j \in 1 .. 6 : j < i => ws[j] = {}
    BY <1>2
  <1>5. \E i \in DOMAIN ws : ws[i] # {} /\ \A j \in 1 .. i - 1 : ws[j] = {}
    BY <1>2, <1>4
  <1>6. First(ws) \in S
    BY <1>3, <1>5, FirstIn
  <1> QED
    BY <1>1, <1>6

\* An exact row was made by the leader it names.
LEMMA ExactFit ==
    ASSUME Typed, Held
    PROVE  /\ Fit(IF ExactRow THEN Witness(hist[LatestRow].l) ELSE {})
           /\ ExactRow => /\ hist[LatestRow].l \in Nat
                          /\ hist[LatestRow].l = owner[ticket.version].l
  <1>1. ASSUME ExactRow
        PROVE  hist[LatestRow].l \in Nat /\ hist[LatestRow].l = owner[ticket.version].l
    <2>1. LatestRow \in Rows /\ LatestRow = ticket.version /\ hist[LatestRow].l \in Nat
      BY <1>1, LatestIs DEF ExactRow
    <2>2. \A v \in Rows : owner[v] = [r |-> hist[v].r, l |-> hist[v].l]
      BY DEF Held
    <2>3. owner[LatestRow] = [r |-> hist[LatestRow].r, l |-> hist[LatestRow].l]
      BY <2>1, <2>2
    <2> QED
      BY <2>1, <2>3
  <1>2. ExactRow => Fit(Witness(hist[LatestRow].l))
    BY <1>1, FitIs
  <1> QED
    BY <1>1, <1>2, FitIs

\* A stop is recovered only after a pause: its history is not plain.
LEMMA StopFit ==
    ASSUME Inv, ticket.state = "stopping"
    PROVE  Fit(StopPredecessor) /\ StopPredecessor # {}
  <1>1. Typed /\ Held /\ (Plain => PlainHistory)
    BY DEF Inv
  <1>2. ~Known
    BY <1>1 DEF Known, PlainHistory
  <1>3. control.stop.l \in Nat
    <2>1. control.stop \in FenceSet
      BY <1>1 DEF Typed
    <2> QED
      BY <2>1 DEF FenceSet
  <1>4. Fit(Witness(control.stop.l)) /\ Fit(Refuse)
    BY <1>1, <1>2, <1>3, FitIs
  <1>5. ExactRow => Fit(Witness(hist[LatestRow].l))
    BY <1>1, ExactFit
  <1>6. Fit(StopPredecessor)
    BY <1>4, <1>5 DEF StopPredecessor
  <1>7. \A l : Witness(l) # {}
    BY DEF Witness, Refuse
  <1> QED
    BY <1>6, <1>7 DEF StopPredecessor, Refuse

\* The repair: its entry, or the row that followed it.
LEMMA BuildingFit ==
    ASSUME Inv, ticket.state = "building"
    PROVE  Fit(BuildingPrior) /\ BuildingPrior # {}
  <1> DEFINE n == ticket.version
             p == IF ExactRow THEN hist[LatestRow].l
                  ELSE IF ControlEndpoint # {} THEN CHOOSE l \in ControlEndpoint : TRUE
                  ELSE RepairEntry.l
  <1>1. Typed /\ Held /\ Repairing /\ repair # NoRepair
    BY DEF Inv, Repairing
  <1>2. /\ RepairEntry.v \in 1 .. n /\ n \in Nat /\ RepairEntry.l \in Nat
        /\ owner[RepairEntry.v].l = RepairEntry.l /\ control.auth.v < RepairEntry.v
    BY <1>1, RepairIs, TypedIs DEF Repairing, FenceSet
  <1>3. ControlEndpoint = {}
    <2>1. control.auth.v \in Nat
      <3>1. control.auth \in FenceSet
        BY <1>1 DEF Typed
      <3> QED
        BY <3>1 DEF FenceSet
    <2> QED
      BY <1>2, <2>1 DEF ControlEndpoint
  <1>4. ASSUME ~ExactRow PROVE n = RepairEntry.v
    <2>1. SUFFICES ASSUME n # RepairEntry.v PROVE FALSE
      OBVIOUS
    <2>2. Recovered(n)
      BY <1>1, <1>2, <2>1 DEF Repairing
    <2>3. n \in Rows
      BY <2>2 DEF Rows, Recovered
    <2>4. LatestRow = n /\ LatestRow # 0
      <3>1. LatestRow \in 1 .. n /\ \A w \in Rows : w <= LatestRow
        BY <1>1, <2>3, LatestIs
      <3> QED
        BY <1>2, <2>3, <3>1
    <2>5. owner[n] = [r |-> hist[n].r, l |-> hist[n].l] /\ owner[n].r = ticket.runner
      BY <1>1, <2>3 DEF Held
    <2> QED
      BY <1>4, <2>4, <2>5 DEF ExactRow, At, Fence
  <1>5. p \in Nat /\ p = owner[n].l
    BY <1>1, <1>2, <1>3, <1>4, ExactFit
  <1>6. Older(p) => Fit({p})
    <2> HIDE DEF p
    <2> QED
      BY <1>1, <1>5, FitIs
  <1>7. candidateRepairRecoveryPredecessor \in {{p}, Refuse}
        /\ (candidateRepairRecoveryPredecessor = {p} => Older(p) \/ {p} = Refuse)
    BY DEF candidateRepairRecoveryPredecessor
  <1>8. Fit(Refuse)
    BY <1>1, FitIs
  <1> HIDE DEF p
  <1> QED
    BY <1>6, <1>7, <1>8 DEF BuildingPrior, Refuse

\* Nothing of a control speaks for a ticket whose history is plain.
LEMMA ControlFit ==
    ASSUME Inv, ticket.state # "building"
    PROVE  /\ Plain => ControlEndpoint = {}
           /\ \A l \in ControlEndpoint : l \in Nat
           /\ Fit(postPublicationRecoveryBaseline)
  <1>1. Typed /\ (Plain => PlainHistory) /\ (Known => Plain)
    BY DEF Inv, Known
  <1>2. control.stop.l \in Nat /\ control.auth.l \in Nat
    <2>1. control.stop \in FenceSet /\ control.auth \in FenceSet
      BY <1>1 DEF Typed
    <2> QED
      BY <2>1 DEF FenceSet
  <1>3. Plain => control.st = "none" /\ ControlEndpoint = {}
    BY <1>1 DEF PlainHistory, NoControl, ControlEndpoint
  <1>4. \A l \in ControlEndpoint : l \in Nat
    BY <1>2 DEF ControlEndpoint
  <1>5. Fit({}) /\ Fit(Refuse)
    BY <1>1, FitIs
  <1>6. ASSUME ~Plain PROVE Fit(AuthorityEndpoint) /\ Fit(Witness(control.stop.l))
    <2>1. ~Known
      BY <1>1, <1>6
    <2>2. Fit(Witness(control.stop.l)) /\ (Older(control.auth.l) => Fit({control.auth.l}))
      BY <1>1, <1>2, <2>1, FitIs
    <2> QED
      BY <1>5, <2>2 DEF AuthorityEndpoint
  <1>7. Fit(postPublicationRecoveryBaseline)
    BY <1>3, <1>5, <1>6 DEF postPublicationRecoveryBaseline
  <1> QED
    BY <1>3, <1>4, <1>6, <1>7

\* The witness of a published candidate belongs to its owner.
LEMMA CurrentIs ==
    ASSUME Typed, PlainHistory, Prefix, Published
    PROVE  /\ Current.v \in 1 .. ticket.version /\ Current.v >= PassAt
           /\ Current.r = owner[Current.v].r /\ Current.l = owner[Current.v].l
  <1>1. Current.v \in PassAt .. ticket.version /\ PassAt \in {5, 6}
    BY StartIs DEF PlainHistory
  <1>2. Current = Fence(Current.v, owner[Current.v].r, owner[Current.v].l)
    BY DEF PlainHistory
  <1> QED
    BY <1>1, <1>2, TypedIs DEF Fence

\* A block, a triplet or a resume of the endpoint is not plain.
LEMMA PlainHasNo ==
    ASSUME Typed, Plain
    PROVE  \A v, st : ~BlockedPair(v, st) /\ ~Triplet(v, st)
  <1>1. \A v \in DOMAIN hist : hist[v].trig # "typed_blocker" /\ hist[v].trig # "operator_pause_or_take"
    BY DEF Plain, Stops
  <1> QED
    BY <1>1 DEF BlockedPair, Triplet, Is

LEMMA PublishedFit ==
    ASSUME Inv, Published, ticket.state # "building"
    PROVE  Fit(PublishedPrior) /\ PublishedPrior # {}
  <1>1. Typed /\ Prefix /\ (Plain => PlainHistory) /\ (Known => Plain)
    BY DEF Inv, Known
  <1>2. Current.l \in Nat
    BY <1>1, WaitingNat
  <1>3. ASSUME Plain, ticket.version = Current.v PROVE Current.l = owner[ticket.version].l
    BY <1>1, <1>3, CurrentIs
  <1>4. Plain => ~BlockedPair(Current.v + 1, "publishing")
    BY <1>1, PlainHasNo
  <1>5. Fit(Refuse) /\ ((Plain => Current.l = owner[ticket.version].l) => Fit(Witness(Current.l)))
    BY <1>1, <1>2, FitIs
  <1> QED
    BY <1>3, <1>4, <1>5 DEF PublishedPrior, Witness, Refuse

\* The candidate alone: its pass, and nothing after it but rows.
LEMMA CandidateFit ==
    ASSUME Inv, ~Published, ticket.state = "publishing"
    PROVE  Fit(CandidateEndpoint)
  <1> DEFINE n == ticket.version
             e == Fence(n, ticket.runner, cand.bind.l)
             f == BuildFence(Newest(BuildPasses(e)), e)
  <1>1. /\ Typed /\ Prefix /\ Held /\ (Plain => PlainHistory) /\ (Known => Plain)
        /\ n \in Nat /\ PassAt \in {5, 6} /\ PassAt <= n /\ leader \in Nat
    BY TypedIs, StartIs DEF Inv, Known
  <1>2. BuildPasses(e) = {PassAt}
    <2>1. cand.check.v + 1 = 5 /\ e.v = n
      BY <1>1 DEF Prefix, Fence
    <2>2. PassAt = 6 => hist[5].trig = "recovered"
      BY <1>1 DEF Prefix, Restarted, Event
    <2>3. \A v \in 5 .. n : hist[v].trig = "phase_pass" => v = PassAt
      <3>1. \A v \in DOMAIN hist : v > PassAt => hist[v].trig # "phase_pass"
        BY <1>1 DEF Prefix
      <3>2. \A v \in 5 .. n : v > PassAt \/ v = PassAt \/ (v = 5 /\ PassAt = 6)
        BY <1>1
      <3> QED
        BY <1>1, <2>2, <3>1, <3>2, TypedIs
    <2>4. Is(PassAt, "phase_pass", "building", "publishing") /\ PassAt \in 5 .. n
      BY <1>1, TypedIs DEF Is, Prefix, Pass, Event
    <2> QED
      BY <2>1, <2>3, <2>4 DEF BuildPasses, Is
  <1>3. f = Fence(PassAt, PassAt - 4, PassAt - 4)
    <2>1. Newest({PassAt}) = PassAt
      BY <1>1 DEF Newest
    <2>2. cand.check = Fence(4, 1, 1) /\ cand.bind = Fence(PassAt - 1, PassAt - 4, PassAt - 4)
      BY <1>1 DEF Prefix
    <2>3. CASE PassAt = 5
      BY <1>2, <2>1, <2>2, <2>3 DEF BuildFence, Fence
    <2>4. CASE PassAt = 6
      BY <1>2, <2>1, <2>2, <2>4 DEF BuildFence, Fence
    <2> QED
      BY <1>1, <2>3, <2>4
  <1>4. owner[PassAt].l = PassAt - 4 /\ PassAt - 4 \in Nat
    BY <1>1 DEF Prefix
  <1>5. \A l : ~(Plain /\ validPublishingResumeGap(f, Preceding(l)))
              /\ ~(Plain /\ validPublishingResumeGap(At(LatestRow), Preceding(l)))
    <2>1. ASSUME NEW s, s.v \in Nat, NEW l, Plain, validPublishingResumeGap(s, Preceding(l))
          PROVE  FALSE
      <3>0. Preceding(l).v = n
        BY DEF Preceding, Fence
      <3>1. PICK z : z = Preceding(l) /\ z.v = n
        BY <3>0
      <3>2. /\ z.v > s.v /\ (z.v - s.v) % 2 = 0
            /\ \A k \in 0 .. (z.v - s.v) \div 2 - 1 : BlockedPair(s.v + 2 * k + 1, "publishing")
        BY <2>1, <3>1 DEF validPublishingResumeGap
      <3>3. 0 \in 0 .. (z.v - s.v) \div 2 - 1
        BY <1>1, <2>1, <3>1, <3>2
      <3>4. BlockedPair(s.v + 2 * 0 + 1, "publishing")
        BY <3>2, <3>3
      <3> QED
        BY <1>1, <2>1, <3>4, PlainHasNo
    <2>2. f.v \in Nat /\ At(LatestRow).v \in Nat
      <3>1. LatestRow \in Nat
        BY <1>1, LatestIs
      <3> QED
        BY <1>1, <1>3, <3>1 DEF Fence, At
    <2> HIDE DEF f
    <2> QED
      BY <2>1, <2>2
  <1>6. ASSUME NEW l \in CandidateEndpoint, l # 0
        PROVE  l \in 0 .. leader - 1 /\ (Known => l = owner[n].l)
    <2>1. PICK k : k = f /\ k.v = PassAt /\ k.r = PassAt - 4 /\ k.l = PassAt - 4
      BY <1>3 DEF Fence
    <2>2. /\ Older(l)
          /\ \/ l \in ControlEndpoint
             \/ ControlEndpoint = {} /\ LatestRow >= k.v /\ l = hist[LatestRow].l
                /\ validPublishingResumeGap(At(LatestRow), Preceding(l))
             \/ ControlEndpoint = {} /\ l = k.l
                /\ (Fence(n, ticket.runner, l) = k \/ validPublishingResumeGap(k, Preceding(l)))
      <3>1. l \notin Refuse
        BY <1>6 DEF Refuse
      <3> QED
        BY <1>6, <2>1, <3>1 DEF CandidateEndpoint
    <2>3. l \in Nat
      <3>1. LatestRow >= k.v => hist[LatestRow].l \in Nat
        BY <1>1, <2>1, LatestIs
      <3> QED
        BY <1>4, <2>1, <2>2, <3>1, ControlFit
    <2>4. Plain => l = k.l /\ Fence(n, ticket.runner, l) = k
      BY <1>5, <2>1, <2>2, ControlFit
    <2>5. Plain => n = PassAt
      BY <2>1, <2>4 DEF Fence
    <2> QED
      BY <1>1, <1>4, <2>1, <2>2, <2>3, <2>4, <2>5 DEF Older
  <1> HIDE DEF f, e
  <1> QED
    BY <1>6, <1>1, FitIs DEF Fit, Refuse

\* A ticket that waits for CI: its chain, a row, or the waiting event.
LEMMA WaitingFit ==
    ASSUME Inv, ticket.state = "waiting_ci"
    PROVE  /\ Fit(ciWaitingPrior) /\ Fit(publicationRecoveryBaseline)
           /\ Fit(IF LatestRow = 0 THEN {}
                  ELSE {l \in ControlEndpoint : Older(l)
                           /\ validateRunnerControlAdvance(At(LatestRow), Preceding(l))})
  <1> DEFINE n == ticket.version
             p == IF LatestRow # 0 THEN hist[LatestRow].l ELSE Current.l
             C == {l \in ControlEndpoint : Older(l)
                      /\ validateRunnerControlAdvance(At(LatestRow), Preceding(l))}
  <1>1. /\ Typed /\ Prefix /\ Held /\ (Plain => PlainHistory) /\ (Known => Plain) /\ Announcing
        /\ n \in Nat /\ leader \in Nat
    BY TypedIs DEF Inv, Known
  <1>2. Announced
    BY <1>1 DEF Announcing, Where, Halted
  <1>3. /\ Published /\ Waiting.v \in 1 .. n /\ Waiting.v \notin Rows
        /\ Waiting.v = Current.v + 1 /\ Current.l \in Nat /\ Current.v \in Nat
    BY <1>1, <1>2, AnnouncedIs, WaitingNat
  <1>4. p \in Nat
    <2>1. LatestRow # 0 => hist[LatestRow].l \in Nat
      BY <1>1, LatestIs
    <2> QED
      BY <1>3, <2>1
  <1>5. ASSUME Plain, loadCICurrentPublicationAt(p) PROVE p = owner[n].l
    <2>1. PICK q \in Nat : q = p
      BY <1>4
    <2> HIDE DEF p
    <2>2. prEndpointCIBaseline = Waiting
      BY <1>1, <1>5, BaselineIs DEF Plain
    <2>3. validateCIRecoveryLedger(Waiting, Fence(n, ticket.runner, q))
      BY <1>5, <2>1, <2>2 DEF loadCICurrentPublicationAt
    <2>a. Fence(n, ticket.runner, q).v = n /\ Fence(n, ticket.runner, q).l = q
      BY DEF Fence
    <2>4. PICK e : e = Fence(n, ticket.runner, q) /\ e.v = n /\ e.l = q
      BY <2>a
    <2>5. e = Fence(e.v, OwnerBefore(Waiting, e.v + 1).r, OwnerBefore(Waiting, e.v + 1).l)
      BY <2>3, <2>4 DEF validateCIRecoveryLedger
    <2>6. PICK z : z = n + 1
      OBVIOUS
    <2>7. q = OwnerBefore(Waiting, z).l
      BY <2>4, <2>5, <2>6 DEF Fence
    <2>8. z \in Waiting.v + 1 .. n + 1 /\ z - 1 = n
      BY <1>1, <1>3, <2>6
    <2>9. OwnerBefore(Waiting, z).l = owner[z - 1].l
      BY <1>1, <1>3, <1>5, <2>8, OwnerBeforeIs
    <2> QED
      BY <2>1, <2>7, <2>8, <2>9
  <1>6. Fit({}) /\ Fit(Refuse)
    BY <1>1, FitIs
  <1>7. Fit(ciWaitingPrior)
    <2>1. Older(p) /\ loadCICurrentPublicationAt(p) => Fit({p})
      <3> HIDE DEF p
      <3> QED
        BY <1>1, <1>4, <1>5, FitIs
    <2> QED
      BY <1>6, <2>1 DEF ciWaitingPrior
  <1>8. Fit(C)
    <2>1. \A l \in C : l \in Nat /\ Older(l)
      BY <1>1, ControlFit
    <2>2. Plain => C = {}
      BY <1>1, ControlFit
    <2> HIDE DEF C
    <2> QED
      BY <1>1, <2>1, <2>2 DEF Fit, Older
  <1>9. Fit(publicationRecoveryBaseline)
    <2>1. CASE Plain
      <3>1. Current.v \in 1 .. n /\ Current.l = owner[Current.v].l
        BY <1>1, <1>3, <2>1, CurrentIs
      <3>2. PICK k \in Nat : k = n - Current.v /\ k >= 1
        BY <1>1, <1>3
      <3>3. ~authenticatePREndpointResume(n)
        <4>1. endpoint.f = NoFence /\ n # 0
          BY <1>1, <1>3, <2>1 DEF Plain
        <4> QED
          BY <4>1 DEF authenticatePREndpointResume, NoFence, Fence
      <3>4. /\ ~Triplet(Current.v + 1, "waiting_ci")
            /\ ~BlockedPair(Current.v + 2, "waiting_ci")
        BY <1>1, <2>1, PlainHasNo
      <3>5. ASSUME k = 1 PROVE owner[n] = owner[Current.v]
        <4>1. PICK a, b : a = Current.v /\ b = n
          OBVIOUS
        <4>2. a \in 1 .. n /\ b \in a .. n /\ b = a + 1 /\ b = Waiting.v
          BY <1>1, <1>3, <3>1, <3>2, <3>5, <4>1
        <4>3. \A w \in Rows : ~(a < w /\ w <= b)
          BY <1>1, <1>3, <4>2, TypedIs
        <4>4. Owned(a) /\ Owned(b)
          BY <1>1, <2>1, <4>1, <4>2, TypedIs DEF PlainHistory
        <4> QED
          BY <1>1, <4>1, <4>2, <4>3, <4>4, OwnerSame
      <3>6. k = 1 => Fit(Witness(Current.l))
        BY <1>1, <1>3, <3>1, <3>5, FitIs
      <3>7. publicationRecoveryBaseline \in {Refuse, {}}
            \/ (k = 1 /\ publicationRecoveryBaseline = Witness(Current.l))
        <4>1. n - Current.v = k /\ k # 0
          BY <3>2
        <4> QED
          BY <3>3, <3>4, <4>1 DEF publicationRecoveryBaseline
      <3> QED
        BY <1>6, <3>6, <3>7
    <2>2. CASE ~Plain
      <3>1. endpoint.f.l \in Nat
        <4>1. endpoint.f \in FenceSet
          BY <1>1 DEF Typed
        <4> QED
          BY <4>1 DEF FenceSet
      <3>2. Fit(Witness(Current.l)) /\ Fit(Witness(endpoint.f.l))
        BY <1>1, <1>3, <2>2, <3>1, FitIs
      <3> QED
        BY <1>6, <3>2 DEF publicationRecoveryBaseline
    <2> QED
      BY <2>1, <2>2
  <1> QED
    BY <1>6, <1>7, <1>8, <1>9

\* The startup fence names a leader that was there before, and where the history
\* tells it, the one that held the ticket.
LEMMA PriorFit ==
    ASSUME Inv, Fenced
    PROVE  /\ PriorLeader \in 0 .. leader - 1
           /\ Known /\ PriorLeader # 0 => PriorLeader = owner[ticket.version].l
  <1> DEFINE S == {l \in 0 .. leader - 1 : Known => l \in {0, owner[ticket.version].l}}
  <1>1. Typed /\ Held
    BY DEF Inv
  <1>2. \A W : Fit(W) => W \subseteq S
    BY DEF Fit
  <1>3. Refuse # {} /\ Fit(Refuse)
    BY <1>1, FitIs DEF Refuse
  <1>4. Fit(IF ExactRow THEN Witness(hist[LatestRow].l) ELSE {})
    BY <1>1, ExactFit
  <1> HIDE DEF S
  <1>5. CASE ticket.state = "stopping"
    <2>1. StopPredecessor \subseteq S /\ StopPredecessor # {}
      BY <1>2, <1>5, StopFit
    <2>2. First(<<StopPredecessor>>) \in S
      BY <2>1, FirstOfOne
    <2> QED
      BY <1>5, <2>2 DEF PriorLeader, S
  <1>6. CASE ticket.state = "building"
    <2>1. BuildingPrior \subseteq S /\ BuildingPrior # {}
      BY <1>2, <1>6, BuildingFit
    <2>2. First(<<BuildingPrior>>) \in S
      BY <2>1, FirstOfOne
    <2> QED
      BY <1>6, <2>2 DEF PriorLeader, S
  <1>7. CASE ticket.state = "publishing" /\ Published
    <2>1. PublishedPrior \subseteq S /\ PublishedPrior # {}
      BY <1>2, <1>7, PublishedFit
    <2>2. First(<<PublishedPrior>>) \in S
      BY <2>1, FirstOfOne
    <2> QED
      BY <1>7, <2>2 DEF PriorLeader, PublishingPrior, S
  <1>8. CASE ticket.state = "publishing" /\ ~Published
    <2>1. Fit(postPublicationRecoveryBaseline) /\ Fit(CandidateEndpoint)
      BY <1>8, ControlFit, CandidateFit
    <2>2. PICK X : X = IF ExactRow THEN Witness(hist[LatestRow].l) ELSE {}
      OBVIOUS
    <2>3. /\ X \subseteq S /\ postPublicationRecoveryBaseline \subseteq S
          /\ CandidateEndpoint \subseteq S /\ Refuse \subseteq S /\ Refuse # {}
      BY <1>2, <1>3, <1>4, <2>1, <2>2
    <2>4. First(<<X, postPublicationRecoveryBaseline, CandidateEndpoint, Refuse>>) \in S
      BY <2>3, FirstOfFour
    <2>5. PriorLeader = First(<<X, postPublicationRecoveryBaseline, CandidateEndpoint, Refuse>>)
      BY <1>8, <2>2 DEF PriorLeader, PublishingPrior
    <2> QED
      BY <2>4, <2>5 DEF S
  <1>9. CASE ticket.state = "waiting_ci"
    <2>1. PICK C : /\ C = IF LatestRow = 0 THEN {}
                          ELSE {l \in ControlEndpoint : Older(l)
                                   /\ validateRunnerControlAdvance(At(LatestRow), Preceding(l))}
                   /\ Fit(C)
      BY <1>9, WaitingFit
    <2>2. PICK X : X = IF ExactRow THEN Witness(hist[LatestRow].l) ELSE {}
      OBVIOUS
    <2>3. /\ Fit(ciWaitingPrior) /\ Fit(X) /\ Fit(C) /\ Fit(postPublicationRecoveryBaseline)
          /\ Fit(publicationRecoveryBaseline)
      BY <1>4, <1>9, <2>1, <2>2, ControlFit, WaitingFit
    <2>a. /\ ciWaitingPrior \subseteq S /\ X \subseteq S /\ C \subseteq S
          /\ postPublicationRecoveryBaseline \subseteq S
          /\ publicationRecoveryBaseline \subseteq S /\ Refuse \subseteq S /\ Refuse # {}
      BY <1>2, <1>3, <2>3
    <2>4. First(<<ciWaitingPrior, X, C, postPublicationRecoveryBaseline,
                  publicationRecoveryBaseline, Refuse>>) \in S
      BY <2>a, FirstOfSix
    <2>5. PriorLeader = First(<<ciWaitingPrior, X, C, postPublicationRecoveryBaseline,
                                publicationRecoveryBaseline, Refuse>>)
      BY <1>9, <2>1, <2>2 DEF PriorLeader, WaitingPrior
    <2> QED
      BY <2>4, <2>5 DEF S
  <1> QED
    BY <1>5, <1>6, <1>7, <1>8, <1>9 DEF Fenced, Published0

\* One recovery row, made by a new leader for the runner that was there.
LEMMA FenceRecoveredKeeps ==
    ASSUME Inv, FenceRecoveredRunners
    PROVE  Inv'
  <1>1. /\ Typed /\ Prefix /\ Held /\ Unresumed /\ Announcing /\ Repairing /\ VerdictIsOwn
        /\ (Plain => PlainHistory)
        /\ UNCHANGED <<leader, notes, control, cand, wit, endpoint, obs, policy, used, repair>>
    BY Parts DEF FenceRecoveredRunners, publication, ci
  <1>2. PICK n \in Nat : n = ticket.version /\ n >= 5
    BY <1>1, StartIs
  <1>3. CASE ~Fenced \/ PriorLeader = 0
    <2>1. UNCHANGED <<ticket, hist, owner>> /\ (Fenced => pc' = "refused")
      BY <1>3 DEF FenceRecoveredRunners
    <2>2. ~Fenced => ticket.state \notin Fenceable
      BY DEF Fenced, Fenceable
    <2>3. /\ leader' \in Nat /\ leader' >= leader
          /\ control' \in [st : {"none", "sealed", "open"}, stop : FenceSet, auth : FenceSet]
          /\ control'.auth.v <= ticket.version
          /\ obs' \in [f : FenceSet, class : {"none", "pending", "green", "red"}]
          /\ (obs' # NoObs => policy' # NoPolicy)
      BY <1>1, TypedIs DEF Typed
    <2>4. UNCHANGED <<ticket, hist, owner, notes, cand, wit, endpoint, used, repair>>
      BY <1>1, <2>1
    <2>5. pc' \in {"fenced", "serving"} /\ ticket.state \in Fenceable =>
              owner[ticket.version].l = leader'
      BY <2>1, <2>2
    <2> QED
      BY <1>1, <2>3, <2>4, <2>5, Kept
  <1>4. CASE Fenced /\ PriorLeader # 0
    <2>1. PICK p : /\ p = PriorLeader
                   /\ Step([Event("recovered", ticket.state, ticket.state) EXCEPT
                                !.r = ticket.runner + 1, !.pl = p, !.l = leader],
                           ticket.state, ticket.resume, ticket.runner + 1, ticket.code)
      BY <1>4 DEF FenceRecoveredRunners
    <2>2. /\ p \in Nat /\ p < leader /\ leader \in Nat /\ ticket.runner \in Nat
          /\ (Known => p = owner[n].l)
      BY <1>1, <1>2, <1>4, <2>1, PriorFit, TypedIs
    <2>3. ticket \in TicketSet /\ ticket.state \in {"publishing", "waiting_ci", "stopping", "building"}
      BY <1>1, <1>4 DEF Typed, Fenced, Published0
    <2>4. PICK e \in EventSet :
             /\ e = [Event("recovered", ticket.state, ticket.state) EXCEPT
                        !.r = ticket.runner + 1, !.pl = p, !.l = leader]
             /\ e.trig = "recovered" /\ e.r = ticket.runner + 1 /\ e.pl = p /\ e.l = leader
      <3>0. PICK r \in Nat : r = ticket.runner + 1
        BY <2>2
      <3>1. PICK s : s = ticket.state /\ r = ticket.runner + 1
        BY <3>0
      <3>2. s \in Names /\ "recovered" \in Names
        BY <2>3, <3>1 DEF Names
      <3>3. PICK x \in EventSet : x = Event("recovered", s, s) /\ x.trig = "recovered"
        BY <3>2, EventIs
      <3>4. PICK y : y = [x EXCEPT !.r = r, !.pl = p, !.l = leader]
        OBVIOUS
      <3>5. y \in EventSet /\ y.trig = "recovered" /\ y.r = r /\ y.pl = p /\ y.l = leader
        BY <2>2, <3>1, <3>3, <3>4 DEF EventSet
      <3>6. y = [Event("recovered", ticket.state, ticket.state) EXCEPT
                   !.r = ticket.runner + 1, !.pl = p, !.l = leader]
        BY <3>1, <3>3, <3>4
      <3> QED
        BY <3>1, <3>5, <3>6
    <2>5. [state |-> ticket.state, resume |-> ticket.resume, version |-> ticket.version + 1,
           runner |-> ticket.runner + 1, code |-> ticket.code] \in TicketSet
      BY <2>3, <2>2, <1>2 DEF TicketSet
    <2>6. /\ Grows /\ ticket'.version = n + 1 /\ hist'[n + 1] = e
          /\ ticket'.state = ticket.state /\ ticket'.resume = ticket.resume
          /\ ticket'.runner = ticket.runner + 1 /\ ticket'.code = ticket.code
      BY <1>1, <1>2, <2>1, <2>4, <2>5, StepIs
    <2>7. New = {n + 1}
      BY <1>1, <1>2, <2>6, OneVersion
    <2>8. \A v \in New : hist'[v].trig = "recovered"
      BY <2>4, <2>6, <2>7
    <2>9. Typed'
      <3>1. /\ notes' \subseteq 1 .. ticket'.version
            /\ control'.auth.v <= ticket'.version
        <4>1. control.auth \in FenceSet /\ notes \subseteq 1 .. n /\ control.auth.v <= n
          BY <1>1, <1>2 DEF Typed
        <4>2. control.auth.v \in Nat
          BY <4>1 DEF FenceSet
        <4> QED
          BY <1>1, <1>2, <2>6, <4>1, <4>2
      <3>2. /\ ticket'.state \in Halted => ticket'.resume \in Published0
            /\ ticket'.code = "pr_opened" => ticket'.resume = "waiting_ci"
            /\ control' \in [st : {"none", "sealed", "open"}, stop : FenceSet, auth : FenceSet]
            /\ wit' \in [f : FenceSet, rebinds : Seq(RebindSet)]
            /\ endpoint' \in [pr : BOOLEAN, f : FenceSet]
            /\ used' \in Nat
            /\ repair' \in [f : FenceSet, rows : SUBSET FenceSet]
        BY <1>1, <2>6 DEF Typed
      <3> QED
        BY <1>1, <2>6, <3>1, <3>2, TypedGrow
    <2>10. Prefix' /\ PassAt' = PassAt
      BY <1>1, <2>6, <2>8, PrefixGrow
    <2>11. Held'
      <3>1. ticket'.runner >= ticket.runner
        BY <2>2, <2>6
      <3>2. \A v \in New : hist'[v].r = ticket'.runner /\ hist'[v].l = leader
        BY <2>4, <2>6, <2>7
      <3> QED
        BY <1>1, <2>6, <3>1, <3>2, HeldGrow
    <2>12. Unresumed'
      <3>1. ~Exhausted(ticket.version)
        <4>1. ticket.version \in DOMAIN hist
          BY <1>1, <1>2, TypedIs
        <4> QED
          BY <1>1, <2>3, <4>1 DEF Unresumed
      <3> QED
        BY <1>1, <2>6, <2>8, <3>1, UnresumedGrow
    <2>13. Announcing' /\ (Announced' <=> Announced)
      <3>1. Where' = Where
        BY <2>6 DEF Where
      <3> QED
        BY <1>1, <2>6, <2>8, <3>1, AnnouncingGrow
    <2>14. VerdictIsOwn'
      BY <1>1, <2>6, <2>8, VerdictGrow DEF Verdicts
    <2>15. /\ n \in 1 .. n /\ owner[n].r = ticket.runner /\ owner[n] \in OwnerSet
           /\ owner'[n] = owner[n] /\ Recovered(n + 1)' /\ hist'[n + 1].pl < hist'[n + 1].l
           /\ Prior(n + 1)' = Fence(n, ticket.runner, p)
      <3>1. n \in 1 .. ticket.version /\ owner[n].r = ticket.runner /\ owner[n] \in OwnerSet
        BY <1>1, <1>2, TypedIs DEF Held
      <3>2. owner'[n] = owner[n] /\ n + 1 \in DOMAIN hist'
        BY <1>1, <1>2, <2>6, <3>1, RowsGrow
      <3>3. n + 1 - 1 = n /\ ticket.runner + 1 - 1 = ticket.runner
        BY <1>2, <2>2
      <3>4. Prior(n + 1)' = Fence(n + 1 - 1, hist'[n + 1].r - 1, hist'[n + 1].pl)
        BY DEF Prior, Fence
      <3> QED
        BY <1>2, <2>2, <2>4, <2>6, <3>1, <3>2, <3>3, <3>4 DEF Recovered
    <2>16. Repairing'
      <3>1. CASE repair = NoRepair
        BY <1>1, <2>6, <3>1 DEF Repairing, NoRepair, NoFence
      <3>2. CASE repair # NoRepair
        <4>1. PICK c \in FenceSet, b \in {RepairEntry} :
                /\ c = repair.f /\ b = RepairEntry /\ b.v = c.v + 1
                /\ b.v \in 1 .. n /\ c.v \in Nat
          BY <1>1, <1>2, <3>2, RepairIs DEF Typed
        <4>2. repair'.f = c /\ RepairEntry' = b /\ Waiting' = Waiting /\ Current' = Current
          BY <1>1, <4>1 DEF RepairEntry, Waiting, Current, Shift
        <4>3. candidateRepairRecoveryPrefixDigest(c.v)' = candidateRepairRecoveryPrefixDigest(c.v)
          <5>1. {x \in Rows' : x <= c.v} = {x \in Rows : x <= c.v}
            BY <1>1, <1>2, <2>6, <2>7, <4>1, RowsGrow
          <5>2. \A x \in {x \in Rows : x <= c.v} : At(x)' = At(x)
            BY <1>1, <2>6, RowsGrow
          <5> QED
            BY <5>1, <5>2 DEF candidateRepairRecoveryPrefixDigest
        <4>4. /\ hist'[b.v] = hist[b.v] /\ owner'[b.v] = owner[b.v] /\ b.v \in DOMAIN hist'
              /\ b.v \in DOMAIN hist
          BY <1>1, <1>2, <2>6, <4>1, RowsGrow
        <4>5. \A v \in b.v + 1 .. n + 1 :
                /\ Recovered(v)' /\ hist'[v].pl < hist'[v].l
                /\ Prior(v)' = Fence(v - 1, owner'[v - 1].r, owner'[v - 1].l)
          <5> SUFFICES ASSUME NEW v \in b.v + 1 .. n + 1
                       PROVE  /\ Recovered(v)' /\ hist'[v].pl < hist'[v].l
                              /\ Prior(v)' = Fence(v - 1, owner'[v - 1].r, owner'[v - 1].l)
            OBVIOUS
          <5>1. CASE v \in b.v + 1 .. n
            <6>1. /\ Recovered(v) /\ hist[v].pl < hist[v].l
                  /\ Prior(v) = Fence(v - 1, owner[v - 1].r, owner[v - 1].l)
              BY <1>1, <1>2, <3>2, <4>1, <5>1 DEF Repairing
            <6>2. v \in 1 .. n /\ v - 1 \in 1 .. n
              BY <1>2, <4>1, <5>1
            <6>3. /\ hist'[v] = hist[v] /\ owner'[v - 1] = owner[v - 1] /\ Prior(v)' = Prior(v)
                  /\ v \in DOMAIN hist'
              BY <1>1, <1>2, <2>6, <6>2, RowsGrow
            <6> QED
              BY <6>1, <6>3 DEF Recovered
          <5>2. CASE v = n + 1
            <6>1. p = owner[n].l
              BY <1>1, <2>2, <3>2 DEF Known, Repairing
            <6>2. v - 1 = n
              BY <1>2, <5>2
            <6> QED
              BY <2>15, <5>2, <6>1, <6>2
          <5> QED
            BY <1>2, <4>1, <5>1, <5>2
        <4>6. ASSUME endpoint.f = NoFence PROVE RepairHistory(c)'
          <5>1. Extends
            BY <1>1, <1>2, <2>6, RowsGrow DEF Extends
          <5>2. repair.f.v < ticket.version /\ RepairHistory(repair.f)
            BY <1>1, <3>2, <4>6, RepairIs DEF Repairing
          <5> QED
            BY <1>1, <4>1, <4>2, <5>1, <5>2, RepairKept
        <4>7. /\ ticket.state = "building" /\ c.v >= Waiting.v
              /\ Is(b.v, "checks_red", "waiting_ci", "building")
              /\ repair.rows = candidateRepairRecoveryPrefixDigest(c.v)
              /\ obs.class = "red" /\ obs.f = c /\ policy # NoPolicy /\ used > 0
              /\ control.auth.v < b.v /\ owner[b.v] = [r |-> b.r, l |-> b.l]
          BY <1>1, <3>2, <4>1 DEF Repairing
        <4>8. Is(b.v, "checks_red", "waiting_ci", "building")'
          BY <4>4, <4>7 DEF Is
        <4>9. repair' # NoRepair'
          BY <1>1, <3>2 DEF NoRepair, NoFence, Fence
        <4>10. ticket'.state = "building" /\ NoFence' = NoFence /\ NoPolicy' = NoPolicy
          BY <2>6, <4>7 DEF NoFence, NoPolicy, Fence
        <4> QED
          BY <1>1, <2>6, <4>2, <4>3, <4>4, <4>5, <4>6, <4>7, <4>8, <4>9, <4>10 DEF Repairing
      <3> QED
        BY <3>1, <3>2
    <2>17. Plain' => PlainHistory'
      <3> SUFFICES ASSUME Plain' PROVE PlainHistory'
        OBVIOUS
      <3>1. Plain /\ PlainHistory
        <4>1. Plain
          BY <1>1, <2>6, RowsGrow DEF Plain, NoFence, Fence
        <4> QED
          BY <1>1, <4>1
      <3>2. Current' = Current /\ Waiting' = Waiting /\ (Published' <=> Published)
        BY <1>1 DEF Current, Waiting, Shift, Published, NoFence, Fence
      <3>3. n + 1 \in Rows' /\ Rows' = Rows \union {n + 1} /\ Rows \subseteq 1 .. n
        BY <1>1, <1>2, <2>6, <2>7, <2>8, RowsGrow
      <3>4. ASSUME NEW v \in 1 .. n + 1 PROVE Owned(v)'
        <4>1. CASE v \in 1 .. n
          <5>1. Owned(v) /\ \A w \in 1 .. n : owner'[w] = owner[w]
            BY <1>1, <1>2, <2>6, <3>1, <4>1, RowsGrow DEF PlainHistory
          <5>2. \A w \in Rows' : w <= v => w \in Rows
            BY <1>2, <3>3, <4>1
          <5>3. \A w \in Rows : w \in Rows' /\ w \in 1 .. n
            BY <3>3
          <5>4. n + 1 > v /\ v \in Nat
            BY <1>2, <4>1
          <5> QED
            BY <3>3, <4>1, <5>1, <5>2, <5>3, <5>4 DEF Owned
        <4>2. CASE v = n + 1
          <5>1. \A w \in Rows' : w \in Nat
            BY <1>2, <3>3
          <5>2. v \in Rows' /\ v \in Nat
            BY <1>2, <3>3, <4>2
          <5>3. \A w \in Rows' : w <= v /\ ~(w < v /\ v <= v) => w = v
            BY <5>1, <5>2
          <5>4. ~(v > v)
            BY <5>2
          <5> QED
            BY <5>2, <5>3, <5>4 DEF Owned
        <4> QED
          BY <1>2, <4>1, <4>2
      <3>5. ASSUME NEW v \in Rows'
            PROVE  hist'[v].pl < hist'[v].l /\ Prior(v)' = Fence(v - 1, owner'[v - 1].r, owner'[v - 1].l)
        <4>1. CASE v \in Rows
          <5>1. v \in 1 .. n /\ v - 1 \in 1 .. n
            BY <1>1, <1>2, <3>3, <4>1, StartIs
          <5>2. /\ hist'[v] = hist[v] /\ owner'[v - 1] = owner[v - 1] /\ Prior(v)' = Prior(v)
            BY <1>1, <1>2, <2>6, <5>1, RowsGrow
          <5>3. hist[v].pl < hist[v].l /\ Prior(v) = Fence(v - 1, owner[v - 1].r, owner[v - 1].l)
            BY <3>1, <4>1 DEF PlainHistory
          <5> QED
            BY <5>2, <5>3
        <4>2. CASE v = n + 1
          <5>1. p = owner[n].l
            BY <2>2, <3>1 DEF Known
          <5>2. v - 1 = n
            BY <1>2, <4>2
          <5> QED
            BY <2>15, <4>2, <5>1, <5>2
        <4> QED
          BY <3>3, <4>1, <4>2
      <3>6. ASSUME NEW v \in PassAt + 1 .. (IF Announced THEN Waiting.v - 1 ELSE n + 1)
            PROVE  Recovered(v)'
        <4>1. PassAt \in {5, 6} /\ (Announced => Waiting.v \in 1 .. n)
          BY <1>1, <1>2, StartIs, AnnouncedIs
        <4>2. v = n + 1 \/ v \in PassAt + 1 .. (IF Announced THEN Waiting.v - 1 ELSE n)
          BY <1>2, <4>1
        <4>3. v = n + 1 \/ Recovered(v)
          BY <1>2, <3>1, <4>2 DEF PlainHistory
        <4>4. v = n + 1 \/ v \in Rows
          BY <4>3 DEF Rows, Recovered
        <4>5. v \in Rows'
          BY <3>3, <4>4
        <4> QED
          BY <4>5 DEF Rows
      <3>7. Published => /\ Current.v \in PassAt .. n + 1
                         /\ Current = Fence(Current.v, owner'[Current.v].r, owner'[Current.v].l)
        <4>1. SUFFICES ASSUME Published PROVE /\ Current.v \in PassAt .. n + 1
                         /\ Current = Fence(Current.v, owner'[Current.v].r, owner'[Current.v].l)
          OBVIOUS
        <4>2. PICK k : k = Current.v
          OBVIOUS
        <4>3. k \in PassAt .. n /\ Current = Fence(k, owner[k].r, owner[k].l) /\ PassAt \in {5, 6}
          BY <1>1, <1>2, <3>1, <4>1, <4>2, StartIs DEF PlainHistory
        <4>4. k \in 1 .. n /\ k \in PassAt .. n + 1
          BY <1>2, <4>3
        <4>5. owner'[k] = owner[k]
          BY <1>1, <1>2, <2>6, <4>4, RowsGrow
        <4> QED
          BY <4>2, <4>3, <4>4, <4>5
      <3>8. /\ control = NoControl /\ ticket.state \notin {"stopping", "blocked"}
            /\ ticket.state = "paused" => ticket.resume = "waiting_ci"
        BY <3>1 DEF PlainHistory
      <3>9. control' = NoControl' /\ DOMAIN hist' = 1 .. n + 1
        BY <1>1, <1>2, <2>6, <3>8, RowsGrow DEF NoControl, NoFence, Fence
      <3> QED
        BY <2>6, <2>10, <2>13, <3>2, <3>4, <3>5, <3>6, <3>7, <3>8, <3>9 DEF PlainHistory
    <2> QED
      BY <2>9, <2>10, <2>11, <2>12, <2>13, <2>14, <2>16, <2>17 DEF Inv
  <1> QED
    BY <1>3, <1>4

-----------------------------------------------------------------------------
(* The beginning, and every step *)

LEMMA Joined ==
    ASSUME NEW S, NEW H \in Seq(S), NEW K \in Seq(S)
    PROVE  /\ H \o K \in Seq(S) /\ Len(H \o K) = Len(H) + Len(K)
           /\ \A v \in 1 .. Len(H) : (H \o K)[v] = H[v]
           /\ \A v \in Len(H) + 1 .. Len(H) + Len(K) : (H \o K)[v] = K[v - Len(H)]
  OBVIOUS

LEMMA BeginIs ==
    ASSUME Init
    PROVE  /\ leader \in {1, 2} /\ ticket.version = 4 + leader
           /\ hist \in Seq(EventSet) /\ Len(hist) = 4 + leader
           /\ owner \in Seq(OwnerSet) /\ Len(owner) = 4 + leader
           /\ \A v \in 1 .. 4 : hist[v] = Passed[v] /\ owner[v] = [r |-> 1, l |-> 1]
           /\ leader = 2 => hist[5] = Restarted
           /\ hist[4 + leader] = Pass
           /\ \A v \in 5 .. 4 + leader : owner[v] = [r |-> leader, l |-> leader]
  <1> DEFINE One == [r |-> 1, l |-> 1]
             A == [v \in 1 .. 4 |-> One]
             B == [v \in 1 .. leader |-> [r |-> leader, l |-> leader]]
  <1>1. /\ leader \in {1, 2} /\ ticket.version = 4 + leader
        /\ hist = IF leader = 1 THEN Append(Passed, Pass) ELSE Passed \o <<Restarted, Pass>>
        /\ owner = A \o B
    BY DEF Init
  <1>2. \A t, a, b \in Names : Event(t, a, b) \in EventSet
    BY EventIs
  <1>3. Pass \in EventSet
    BY <1>2 DEF Pass, Names
  <1>4. Restarted \in EventSet
    <2>1. PICK x \in EventSet : x = Event("recovered", "building", "building")
      BY <1>2 DEF Names
    <2>2. [x EXCEPT !.r = 2, !.pl = 1, !.l = 2] \in EventSet
      BY DEF EventSet
    <2> QED
      BY <2>1, <2>2 DEF Restarted
  <1>5. Passed \in Seq(EventSet) /\ Len(Passed) = 4
    <2>1. PICK a, b, c, d \in EventSet :
             /\ a = Event("submit_valid", "none", "queued")
             /\ b = Event("operator_start", "queued", "planning")
             /\ c = Event("phase_pass", "planning", "verifying")
             /\ d = Event("phase_pass", "verifying", "building")
      BY <1>2 DEF Names
    <2>2. Passed = <<a, b, c, d>>
      BY <2>1 DEF Passed
    <2> QED
      BY <2>1, <2>2
  <1>6. /\ hist \in Seq(EventSet) /\ Len(hist) = 4 + leader
        /\ \A v \in 1 .. 4 : hist[v] = Passed[v]
        /\ leader = 2 => hist[5] = Restarted
        /\ hist[4 + leader] = Pass
    <2>1. PICK P \in Seq(EventSet) : P = Passed /\ Len(P) = 4
      BY <1>5
    <2>2. PICK x, y \in EventSet : x = Restarted /\ y = Pass
      BY <1>3, <1>4
    <2>3. CASE leader = 1
      <3>1. hist = Append(P, y)
        BY <1>1, <2>1, <2>2, <2>3
      <3>2. /\ Append(P, y) \in Seq(EventSet) /\ Len(Append(P, y)) = 5
            /\ Append(P, y)[5] = y /\ \A v \in 1 .. 4 : Append(P, y)[v] = P[v]
        <4>1. <<y>> \in Seq(EventSet) /\ Len(<<y>>) = 1 /\ <<y>>[1] = y
          BY <2>2
        <4>2. Append(P, y) = P \o <<y>>
          BY <2>1, <2>2
        <4>3. /\ P \o <<y>> \in Seq(EventSet) /\ Len(P \o <<y>>) = Len(P) + 1
              /\ \A v \in 1 .. Len(P) : (P \o <<y>>)[v] = P[v]
              /\ \A v \in Len(P) + 1 .. Len(P) + 1 : (P \o <<y>>)[v] = <<y>>[v - Len(P)]
          BY <4>1, Joined
        <4> QED
          BY <2>1, <4>1, <4>2, <4>3
      <3> QED
        BY <2>1, <2>2, <2>3, <3>1, <3>2
    <2>4. CASE leader = 2
      <3>1. hist = P \o <<x, y>>
        BY <1>1, <2>1, <2>2, <2>4
      <3>2. /\ hist \in Seq(EventSet) /\ Len(hist) = Len(P) + 2
            /\ hist[Len(P) + 1] = x /\ hist[Len(P) + 2] = y
            /\ \A v \in 1 .. Len(P) : hist[v] = P[v]
        BY <3>1, TwoMore
      <3> QED
        BY <2>1, <2>2, <2>4, <3>2
    <2> QED
      BY <1>1, <2>3, <2>4
  <1>7. /\ owner \in Seq(OwnerSet) /\ Len(owner) = 4 + leader
        /\ \A v \in 1 .. 4 : owner[v] = One
        /\ \A v \in 5 .. 4 + leader : owner[v] = [r |-> leader, l |-> leader]
    <2>1. leader \in Nat /\ [r |-> leader, l |-> leader] \in OwnerSet /\ One \in OwnerSet
      BY <1>1 DEF OwnerSet
    <2>2. /\ A \in Seq(OwnerSet) /\ Len(A) = 4 /\ B \in Seq(OwnerSet) /\ Len(B) = leader
          /\ \A v \in 1 .. 4 : A[v] = One
          /\ \A v \in 1 .. leader : B[v] = [r |-> leader, l |-> leader]
      BY <2>1
    <2> HIDE DEF A, B
    <2>a. PICK X, Y \in Seq(OwnerSet) : X = A /\ Y = B
      BY <2>2
    <2>b. PICK k \in {1, 2} : k = leader /\ Len(X) = 4 /\ Len(Y) = k /\ owner = X \o Y
      BY <1>1, <2>2, <2>a
    <2>d. /\ X \o Y \in Seq(OwnerSet) /\ Len(X \o Y) = Len(X) + Len(Y)
          /\ \A v \in 1 .. Len(X) : (X \o Y)[v] = X[v]
          /\ \A v \in Len(X) + 1 .. Len(X) + Len(Y) : (X \o Y)[v] = Y[v - Len(X)]
      BY <2>a, Joined
    <2>c. /\ X \o Y \in Seq(OwnerSet) /\ Len(X \o Y) = 4 + k
          /\ \A v \in 1 .. 4 : (X \o Y)[v] = X[v]
          /\ \A v \in 5 .. 4 + k : (X \o Y)[v] = Y[v - 4]
      BY <2>b, <2>d
    <2>3. /\ owner \in Seq(OwnerSet) /\ Len(owner) = 4 + leader
          /\ \A v \in 1 .. 4 : owner[v] = A[v]
          /\ \A v \in 5 .. 4 + leader : owner[v] = B[v - 4]
      BY <2>a, <2>b, <2>c
    <2> QED
      BY <1>1, <2>2, <2>3
  <1> QED
    BY <1>1, <1>6, <1>7

LEMMA InitInv ==
    ASSUME Init
    PROVE  Inv
  <1>1. /\ cand = [check |-> Fence(4, 1, 1), bind |-> Fence(3 + leader, leader, leader)]
        /\ ticket = [state |-> "publishing", resume |-> "none", version |-> 4 + leader,
                     runner |-> leader, code |-> "none"]
        /\ notes = {2, 3, 4} /\ control = NoControl
        /\ wit = [f |-> NoFence, rebinds |-> <<>>]
        /\ endpoint \in [pr : BOOLEAN, f : {NoFence}]
        /\ policy = NoPolicy /\ obs = NoObs /\ used \in {0, Limit}
        /\ repair = NoRepair /\ pc = "serving"
    BY DEF Init
  <1>2. PICK k \in {1, 2} : /\ leader = k /\ ticket.version = 4 + k /\ ticket.runner = k
                            /\ DOMAIN hist = 1 .. 4 + k /\ DOMAIN owner = 1 .. 4 + k
    BY <1>1, BeginIs
  <1>3. NoFence \in FenceSet
    BY DEF NoFence, Fence, FenceSet
  <1>4. Typed
    <2>1. Limit \in Nat
      BY DeliveryAssumption
    <2>2. ticket \in TicketSet
      BY <1>1, <1>2 DEF TicketSet, Published0
    <2>3. repair \in [f : FenceSet, rows : SUBSET FenceSet]
      BY <1>1, <1>3 DEF NoRepair
    <2>4. control.auth.v = 0 /\ control \in [st : {"none", "sealed", "open"}, stop : FenceSet, auth : FenceSet]
      BY <1>1, <1>3 DEF NoControl, NoFence, Fence
    <2> QED
      BY <1>1, <1>2, <1>3, <2>1, <2>2, <2>3, <2>4, BeginIs DEF Typed, Halted, NoObs
  <1>5. PassAt = 4 + k
    BY <1>2, BeginIs DEF PassAt
  <1>6. Prefix
    <2>1. \A v \in 1 .. 4 + k : v <= PassAt
      BY <1>2, <1>5
    <2> QED
      BY <1>1, <1>2, <1>5, <2>1, BeginIs DEF Prefix
  <1>7. /\ Rows = (IF k = 2 THEN {5} ELSE {})
        /\ \A v \in DOMAIN hist : hist[v].trig \in {"submit_valid", "operator_start", "phase_pass", "recovered"}
    <2>1. \A v \in 1 .. 4 : hist[v].trig \in {"submit_valid", "operator_start", "phase_pass"}
      BY BeginIs, <1>4, <1>6, StartIs DEF Event
    <2>2. hist[4 + k].trig = "phase_pass" /\ (k = 2 => hist[5].trig = "recovered")
      <3>1. Pass.trig = "phase_pass" /\ Restarted.trig = "recovered"
        BY DEF Pass, Restarted, Event
      <3>2. hist[4 + k] = Pass /\ (k = 2 => hist[5] = Restarted)
        BY <1>2, BeginIs
      <3> QED
        BY <3>1, <3>2
    <2>3. \A v \in 1 .. 4 + k : v \in 1 .. 4 \/ v = 4 + k \/ (v = 5 /\ k = 2)
      BY <1>2
    <2> QED
      BY <1>2, <2>1, <2>2, <2>3 DEF Rows, Recovered
  <1>8. /\ k = 2 => /\ hist[5].r = 2 /\ hist[5].pl = 1 /\ hist[5].l = 2
                    /\ owner[5] = [r |-> 2, l |-> 2]
        /\ owner[4 + k] = [r |-> k, l |-> k]
        /\ owner[4] = [r |-> 1, l |-> 1]
        /\ k = 1 => owner[5] = [r |-> 1, l |-> 1]
    <2>1. Restarted.r = 2 /\ Restarted.pl = 1 /\ Restarted.l = 2
      BY DEF Restarted, Event
    <2>2. /\ k = 2 => hist[5] = Restarted
          /\ \A v \in 5 .. 4 + k : owner[v] = [r |-> k, l |-> k]
          /\ owner[4] = [r |-> 1, l |-> 1]
      BY <1>2, BeginIs
    <2> QED
      BY <1>2, <2>1, <2>2
  <1>9. \A v \in 1 .. 4 + k : owner[v].l <= k /\ owner[v].r <= k
    BY <1>2, BeginIs
  <1>10. Held
    <2>1. \A v \in Rows : owner[v] = [r |-> hist[v].r, l |-> hist[v].l]
      BY <1>7, <1>8
    <2> QED
      BY <1>2, <1>8, <1>9, <2>1 DEF Held
  <1>11. Unresumed /\ VerdictIsOwn
    BY <1>7 DEF Unresumed, Exhausted, VerdictIsOwn
  <1>12. ~Announced /\ ~Published
    BY <1>1, <1>7 DEF Announced, Versions, Published
  <1>13. Announcing /\ Repairing
    BY <1>1, <1>12 DEF Announcing, Where, Halted, Repairing
  <1>14. PlainHistory
    <2>1. \A v \in DOMAIN hist : Owned(v)
      BY <1>2, <1>7, <1>8, BeginIs DEF Owned
    <2>2. \A v \in Rows : hist[v].pl < hist[v].l
                          /\ Prior(v) = Fence(v - 1, owner[v - 1].r, owner[v - 1].l)
      BY <1>2, <1>7, <1>8 DEF Prior
    <2> QED
      BY <1>1, <1>2, <1>5, <1>12, <2>1, <2>2 DEF PlainHistory
  <1> QED
    BY <1>4, <1>6, <1>10, <1>11, <1>13, <1>14 DEF Inv

LEMMA NextInv ==
    ASSUME Inv, [Next]_vars
    PROVE  Inv'
  <1>1. CASE \E k \in Kinds : ClaimEffect(k) \/ Apply(k) \/ FinishEffect(k) \/ ReconcileEffect(k)
    BY <1>1, QuietSteps
  <1>2. CASE WorkerReturns \/ BeginBuilder \/ EndBuilder \/ runCommand \/ commitCandidate
             \/ replayCandidateRepairPreparedCandidate \/ Crash \/ AcquireLeader
             \/ Rearm \/ RecordCIRequiredCheckPolicy \/ RecordCIObservation
    BY <1>2, QuietSteps
  <1>3. CASE UNCHANGED vars
    <2>1. /\ UNCHANGED <<leader, ticket, hist, notes, owner, control, cand, wit, endpoint, policy,
                         obs, used, repair, pc>>
          /\ Typed /\ Held
      BY <1>3, Parts DEF vars, machine, publication, ci
    <2>2. leader \in Nat /\ leader >= leader
      BY <2>1, TypedIs
    <2>3. /\ control \in [st : {"none", "sealed", "open"}, stop : FenceSet, auth : FenceSet]
          /\ control.auth.v <= ticket.version
          /\ obs \in [f : FenceSet, class : {"none", "pending", "green", "red"}]
          /\ (obs # NoObs => policy # NoPolicy)
      BY <2>1 DEF Typed
    <2> QED
      BY <2>1, <2>2, <2>3, Kept DEF Held
  <1> QED
    BY <1>1, <1>2, <1>3, RecordPublishedKeeps, TransitionKeeps, ResumePREndpointKeeps, BlockKeeps,
       RecoverBlockedKeeps, PauseKeeps, DrainKeeps, ResumeKeeps, AdmitCIPollKeeps, ConsumeKeeps,
       RecordCandidateKeeps, FenceRecoveredKeeps, RebindRecoveredKeeps
    DEF Next

LEMMA InvHolds == Spec => []Inv
  <1>1. Init => Inv
    BY InitInv
  <1>2. Inv /\ [Next]_vars => Inv'
    BY NextInv
  <1> QED
    BY <1>1, <1>2, PTL DEF Spec

\* A verdict moves the ticket only when the observation was made under the very
\* runner and leader that owned the version it consumes (ConsumeCIObservation of
\* store/ci_schedule.go), however many daemons, pauses, blocks and polls there are.
THEOREM VerdictOfItsOwner == Spec => []VerdictIsOwn
  <1>1. Inv => VerdictIsOwn
    BY DEF Inv
  <1> QED
    BY <1>1, InvHolds, PTL

-----------------------------------------------------------------------------
(* What the Builder of the repair reads *)

\* The fence under which the version z was made.
Mark(z) == Fence(z, owner[z].r, owner[z].l)

LEMMA MarkIs ==
    ASSUME Typed, NEW z \in 1 .. ticket.version
    PROVE  /\ Mark(z) \in FenceSet /\ Mark(z).v = z /\ Mark(z).r = owner[z].r /\ Mark(z).l = owner[z].l
  BY TypedIs DEF Mark, Fence, FenceSet, OwnerSet

LEMMA SameGap ==
    ASSUME NEW s \in FenceSet
    PROVE  AtLeast(s, s) /\ validateRunnerControlAdvance(s, s)
  <1>1. AtLeast(s, s)
    BY DEF AtLeast, FenceSet
  <1>2. validateRunnerControlAdvance(s, s)
    BY <1>1 DEF validateRunnerControlAdvance
  <1> QED
    BY <1>1, <1>2

\* Rows alone lead from a version to a later one.
LEMMA ChainIs ==
    ASSUME Typed, Held, NEW a \in 1 .. ticket.version, NEW z \in a .. ticket.version,
           \A v \in a + 1 .. z : /\ v \in Rows /\ hist[v].pl < hist[v].l
                                 /\ Prior(v) = Fence(v - 1, owner[v - 1].r, owner[v - 1].l)
    PROVE  validateRunnerRecoveryLedgerPrefix(Mark(a), Mark(z))
  <1> DEFINE rows == {v \in Rows : Mark(a).v < v /\ v <= Mark(z).v}
             From(v) == LET older == {w \in rows : w < v} IN
                        IF older = {} THEN Mark(a) ELSE At(Newest(older))
  <1>1. /\ ticket.version \in Nat /\ a \in Nat /\ z \in Nat /\ z \in 1 .. ticket.version
        /\ Mark(a) \in FenceSet /\ Mark(a).v = a /\ Mark(z).v = z
    BY TypedIs, MarkIs
  <1>2. rows = a + 1 .. z
    BY <1>1, TypedIs
  <1>3. ASSUME NEW v \in a + 1 .. z + 1 PROVE From(v) = Mark(v - 1)
    <2>1. PICK o : o = {w \in rows : w < v}
      OBVIOUS
    <2>2. CASE v = a + 1
      <3>1. o = {} /\ v - 1 = a
        BY <1>1, <1>2, <2>1, <2>2
      <3> QED
        BY <2>1, <3>1
    <2>3. CASE v # a + 1
      <3>1. PICK m \in a + 1 .. z : m = v - 1
        BY <1>1, <2>3
      <3>2. m \in o /\ (\A w \in o : w <= m) /\ \A x, y \in o : x \in Nat /\ y \in Nat
        BY <1>1, <1>2, <2>1, <3>1
      <3>3. Newest(o) = m
        <4>1. o \in SUBSET (1 .. ticket.version) /\ o # {} /\ ticket.version \in Nat
          BY <1>1, <1>2, <2>1, <3>2
        <4>2. PICK k \in o : k = Newest(o) /\ \A w \in o : w <= k
          BY <4>1, NewestIs
        <4>3. k <= m /\ m <= k /\ k \in Nat /\ m \in Nat
          BY <3>2, <4>2
        <4> QED
          BY <4>2, <4>3
      <3>4. At(m) = Mark(m)
        <4>1. m \in Rows
          BY <3>1
        <4>2. owner[m] = [r |-> hist[m].r, l |-> hist[m].l]
          BY <4>1 DEF Held
        <4> QED
          BY <4>2 DEF At, Mark, Fence
      <3> QED
        BY <2>1, <3>1, <3>2, <3>3, <3>4
    <2> QED
      BY <2>2, <2>3
  <1> HIDE DEF From, rows
  <1>4. ASSUME NEW v \in rows
        PROVE  /\ hist[v].l > hist[v].pl
               /\ AtLeast(Prior(v), From(v)) /\ validateRunnerControlAdvance(From(v), Prior(v))
    <2>1. /\ v \in a + 1 .. z /\ Prior(v) = Mark(v - 1) /\ hist[v].pl < hist[v].l
          /\ v - 1 \in 1 .. ticket.version /\ v \in a + 1 .. z + 1
      BY <1>1, <1>2, <1>4 DEF Mark
    <2>2. From(v) = Mark(v - 1) /\ Mark(v - 1) \in FenceSet
      BY <1>3, <2>1, MarkIs
    <2>3. hist[v] \in EventSet
      BY <1>1, <2>1, TypedIs
    <2> QED
      BY <2>1, <2>2, <2>3, SameGap DEF EventSet
  <1>5. AtLeast(Mark(z), From(z + 1)) /\ validateRunnerControlAdvance(From(z + 1), Mark(z))
    <2>1. PICK y : y = z + 1 /\ y \in a + 1 .. z + 1 /\ y - 1 = z
      BY <1>1
    <2>2. From(y) = Mark(z) /\ Mark(z) \in FenceSet
      BY <1>1, <1>3, <2>1, MarkIs
    <2> QED
      BY <2>1, <2>2, SameGap
  <1>6. z + 1 \notin rows
    BY <1>1, <1>2
  <1>7. ASSUME NEW v \in rows \union {z + 1}
        PROVE  /\ v \in rows => hist[v].l > hist[v].pl
               /\ GapHolds(From(v), IF v \in rows THEN Prior(v) ELSE Mark(z), v \in rows)
    BY <1>4, <1>5, <1>6 DEF GapHolds
  <1> QED
    BY <1>1, <1>7 DEF validateRunnerRecoveryLedgerPrefix, From, rows

\* The history of a repair that no stop and no block disturbed.
Repaired ==
    /\ Typed /\ Prefix /\ Held /\ PlainHistory /\ Published /\ RepairBinding
    /\ Waiting.v \in 1 .. ticket.version /\ Waiting.v \notin Rows /\ Waiting.v = Current.v + 1
    /\ Current.v \in 1 .. ticket.version /\ Current.v >= PassAt /\ Current = Mark(Current.v)
    /\ RepairEntry.v \in 1 .. ticket.version /\ RepairEntry.v \notin Rows
    /\ RepairEntry = Mark(RepairEntry.v)
    /\ RepairEntry.v = repair.f.v + 1 /\ repair.f.v >= Waiting.v /\ repair.f.v \in Nat
    /\ Is(Waiting.v, "effects_confirmed", "publishing", "waiting_ci")
    /\ \A v \in RepairEntry.v + 1 .. ticket.version : v \in Rows
    /\ \A v \in PassAt + 1 .. Waiting.v - 1 : v \in Rows
    /\ \A v \in Rows : /\ hist[v].pl < hist[v].l
                       /\ Prior(v) = Fence(v - 1, owner[v - 1].r, owner[v - 1].l)
    /\ \A v \in 1 .. ticket.version : Owned(v)

LEMMA RepairedIs ==
    ASSUME Inv, repair # NoRepair, Plain
    PROVE  Repaired
  <1>1. Typed /\ Prefix /\ Held /\ PlainHistory /\ Announcing /\ Repairing /\ ticket.version \in Nat
    BY Parts
  <1>2. Announced
    BY <1>1 DEF Announcing, Where, Repairing, Halted
  <1>3. /\ Published /\ Waiting.v \in 1 .. ticket.version /\ Waiting.v \notin Rows
        /\ Waiting.v = Current.v + 1
    BY <1>1, <1>2, AnnouncedIs, WaitingNat
  <1>4. Current.v \in 1 .. ticket.version /\ Current.v >= PassAt /\ Current = Mark(Current.v)
    BY <1>1, <1>3, CurrentIs DEF PlainHistory, Mark
  <1>5. /\ RepairEntry.v \in 1 .. ticket.version /\ RepairEntry.v \notin Rows
        /\ RepairEntry.v = repair.f.v + 1 /\ repair.f.v \in Nat /\ repair.f.v >= Waiting.v
    BY <1>1, RepairIs DEF Repairing
  <1>6. RepairEntry = Mark(RepairEntry.v)
    <2>1. owner[RepairEntry.v] = [r |-> RepairEntry.r, l |-> RepairEntry.l]
      BY <1>1 DEF Repairing
    <2>2. RepairEntry = Fence(RepairEntry.v, RepairEntry.r, RepairEntry.l)
      BY DEF RepairEntry, Shift, Fence
    <2>3. PICK x : x = RepairEntry
      OBVIOUS
    <2>4. owner[x.v].r = x.r /\ owner[x.v].l = x.l /\ x = Fence(x.v, x.r, x.l)
      BY <2>1, <2>2, <2>3
    <2> QED
      BY <2>3, <2>4 DEF Mark
  <1>7. endpoint.f = NoFence
    BY DEF Plain
  <1>8. RepairBinding /\ Is(Waiting.v, "effects_confirmed", "publishing", "waiting_ci")
    <2>1. RepairHistory(repair.f)
      BY <1>1, <1>7 DEF Repairing
    <2>2. Is(Waiting.v, "effects_confirmed", "publishing", "waiting_ci")
      BY <2>1 DEF RepairHistory
    <2> QED
      BY <1>1, <2>1, <2>2 DEF Repairing, RepairBinding
  <1>9. \A v \in RepairEntry.v + 1 .. ticket.version : v \in Rows
    BY <1>1 DEF Repairing, Rows, Recovered
  <1>10. \A v \in PassAt + 1 .. Waiting.v - 1 : v \in Rows
    BY <1>1, <1>2 DEF PlainHistory, Rows, Recovered
  <1>11. \A v \in 1 .. ticket.version : Owned(v)
    BY <1>1, TypedIs DEF PlainHistory
  <1>12. \A v \in Rows : /\ hist[v].pl < hist[v].l
                         /\ Prior(v) = Fence(v - 1, owner[v - 1].r, owner[v - 1].l)
    BY <1>1 DEF PlainHistory
  <1> QED
    BY <1>1, <1>3, <1>4, <1>5, <1>6, <1>8, <1>9, <1>10, <1>11, <1>12 DEF Repaired

LEMMA AnchorHolds ==
    ASSUME Repaired
    PROVE  candidateRepairRecoveryAnchor
  <1>1. RepairEntry.v >= RepairEntry.v
    BY TypedIs DEF Repaired
  <1> QED
    BY <1>1 DEF Repaired, candidateRepairRecoveryAnchor, candidateRepairBuildAuthorityHistoricalAt

\* Every fence from the publication on is one the binding vouches for.
LEMMA EndpointHolds ==
    ASSUME Repaired, NEW z \in Current.v .. ticket.version
    PROVE  validateCandidateRepairAuthorityEndpoint(Mark(z))
  <1>1. /\ Typed /\ Held /\ Prefix /\ PlainHistory /\ Published
        /\ ticket.version \in Nat /\ Current.v \in 1 .. ticket.version
        /\ z \in 1 .. ticket.version /\ repair.f.v \in Nat /\ Waiting.v = Current.v + 1
        /\ Mark(z).v = z
    BY TypedIs, MarkIs DEF Repaired
  <1>2. CASE z = Current.v
    <2>1. Mark(z) = Fence(z, Current.r, Current.l)
      BY <1>1, <1>2, MarkIs DEF Repaired, Mark
    <2>2. z <= repair.f.v /\ z <= Waiting.v
      BY <1>1, <1>2 DEF Repaired
    <2> QED
      BY <1>1, <1>2, <2>1, <2>2 DEF validateCandidateRepairAuthorityEndpoint, ciEndpoint
  <1>3. CASE z = Waiting.v
    <2>1. PICK a, b : a = Current.v /\ b = z /\ a \in 1 .. ticket.version
                      /\ b \in a .. ticket.version /\ b \in 1 .. ticket.version /\ b = a + 1
      BY <1>1, <1>3
    <2>2. \A w \in Rows : ~(a < w /\ w <= b)
      BY <1>1, <1>3, <2>1, TypedIs DEF Repaired
    <2>3. owner[a] = owner[b]
      BY <1>1, <2>1, <2>2, OwnerSame DEF Repaired
    <2>4. Mark(z) = Fence(z, Current.r, Current.l)
      BY <1>1, <2>1, <2>3, MarkIs DEF Repaired, Mark
    <2>5. z <= repair.f.v /\ z <= Waiting.v /\ z >= Current.v
      BY <1>1, <1>3 DEF Repaired
    <2> QED
      BY <1>1, <1>3, <2>4, <2>5 DEF validateCandidateRepairAuthorityEndpoint, ciEndpoint
  <1>4. CASE z > Waiting.v /\ z <= repair.f.v
    <2>1. PICK y : y = z + 1 /\ y \in Waiting.v + 1 .. ticket.version + 1 /\ y - 1 = z
      BY <1>1, <1>4 DEF Repaired
    <2>2. OwnerBefore(Waiting, y).r = owner[y - 1].r /\ OwnerBefore(Waiting, y).l = owner[y - 1].l
      BY <1>1, <2>1, OwnerBeforeIs DEF Repaired
    <2>3. ciEndpoint(z) = Mark(z)
      BY <1>1, <1>4, <2>1, <2>2 DEF ciEndpoint, Mark
    <2>4. z <= repair.f.v /\ z >= Current.v
      BY <1>1, <1>4
    <2> QED
      BY <1>1, <2>3, <2>4 DEF validateCandidateRepairAuthorityEndpoint
  <1>5. CASE z > repair.f.v
    <2>1. z = RepairEntry.v => Mark(z) = RepairEntry
      BY DEF Repaired
    <2>2. z > RepairEntry.v => validateRunnerRecoveryLedgerPrefix(RepairEntry, Mark(z))
      <3>1. SUFFICES ASSUME z > RepairEntry.v
                     PROVE validateRunnerRecoveryLedgerPrefix(RepairEntry, Mark(z))
        OBVIOUS
      <3>2. PICK a \in 1 .. ticket.version : a = RepairEntry.v /\ z \in a .. ticket.version
                                             /\ Mark(a) = RepairEntry
        BY <1>1, <3>1 DEF Repaired
      <3>3. \A v \in a + 1 .. z : /\ v \in Rows /\ hist[v].pl < hist[v].l
                                  /\ Prior(v) = Fence(v - 1, owner[v - 1].r, owner[v - 1].l)
        BY <1>1, <3>2 DEF Repaired
      <3>4. validateRunnerRecoveryLedgerPrefix(Mark(a), Mark(z))
        BY <1>1, <3>2, <3>3, ChainIs
      <3> QED
        BY <3>2, <3>4
    <2>3. ~(z <= repair.f.v) /\ (z = RepairEntry.v \/ z > RepairEntry.v)
      BY <1>1, <1>5 DEF Repaired
    <2> QED
      BY <1>1, <2>1, <2>2, <2>3 DEF validateCandidateRepairAuthorityEndpoint
  <1> QED
    BY <1>1, <1>2, <1>3, <1>4, <1>5 DEF Repaired

\* Until the ticket waits for CI what is no row is its ordinary life.
LEMMA InitialIs ==
    ASSUME Repaired, NEW w \in 3 .. Waiting.v, w \notin Rows
    PROVE  validInitialLifecycleTransition(w)
  <1>1. /\ Typed /\ Prefix /\ PassAt \in {5, 6} /\ PassAt <= ticket.version
        /\ Waiting.v \in 1 .. ticket.version /\ ticket.version \in Nat
        /\ DOMAIN hist = 1 .. ticket.version /\ w \in 1 .. ticket.version
    BY StartIs, TypedIs DEF Repaired
  <1>2. CASE w = Waiting.v
    BY <1>2 DEF Repaired, validInitialLifecycleTransition
  <1>3. CASE w = PassAt
    <2>1. hist[w].trig = "phase_pass" /\ hist[w].from = "building" /\ hist[w].to = "publishing"
      BY <1>1, <1>3, StartIs DEF Pass, Event
    <2> QED
      BY <1>1, <2>1 DEF validInitialLifecycleTransition, PhasePass, Is
  <1>4. CASE w \in {3, 4}
    <2>1. /\ hist[3] = Event("phase_pass", "planning", "verifying")
          /\ hist[4] = Event("phase_pass", "verifying", "building")
      BY <1>1, StartIs
    <2> QED
      BY <1>1, <1>4, <2>1 DEF validInitialLifecycleTransition, PhasePass, Is, Event
  <1>5. CASE w \in PassAt + 1 .. Waiting.v - 1
    BY <1>5 DEF Repaired
  <1>6. CASE w = 5 /\ PassAt = 6
    <2>1. hist[5].trig = "recovered"
      BY <1>1, <1>6 DEF Prefix, Restarted, Event
    <2> QED
      BY <1>1, <1>6, <2>1, TypedIs
  <1>7. w = Waiting.v \/ w = PassAt \/ w \in {3, 4} \/ w \in PassAt + 1 .. Waiting.v - 1
        \/ (w = 5 /\ PassAt = 6)
    BY <1>1
  <1> QED
    BY <1>2, <1>3, <1>4, <1>5, <1>6, <1>7

LEMMA FirstHolds ==
    ASSUME Repaired, NEW z \in 1 .. ticket.version, \A w \in Rows : w > z
    PROVE  FirstRowHolds(Mark(z))
  <1>1. Typed /\ Prefix /\ ticket.version \in Nat /\ Waiting.v \in 1 .. ticket.version
    BY TypedIs DEF Repaired
  <1>2. PICK p : p = Mark(z) /\ p.v = z /\ p.r = 1
    <2>1. Owned(z)
      BY DEF Repaired
    <2>2. owner[z] = [r |-> 1, l |-> 1]
      BY <2>1 DEF Owned
    <2> QED
      BY <1>1, <2>2, MarkIs
  <1>3. CASE z <= Waiting.v
    <2>1. \A w \in 3 .. z : validInitialLifecycleTransition(w)
      <3>1. \A w \in 3 .. z : w \in 3 .. Waiting.v /\ w \notin Rows
        BY <1>1, <1>3
      <3> QED
        BY <3>1, InitialIs
    <2>2. /\ Is(1, "submit_valid", "none", "queued")
          /\ Is(2, "operator_start", "queued", "planning")
      <3>1. 1 \in DOMAIN hist /\ 2 \in DOMAIN hist
        BY <1>1, StartIs, TypedIs
      <3> QED
        BY <1>1, <3>1, StartIs DEF Is, Event
    <2>3. validateInitialLifecycleAdvance(z)
      BY <2>1, <2>2 DEF validateInitialLifecycleAdvance
    <2> QED
      BY <1>2, <2>3 DEF FirstRowHolds
  <1>4. CASE z > Waiting.v
    <2>1. z \in Current.v .. ticket.version /\ z >= Current.v
      BY <1>1, <1>4 DEF Repaired
    <2>2. validateCandidateRepairAuthorityEndpoint(Mark(z))
      BY <2>1, EndpointHolds
    <2> QED
      BY <1>2, <2>1, <2>2, AnchorHolds DEF FirstRowHolds, validateCandidateRepairRecoveryTarget
  <1> QED
    BY <1>1, <1>3, <1>4

LEMMA GapIs ==
    ASSUME Repaired, NEW m \in Rows, NEW z \in m .. ticket.version, \A w \in Rows : ~(m < w /\ w <= z)
    PROVE  AuditGap(At(m), Mark(z)) /\ owner[m] = owner[z]
  <1>1. /\ Typed /\ Prefix /\ Held /\ PlainHistory /\ ticket.version \in Nat
        /\ m \in 1 .. ticket.version /\ z \in 1 .. ticket.version
        /\ PassAt \in {5, 6} /\ PassAt <= ticket.version
        /\ Waiting.v \in 1 .. ticket.version /\ Waiting.v = Current.v + 1 /\ Waiting.v \notin Rows
        /\ Current.v \in 1 .. ticket.version /\ Current.v >= PassAt
    BY TypedIs, StartIs DEF Repaired
  <1>2. m >= 5
    BY <1>1, StartIs
  <1>3. owner[m] = owner[z]
    BY <1>1, OwnerSame DEF Repaired
  <1>4. PICK s \in FenceSet, e \in FenceSet :
           /\ s = Mark(m) /\ e = Mark(z) /\ s.v = m /\ e.v = z /\ s.r = e.r /\ s.l = e.l
    BY <1>1, <1>3, MarkIs
  <1>5. At(m) = s
    <2>1. owner[m] = [r |-> hist[m].r, l |-> hist[m].l]
      BY <1>1 DEF Held
    <2> QED
      BY <1>4, <2>1 DEF At, Mark, Fence
  <1>6. CASE m = z
    BY <1>4, <1>5, <1>6, SameGap DEF AuditGap
  <1>7. CASE m < z /\ z <= Waiting.v
    <2>1. \A w \in m + 1 .. z : validInitialLifecycleTransition(w)
      <3>1. \A w \in m + 1 .. z : w \in 3 .. Waiting.v /\ w \notin Rows
        BY <1>1, <1>2, <1>7
      <3> QED
        BY <3>1, InitialIs
    <2>2. validateRunnerPhaseChain(s, e)
      BY <1>4, <1>7, <2>1 DEF validateRunnerPhaseChain
    <2> QED
      BY <1>3, <1>4, <1>5, <2>2 DEF AuditGap
  <1>8. CASE z > Waiting.v
    <2>1. e.v >= Current.v /\ s.v <= e.v /\ z \in Current.v .. ticket.version
      BY <1>1, <1>4, <1>8
    <2>2. validateCandidateRepairAuthorityEndpoint(e)
      BY <1>4, <2>1, EndpointHolds
    <2>3. m >= Current.v => validateCandidateRepairAuthorityEndpoint(s)
      <3>1. m >= Current.v => m \in Current.v .. ticket.version
        BY <1>1
      <3> QED
        BY <1>4, <3>1, EndpointHolds
    <2>4. ASSUME m < Current.v PROVE validateRunnerRecoveryLedgerPrefix(s, Current)
      <3>1. Current.v = PassAt
        <4>1. Current.v \notin Rows
          BY <1>1, <1>8, <2>4
        <4>2. ~(Current.v \in PassAt + 1 .. Waiting.v - 1)
          BY <4>1 DEF Repaired
        <4> QED
          BY <1>1, <4>2
      <3>2. m = 5 /\ PassAt = 6 /\ Current.v = 6 /\ 6 \notin Rows
        BY <1>1, <1>2, <2>4, <3>1, StartIs
      <3>3. PICK c \in FenceSet : c = Current /\ c.v = 6 /\ c.r = s.r /\ c.l = s.l
        <4>1. Current = Mark(6) /\ 6 \in 1 .. ticket.version
          BY <1>1, <3>2 DEF Repaired
        <4>2. owner[5] = [r |-> 2, l |-> 2] /\ owner[6] = [r |-> 2, l |-> 2]
          BY <1>1, <3>2 DEF Prefix
        <4> QED
          BY <1>1, <1>4, <3>2, <4>1, <4>2, MarkIs
      <3>4. {v \in Rows : s.v < v /\ v <= c.v} = {}
        <4>1. s.v = 5 /\ c.v = 6
          BY <1>4, <3>2, <3>3
        <4>2. \A w \in Rows : w \in Nat /\ w # 6
          BY <1>1, <3>2, TypedIs
        <4>3. \A w \in Rows : ~(5 < w /\ w <= 6)
          BY <4>2
        <4> QED
          BY <4>1, <4>3
      <3>5. PhasePass(6)
        <4>1. hist[6] = Pass /\ 6 \in DOMAIN hist
          BY <1>1, <3>2, StartIs, TypedIs
        <4> QED
          BY <4>1 DEF PhasePass, Is, Pass, Event
      <3>6. /\ AtLeast(c, s) /\ c.l = s.l /\ validateRunnerPhaseAdvance(s, c)
        <4>1. AtLeast(c, s) /\ c.l = s.l /\ c.v = s.v + 1 /\ c.r = s.r
          BY <1>4, <3>2, <3>3 DEF AtLeast, FenceSet
        <4>2. validateRunnerPhaseAdvance(s, c)
          BY <3>3, <3>5, <4>1 DEF validateRunnerPhaseAdvance
        <4> QED
          BY <4>1, <4>2
      <3>7. validateRunnerRecoveryLedgerPrefix(s, c)
        <4>1. PICK rows : rows = {v \in Rows : s.v < v /\ v <= c.v} /\ rows = {}
          BY <3>4
        <4>2. \A v \in rows \union {c.v + 1} : {w \in rows : w < v} = {} /\ v \notin rows
          BY <4>1
        <4> QED
          BY <3>6, <4>1, <4>2 DEF validateRunnerRecoveryLedgerPrefix, GapHolds
      <3> QED
        BY <3>3, <3>7
    <2>5. validateCandidateRepairRecoveryGap(s, e)
      BY <1>1, <1>4, <2>1, <2>2, <2>3, <2>4, AnchorHolds DEF validateCandidateRepairRecoveryGap
    <2> QED
      BY <1>3, <1>4, <1>5, <2>5 DEF AuditGap
  <1> QED
    BY <1>1, <1>3, <1>6, <1>7, <1>8

LEMMA AuditHolds ==
    ASSUME Repaired, Live = Mark(ticket.version)
    PROVE  validateRunnerRecoveryAuthority
  <1>1. /\ Typed /\ Prefix /\ Held /\ ticket.version \in Nat /\ Rows \subseteq 1 .. ticket.version
        /\ ticket.runner \in Nat /\ leader \in Nat
    BY TypedIs DEF Repaired
  <1>2. SUFFICES ASSUME NEW v \in Rows \union {ticket.version + 1}, NEW older, NEW e,
                        older = {w \in Rows : w < v}, Rows # {},
                        e = IF v \in Rows THEN Prior(v) ELSE Live
                 PROVE  /\ v \in Rows => v <= ticket.version /\ hist[v].r <= ticket.runner
                                         /\ hist[v].l <= leader
                        /\ IF older = {} THEN FirstRowHolds(e)
                           ELSE /\ v \in Rows => e.v >= Newest(older)
                                                 /\ e.l >= hist[Newest(older)].l
                                /\ AuditGap(At(Newest(older)), e)
    BY DEF validateRunnerRecoveryAuthority
  <1>3. PICK z \in 1 .. ticket.version : z = v - 1 /\ v = z + 1
    <2>1. v \in Rows => v - 1 \in 1 .. ticket.version
      BY <1>1, StartIs
    <2>2. ticket.version >= 5
      BY <1>1, StartIs
    <2> QED
      BY <1>1, <2>1, <2>2
  <1>4. e = Mark(z)
    <2>1. v \in Rows => Prior(v) = Mark(z)
      BY <1>3 DEF Repaired, Mark
    <2>2. v \notin Rows => z = ticket.version
      BY <1>1, <1>3
    <2> QED
      BY <1>2, <2>1, <2>2
  <1>5. v \in Rows => v <= ticket.version /\ hist[v].r <= ticket.runner /\ hist[v].l <= leader
    <2>1. SUFFICES ASSUME v \in Rows
                   PROVE  v <= ticket.version /\ hist[v].r <= ticket.runner /\ hist[v].l <= leader
      OBVIOUS
    <2>2. v \in DOMAIN owner /\ v <= ticket.version
      BY <1>1, <2>1, TypedIs
    <2>3. owner[v] = [r |-> hist[v].r, l |-> hist[v].l]
      BY <1>1, <2>1 DEF Held
    <2>4. owner[v].r <= ticket.runner /\ owner[v].l <= leader
      BY <1>1, <2>2 DEF Held
    <2> QED
      BY <2>2, <2>3, <2>4
  <1>6. ASSUME older = {} PROVE FirstRowHolds(e)
    <2>1. \A w \in Rows : w > z
      BY <1>1, <1>2, <1>3, <1>6
    <2> QED
      BY <1>4, <2>1, FirstHolds
  <1>7. ASSUME older # {}
        PROVE  /\ e.v >= Newest(older) /\ e.l >= hist[Newest(older)].l
               /\ AuditGap(At(Newest(older)), e)
    <2>1. older \in SUBSET (1 .. ticket.version)
      BY <1>1, <1>2
    <2>2. PICK m \in older : m = Newest(older) /\ \A w \in older : w <= m
      BY <1>1, <1>7, <2>1, NewestIs
    <2>3. /\ m \in Rows /\ m \in 1 .. ticket.version /\ z \in m .. ticket.version
          /\ \A w \in Rows : ~(m < w /\ w <= z)
      BY <1>1, <1>2, <1>3, <2>1, <2>2
    <2>4. AuditGap(At(m), Mark(z)) /\ owner[m] = owner[z]
      BY <2>3, GapIs
    <2>5. Mark(z).v = z /\ Mark(z).l = owner[z].l /\ owner[z].l \in Nat
      BY <1>1, MarkIs, TypedIs DEF OwnerSet
    <2>6. owner[m] = [r |-> hist[m].r, l |-> hist[m].l]
      BY <1>1, <2>3 DEF Held
    <2>7. e.v >= m /\ e.l >= hist[m].l
      BY <1>1, <1>4, <2>3, <2>4, <2>5, <2>6
    <2> QED
      BY <1>4, <2>2, <2>4, <2>7
  <1> QED
    BY <1>5, <1>6, <1>7

LEMMA CountIs ==
    ASSUME Typed, endpoint.f = NoFence, Count(Stops) = 0
    PROVE  Plain
  <1>1. IsFiniteSet(1 .. ticket.version)
    <2>1. ticket.version \in Nat
      BY TypedIs
    <2> QED
      BY <2>1, FS_Interval
  <1>2. {v \in DOMAIN hist : hist[v].trig \in Stops} \in SUBSET (1 .. ticket.version)
    BY TypedIs
  <1>3. IsFiniteSet({v \in DOMAIN hist : hist[v].trig \in Stops})
    BY <1>1, <1>2, FS_Subset
  <1>4. {v \in DOMAIN hist : hist[v].trig \in Stops} = {}
    BY <1>3, FS_EmptySet DEF Count
  <1> QED
    BY <1>4 DEF Plain

LEMMA ContextHolds ==
    ASSUME Inv, repair # NoRepair, endpoint.f = NoFence, pc = "serving",
           Rows = {} \/ Count({"operator_pause_or_take", "typed_blocker"}) = 0
    PROVE  CandidateRepairBuildContext
  <1> DEFINE n == ticket.version
  <1>1. /\ Typed /\ Held /\ Repairing /\ ticket.state = "building" /\ n \in Nat
    BY Parts DEF Repairing
  <1>2. RepairBinding
    BY <1>1 DEF RepairBinding, Repairing
  <1>3. n \in 1 .. n /\ owner[n].r = ticket.runner /\ owner[n].l = leader
    BY <1>1, RepairIs DEF Held, Fenceable
  <1>4. Live = Mark(n)
    BY <1>3 DEF Live, Mark
  <1>5. CASE Rows = {}
    <2>1. RepairEntry.v \in 1 .. n /\ \A v \in RepairEntry.v + 1 .. n : v \in Rows
      BY <1>1, RepairIs DEF Repairing, Rows, Recovered
    <2>2. n \notin RepairEntry.v + 1 .. n
      BY <1>5, <2>1
    <2>3. n = RepairEntry.v
      BY <1>1, <2>1, <2>2
    <2>4. owner[n] = [r |-> RepairEntry.r, l |-> RepairEntry.l]
      BY <1>1, <2>3 DEF Repairing
    <2>5. RepairEntry = Fence(n, RepairEntry.r, RepairEntry.l)
      BY <2>3 DEF RepairEntry, Shift, Fence
    <2>6. PICK x : x = RepairEntry
      OBVIOUS
    <2>7. Live = x
      BY <1>4, <2>4, <2>5, <2>6 DEF Mark
    <2> QED
      BY <1>1, <1>2, <1>5, <2>6, <2>7 DEF CandidateRepairBuildContext, validateRunnerRecoveryAuthority
  <1>6. CASE Rows # {}
    <2>1. Count(Stops) = 0
      BY <1>6 DEF Stops
    <2>2. Plain
      BY <1>1, <2>1, CountIs
    <2>3. Repaired
      BY <2>2, RepairedIs
    <2>4. validateRunnerRecoveryAuthority
      BY <1>4, <2>3, AuditHolds
    <2>5. PICK a \in 1 .. n : a = RepairEntry.v /\ Mark(a) = RepairEntry /\ n \in a .. n
      BY <1>1, <2>3 DEF Repaired
    <2>6. validateRunnerRecoveryLedgerPrefix(Mark(a), Mark(n))
      <3>1. \A v \in a + 1 .. n : /\ v \in Rows /\ hist[v].pl < hist[v].l
                                  /\ Prior(v) = Fence(v - 1, owner[v - 1].r, owner[v - 1].l)
        BY <2>3, <2>5 DEF Repaired
      <3> QED
        BY <1>1, <2>5, <3>1, ChainIs
    <2>7. NoRowAfter(Live.v)
      <3>1. Live.v = n /\ \A w \in Rows : w <= n
        BY <1>1, TypedIs DEF Live, Fence
      <3> QED
        BY <3>1 DEF NoRowAfter
    <2> QED
      BY <1>1, <1>2, <1>4, <2>4, <2>5, <2>6, <2>7
      DEF CandidateRepairBuildContext, validateRunnerRecoveryLedger
  <1> QED
    BY <1>5, <1>6

\* The Builder of the repair can authenticate the history that led to the red
\* verdict, unless the ticket had stopped at its PR endpoint, and the fence it
\* serves under reaches the binding, unless there were both a restart and a pause
\* or a block (candidateRepairBuildAuthorityAtMode of store/ci_authority.go and
\* validateRunnerRecoveryAuthority), whatever the number of restarts and polls.
THEOREM AuthenticRepair == Spec => []RepairIsAuthentic
  <1>1. Inv => RepairIsAuthentic
    <2> SUFFICES ASSUME Inv PROVE RepairIsAuthentic
      OBVIOUS
    <2>1. repair # NoRepair /\ endpoint.f = NoFence => RepairHistory(repair.f)
      BY Parts DEF Repairing
    <2> QED
      BY <2>1, ContextHolds DEF RepairIsAuthentic
  <1> QED
    BY <1>1, InvHolds, PTL

\* Without a stop, a block or a resumed PR endpoint every recovery row names the
\* daemon that made the version before it, with its runner: whatever verdicts,
\* poll retries and repairs came before the crash (fenceRecoveredRunners of
\* store/lease.go).
THEOREM UndisturbedPriorHeldTicket ==
    Spec => [](endpoint.f = NoFence /\ Count({"operator_pause_or_take", "typed_blocker"}) = 0
                   => PriorHeldTicket)
  <1>1. ASSUME Inv, endpoint.f = NoFence, Count({"operator_pause_or_take", "typed_blocker"}) = 0
        PROVE  PriorHeldTicket
    <2>1. Typed /\ Prefix /\ (Plain => PlainHistory)
      BY <1>1 DEF Inv
    <2>2. Plain
      <3>1. Count(Stops) = 0
        BY <1>1 DEF Stops
      <3> QED
        BY <1>1, <2>1, <3>1, CountIs
    <2>3. SUFFICES ASSUME NEW v \in Rows
                   PROVE  \E w \in 1 .. v - 1 : owner[w] = [r |-> hist[v].r - 1, l |-> hist[v].pl]
      BY DEF PriorHeldTicket
    <2>4. PICK z \in 1 .. ticket.version : z = v - 1 /\ z \in 1 .. v - 1
      BY <2>1, <2>3, StartIs, TypedIs
    <2>5. Prior(v) = Fence(z, owner[z].r, owner[z].l)
      BY <2>1, <2>2, <2>3, <2>4 DEF PlainHistory
    <2>6. hist[v].r - 1 = owner[z].r /\ hist[v].pl = owner[z].l
      BY <2>5 DEF Prior, Fence
    <2>7. owner[z] = [r |-> owner[z].r, l |-> owner[z].l]
      BY <2>1, <2>4, TypedIs DEF OwnerSet
    <2> QED
      BY <2>4, <2>6, <2>7
  <1> QED
    BY <1>1, InvHolds, PTL
=============================================================================
