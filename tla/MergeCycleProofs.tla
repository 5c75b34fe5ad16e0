-------------------------- MODULE MergeCycleProofs --------------------------
(***************************************************************************)
(* Theorems about MergeCycle, for every number of daemons, candidates,     *)
(* base commits and claims.                                                *)
(***************************************************************************)
EXTENDS MergeCycle, FiniteSetTheorems, SequenceTheorems, TLAPS

(***************************************************************************)
(* The types of what the proofs look into.                                 *)
(***************************************************************************)
Fences == [v : Nat, r : Nat, l : Nat]
Claims == [f : Fences, c : Nat]
Owners == [r : Nat, l : Nat]
Triggers == {"submit_valid", "operator_start", "phase_pass", "effects_confirmed",
             "checks_pending", "checks_green", "review_pass", "review_repair", "typed_blocker",
             "operator_approved", "operator_rejected", "external_merge_observed",
             "merge_observed", "reconcile_pass", "recovered"}
Stations == {"none", "queued", "planning", "verifying", "building", "publishing", "waiting_ci",
             "reviewing", "waiting_approval", "waiting_manual_merge", "merging", "reconciling",
             "done", "blocked", "external_merged"}
Made   == [trig : Triggers, from : Stations, to : Stations, r : Nat, pl : Nat, l : Nat,
           code : {"none"}]
Tickets == [state : Stations, resume : {"none"}, version : Nat, runner : Nat,
            code : {"none"}]
Results == [f : Fences, verdict : {"none", "pass", "repair", "operator"}, gen : Nat]
Effects == [st : {"none", "executing", "uncertain", "confirmed", "failed"}, f : Fences, c : Nat]
Remotes == [ready : BOOLEAN, head : {"reviewed", "other"}, merged : {"no", "reviewed", "other"},
            base : Nat, at : Nat, cmd : BOOLEAN]
Workers == [st : {"idle", "reviewing", "ready", "claimed", "launching", "observing", "proving",
                  "fetching", "proved", "failing"},
            why : {"none", "launch", "recover", "promote", "reconcile"}, c : Nat]

\* Where the ticket can stand, and where it has ended.
Ended    == {"done", "blocked", "external_merged"}
Standing == {"reviewing", "building", "verifying", "waiting_approval", "waiting_manual_merge",
             "merging", "reconciling"} \union Ended

\* The ledger of versions.
MachineOK ==
    /\ leader \in Nat /\ ticket \in Tickets /\ ticket.state \in Standing
    /\ hist \in Seq(Made) /\ owner \in Seq(Owners)
    /\ Len(hist) = ticket.version /\ Len(owner) = ticket.version /\ ticket.version >= 1
    /\ pc \in {"down", "acquired", "settled", "serving", "refused"}
    /\ pc \in {"down", "acquired", "settled"} => ticket.state \notin Ended

RestOK ==
    /\ mode \in {"guarded", "manual"}
    /\ gen \in Nat /\ result \in Results /\ used \in Nat
    /\ eff \in [Kinds -> Effects] /\ git \in Claims /\ intent \in Claims
    /\ seen \in Nat /\ manual \in [f : Fences, base : Nat]
    /\ remote \in Remotes /\ worker \in Workers /\ sent \in Nat

TypeOK == MachineOK /\ RestOK

-----------------------------------------------------------------------------
(* The inductive invariant.  PriorHeldTicket says nothing of the next row;   *)
(* what makes the next row right is that the fences which the validators of  *)
(* the startup fence read name the owner of their version: rows, green       *)
(* verdicts and repair boundaries by what they record, the final review and  *)
(* the manual observation by the fence they were stored under.  Every other  *)
(* event leaves the owner as it was.                                         *)

Signed == {"recovered", "checks_green", "review_repair"}

HistOK ==
    /\ \A v \in 1 .. ticket.version :
          hist[v].trig \in Signed => owner[v] = [r |-> hist[v].r, l |-> hist[v].l]
    /\ \A v \in 2 .. ticket.version : hist[v].trig # "recovered" => owner[v] = owner[v - 1]
    /\ owner[ticket.version].r = ticket.runner
    /\ pc = "serving" => owner[ticket.version].l = leader

\* The leader of e really held version e.v.
Authentic(o, n, e) == e.v \in 1 .. n /\ o[e.v].l = e.l
Genuine(e) == Authentic(owner, ticket.version, e)

Cited ==
    /\ result # NoResult => Genuine(result.f)
    /\ manual.base # Unseen => Genuine(Fence(manual.f.v + 1, manual.f.r, manual.f.l))

\* n versions more, all made by the runner r.
Grows(n, r) ==
    /\ ticket' \in Tickets /\ ticket'.version = ticket.version + n /\ ticket'.runner = r
    /\ hist' \in Seq(Made) /\ Len(hist') = ticket.version + n
    /\ owner' \in Seq(Owners) /\ Len(owner') = ticket.version + n
    /\ \A v \in 1 .. ticket.version : hist'[v] = hist[v] /\ owner'[v] = owner[v]
    /\ \A v \in ticket.version + 1 .. ticket.version + n :
          /\ owner'[v] = [r |-> r, l |-> leader]
          /\ hist'[v].trig \in Signed => hist'[v].r = r /\ hist'[v].l = leader

-----------------------------------------------------------------------------
(* Sequences and maxima *)

LEMMA One == ASSUME NEW S, NEW a \in S PROVE <<a>> \in Seq(S) /\ Len(<<a>>) = 1
  OBVIOUS

LEMMA Six ==
    ASSUME NEW S, NEW a \in S, NEW b \in S, NEW c \in S, NEW d \in S, NEW e \in S, NEW f \in S
    PROVE  <<a, b, c, d, e, f>> \in Seq(S) /\ Len(<<a, b, c, d, e, f>>) = 6
  OBVIOUS

LEMMA Three ==
    ASSUME NEW S, NEW a \in S, NEW b \in S, NEW c \in S
    PROVE  <<a, b, c>> \in Seq(S) /\ Len(<<a, b, c>>) = 3
  OBVIOUS

\* A constant sequence.
LEMMA Repeated ==
    ASSUME NEW S, NEW a \in S, NEW n \in Nat
    PROVE  /\ [i \in 1 .. n |-> a] \in Seq(S)
           /\ Len([i \in 1 .. n |-> a]) = n
  OBVIOUS

\* Two sequences in a row.
LEMMA Joined ==
    ASSUME NEW S, NEW s \in Seq(S), NEW t \in Seq(S)
    PROVE  /\ s \o t \in Seq(S) /\ Len(s \o t) = Len(s) + Len(t)
           /\ \A v \in 1 .. Len(s) : (s \o t)[v] = s[v]
           /\ \A v \in Len(s) + 1 .. Len(s) + Len(t) : (s \o t)[v] = t[v - Len(s)]
  <1>1. /\ s \o t \in Seq(S) /\ Len(s \o t) = Len(s) + Len(t)
        /\ \A i \in 1 .. Len(s) + Len(t) :
              (s \o t)[i] = IF i <= Len(s) THEN s[i] ELSE t[i - Len(s)]
    BY ConcatProperties
  <1>2. Len(s) \in Nat /\ Len(t) \in Nat
    OBVIOUS
  <1>3. \A v \in 1 .. Len(s) : v \in 1 .. Len(s) + Len(t) /\ v <= Len(s)
    BY <1>2
  <1>4. \A v \in Len(s) + 1 .. Len(s) + Len(t) : v \in 1 .. Len(s) + Len(t) /\ ~(v <= Len(s))
    BY <1>2
  <1> QED
    BY <1>1, <1>3, <1>4

\* Newest is a member: a bounded set of numbers has a greatest element.
LEMMA NewestIs ==
    ASSUME NEW n \in Nat, NEW S \in SUBSET (0 .. n), S # {}
    PROVE  Newest(S) \in S /\ \A y \in S : y <= Newest(S)
  <1> DEFINE Up(x) == {y \in S : x < y}
             F == SUBSET (0 .. n)
             R == StrictSubsetOrdering(0 .. n)
             T == {Up(x) : x \in S}
  <1>1. IsFiniteSet(0 .. n)
    BY FS_Interval
  <1>2. IsWellFoundedOn(R, FiniteSubsetsOf(0 .. n))
    BY FS_StrictSubsetOrderingWellFounded
  <1>3. FiniteSubsetsOf(0 .. n) = F
    BY <1>1, FS_Subset DEF FiniteSubsetsOf
  <1>4. IsWellFoundedOn(R, F) /\ T \subseteq F /\ T # {}
    <2>1. IsWellFoundedOn(R, F)
      BY <1>2, <1>3
    <2>2. T \subseteq F /\ T # {}
      OBVIOUS
    <2> QED
      BY <2>1, <2>2
  <1>5. \E t \in T : \A u \in T : ~(<<u, t>> \in R)
    <2> HIDE DEF R, F, T
    <2> QED
      BY ZenonT(60), <1>4, WFMin
  <1>6. PICK x \in S : \A y \in S : ~(<<Up(y), Up(x)>> \in R)
    BY <1>5
  <1>7. \A y \in S : y <= x
    <2>1. SUFFICES ASSUME NEW y \in S, x < y PROVE FALSE
      OBVIOUS
    <2>2. Up(y) \subseteq Up(x) /\ y \in Up(x) /\ y \notin Up(y)
      <3>1. x \in Nat /\ y \in Nat /\ \A z \in S : z \in Nat
        OBVIOUS
      <3>2. \A z \in Nat : y < z => x < z
        BY <2>1, <3>1
      <3>5. Up(y) \subseteq Up(x)
        BY <3>1, <3>2
      <3>3. y \in Up(x)
        BY <2>1
      <3>4. ~(y < y)
        BY <3>1
      <3> QED
        BY <3>3, <3>4, <3>5
    <2>3. <<Up(y), Up(x)>> \in R
      BY <2>2 DEF StrictSubsetOrdering
    <2> QED
      BY <1>6, <2>3
  <1> QED
    BY <1>7 DEF Newest

-----------------------------------------------------------------------------
(* Types *)

LEMMA LiveType == MachineOK => Live \in Fences
  BY DEF MachineOK, Tickets, Live, Fence, Fences

\* One transition: every version before it stays, the new one is the event's.
LEMMA StepShape ==
    ASSUME MachineOK, NEW event \in Made, NEW state \in Stations, NEW runner \in Nat,
           Step(event, state, runner)
    PROVE  /\ ticket' \in Tickets /\ hist' \in Seq(Made) /\ owner' \in Seq(Owners)
           /\ ticket'.version = ticket.version + 1
           /\ ticket'.state = state /\ ticket'.runner = runner
           /\ Len(hist') = ticket'.version /\ Len(owner') = ticket'.version
           /\ \A v \in 1 .. ticket.version : hist'[v] = hist[v] /\ owner'[v] = owner[v]
           /\ hist'[ticket.version + 1] = event
           /\ owner'[ticket.version + 1] = [r |-> runner, l |-> leader]
  <1>1. [r |-> runner, l |-> leader] \in Owners
    BY DEF MachineOK, Owners
  <1>2. hist' = Append(hist, event) /\ owner' = Append(owner, [r |-> runner, l |-> leader])
    BY DEF Step
  <1>3. ticket' = [ticket EXCEPT !.state = state, !.version = ticket.version + 1, !.runner = runner]
    BY DEF Step
  <1>4. /\ ticket' \in Tickets
        /\ ticket'.version = ticket.version + 1
        /\ ticket'.state = state /\ ticket'.runner = runner
    <2>1. ticket \in Tickets /\ ticket.version + 1 \in Nat
      BY DEF MachineOK, Tickets
    <2>2. /\ ticket'.version = ticket.version + 1
          /\ ticket'.state = state /\ ticket'.runner = runner
      BY <1>3, <2>1 DEF Tickets
    <2>3. ticket' \in Tickets
      BY <1>3, <2>1 DEF Tickets
    <2> QED
      BY <2>2, <2>3
  <1>5. /\ hist' \in Seq(Made) /\ Len(hist') = ticket.version + 1
        /\ \A v \in 1 .. ticket.version : hist'[v] = hist[v]
        /\ hist'[ticket.version + 1] = event
    BY <1>2 DEF MachineOK
  <1>6. /\ owner' \in Seq(Owners) /\ Len(owner') = ticket.version + 1
        /\ \A v \in 1 .. ticket.version : owner'[v] = owner[v]
        /\ owner'[ticket.version + 1] = [r |-> runner, l |-> leader]
    <2>1. PICK o \in Owners : o = [r |-> runner, l |-> leader]
      BY <1>1
    <2>2. owner' = Append(owner, o)
      BY <1>2, <2>1
    <2>3. /\ owner' \in Seq(Owners) /\ Len(owner') = ticket.version + 1
          /\ \A v \in 1 .. ticket.version : owner'[v] = owner[v]
          /\ owner'[ticket.version + 1] = o
      BY <2>2, AppendProperties DEF MachineOK
    <2> QED
      BY <2>1, <2>3
  <1> QED
    BY <1>4, <1>5, <1>6

\* What the Builder, publication and CI make is no row and no repair boundary,
\* and the green verdict is observed by the runner r of the leader l.
Unsigned == {"submit_valid", "operator_start", "phase_pass", "effects_confirmed", "checks_pending"}
Delivery(r, l) == {e \in Made : \/ e.trig \in Unsigned
                                \/ e.trig = "checks_green" /\ e.r = r /\ e.l = l}

LEMMA EventMade ==
    ASSUME NEW trig \in Triggers, NEW from \in Stations, NEW to \in Stations
    PROVE  /\ Event(trig, from, to) \in Made
           /\ Event(trig, from, to).trig = trig
           /\ Event(trig, from, to).from = from /\ Event(trig, from, to).to = to
  BY DEF Event, Made

LEMMA UnsignedMade ==
    ASSUME NEW r, NEW l, NEW trig \in Unsigned, NEW from \in Stations, NEW to \in Stations
    PROVE  Event(trig, from, to) \in Delivery(r, l)
  <1>1. trig \in Triggers
    BY DEF Unsigned, Triggers
  <1> QED
    BY <1>1, EventMade DEF Delivery

LEMMA GreenMade ==
    ASSUME NEW r \in Nat, NEW l \in Nat
    PROVE  [Event("checks_green", "waiting_ci", "reviewing") EXCEPT !.r = r, !.l = l]
             \in Delivery(r, l)
  <1>1. "checks_green" \in Triggers /\ "waiting_ci" \in Stations /\ "reviewing" \in Stations
    BY DEF Triggers, Stations
  <1>2. PICK e \in Made : e = Event("checks_green", "waiting_ci", "reviewing")
                          /\ e.trig = "checks_green"
    BY <1>1, EventMade
  <1> DEFINE s == [e EXCEPT !.r = r, !.l = l]
  <1>3. s \in Made /\ s.trig = e.trig /\ s.r = r /\ s.l = l
    BY DEF Made
  <1>4. s \in Delivery(r, l)
    BY <1>2, <1>3 DEF Delivery
  <1> QED
    BY <1>2, <1>4

LEMMA PassedShape ==
    ASSUME NEW pending \in BOOLEAN
    PROVE  Passed(pending) \in Seq(Delivery(1, 1)) /\ Len(Passed(pending)) >= 7
  <1> DEFINE D == Delivery(1, 1)
  <1>1. PICK g \in D :
          g = [Event("checks_green", "waiting_ci", "reviewing") EXCEPT !.r = 1, !.l = 1]
    <2>1. 1 \in Nat
      OBVIOUS
    <2> QED
      BY <2>1, GreenMade
  <1>2. /\ {"submit_valid", "operator_start", "phase_pass", "effects_confirmed",
            "checks_pending"} \subseteq Unsigned
        /\ {"none", "queued", "planning", "verifying", "building", "publishing", "waiting_ci"}
              \subseteq Stations
    BY DEF Unsigned, Stations
  <1>3. /\ Event("submit_valid", "none", "queued") \in D
        /\ Event("operator_start", "queued", "planning") \in D
        /\ Event("phase_pass", "planning", "verifying") \in D
        /\ Event("phase_pass", "verifying", "building") \in D
        /\ Event("phase_pass", "building", "publishing") \in D
        /\ Event("effects_confirmed", "publishing", "waiting_ci") \in D
        /\ Event("checks_pending", "waiting_ci", "waiting_ci") \in D
    BY <1>2, UnsignedMade
  <1> HIDE DEF D
  <1>4. PICK a \in Seq(D) :
          /\ Len(a) = 6
          /\ a = <<Event("submit_valid", "none", "queued"),
                   Event("operator_start", "queued", "planning"),
                   Event("phase_pass", "planning", "verifying"),
                   Event("phase_pass", "verifying", "building"),
                   Event("phase_pass", "building", "publishing"),
                   Event("effects_confirmed", "publishing", "waiting_ci")>>
    BY <1>3, Six
  <1>5. PICK b \in Seq(D) :
          b = IF pending THEN <<Event("checks_pending", "waiting_ci", "waiting_ci")>> ELSE <<>>
    <2>1. <<>> \in Seq(D)
      OBVIOUS
    <2> QED
      BY <1>3, <2>1, One
  <1>6. PICK c \in Seq(D) : Len(c) = 1 /\ c = <<g>>
    BY One
  <1>7. Passed(pending) = a \o b \o c
    BY <1>1, <1>4, <1>5, <1>6 DEF Passed
  <1>8. /\ a \o b \o c \in Seq(D)
        /\ Len(a \o b \o c) = Len(a) + Len(b) + Len(c)
    BY ConcatProperties
  <1>9. Len(b) \in Nat
    OBVIOUS
  <1> QED
    BY <1>4, <1>6, <1>7, <1>8, <1>9 DEF D

-----------------------------------------------------------------------------
(* The ledger grows *)

LEMMA HistGrows ==
    ASSUME MachineOK, HistOK, NEW n \in Nat, n >= 1, NEW r \in Nat, Grows(n, r), leader' = leader,
           \/ pc = "serving" /\ r = ticket.runner /\
              \A v \in ticket.version + 1 .. ticket.version + n : hist'[v].trig # "recovered"
           \/ n = 1 /\ hist'[ticket.version + 1].trig = "recovered"
    PROVE  /\ HistOK'
           /\ \A e \in Fences : Genuine(e) => Authentic(owner', ticket'.version, e)
  <1> DEFINE m == ticket.version
  <1>1. m \in Nat /\ m >= 1 /\ ticket'.version = m + n /\ ticket'.runner = r
    BY DEF MachineOK, Tickets, Grows
  <1>2. \A v \in 1 .. m : hist'[v] = hist[v] /\ owner'[v] = owner[v]
    BY DEF Grows
  <1>3. \A v \in m + 1 .. m + n :
          /\ owner'[v] = [r |-> r, l |-> leader]
          /\ hist'[v].trig \in Signed => hist'[v].r = r /\ hist'[v].l = leader
    BY DEF Grows
  <1>4. owner[m] \in Owners /\ owner[m].r = ticket.runner
    BY <1>1 DEF MachineOK, HistOK
  <1>5. pc = "serving" => owner[m] = [r |-> ticket.runner, l |-> leader]
    BY <1>1, <1>4 DEF HistOK, Owners
  <1> HIDE DEF m
  <1>6. ASSUME NEW v \in 1 .. m + n, hist'[v].trig \in Signed
        PROVE  owner'[v] = [r |-> hist'[v].r, l |-> hist'[v].l]
    <2>1. CASE v \in 1 .. m
      BY <1>2, <1>6, <2>1 DEF HistOK, m
    <2>2. CASE v \in m + 1 .. m + n
      BY <1>3, <1>6, <2>2
    <2> QED
      BY <1>1, <2>1, <2>2
  <1>7. ASSUME NEW v \in 2 .. m + n, hist'[v].trig # "recovered"
        PROVE  owner'[v] = owner'[v - 1]
    <2>1. CASE v \in 2 .. m
      <3>1. v \in 1 .. m /\ v - 1 \in 1 .. m
        BY <1>1, <2>1
      <3>2. owner[v] = owner[v - 1]
        BY <1>2, <1>7, <2>1, <3>1 DEF HistOK, m
      <3> QED
        BY <1>2, <3>1, <3>2
    <2>2. CASE v = m + 1
      <3>1. pc = "serving" /\ r = ticket.runner
        BY <1>7, <2>2 DEF m
      <3>2. owner'[m] = owner[m] /\ v - 1 = m
        BY <1>1, <1>2, <2>2
      <3>3. owner'[m + 1] = [r |-> r, l |-> leader]
        BY <1>1, <1>3
      <3> QED
        BY <1>5, <2>2, <3>1, <3>2, <3>3
    <2>3. CASE v \in m + 2 .. m + n
      <3>1. v \in m + 1 .. m + n /\ v - 1 \in m + 1 .. m + n
        BY <1>1, <2>3
      <3> QED
        BY <1>3, <3>1
    <2> QED
      BY <1>1, <2>1, <2>2, <2>3
  <1>8. owner'[m + n] = [r |-> r, l |-> leader]
    BY <1>1, <1>3
  <1>9. HistOK'
    BY <1>1, <1>6, <1>7, <1>8 DEF HistOK
  <1>10. ASSUME NEW e \in Fences, Genuine(e)
         PROVE  Authentic(owner', ticket'.version, e)
    BY <1>1, <1>2, <1>10 DEF Genuine, Authentic, m
  <1> QED
    BY <1>9, <1>10

LEMMA StepGrows ==
    ASSUME MachineOK, NEW event \in Made, NEW state \in Stations, NEW runner \in Nat,
           Step(event, state, runner),
           event.trig \in Signed => event.r = runner /\ event.l = leader
    PROVE  /\ Grows(1, runner) /\ ticket'.state = state
           /\ \A v \in ticket.version + 1 .. ticket.version + 1 : hist'[v] = event
  <1>1. ticket.version \in Nat
    BY DEF MachineOK, Tickets
  <1>2. /\ ticket' \in Tickets /\ hist' \in Seq(Made) /\ owner' \in Seq(Owners)
        /\ ticket'.version = ticket.version + 1
        /\ ticket'.state = state /\ ticket'.runner = runner
        /\ Len(hist') = ticket'.version /\ Len(owner') = ticket'.version
        /\ \A v \in 1 .. ticket.version : hist'[v] = hist[v] /\ owner'[v] = owner[v]
        /\ hist'[ticket.version + 1] = event
        /\ owner'[ticket.version + 1] = [r |-> runner, l |-> leader]
    BY StepShape
  <1>3. \A v \in ticket.version + 1 .. ticket.version + 1 : v = ticket.version + 1
    BY <1>1
  <1> QED
    BY <1>2, <1>3 DEF Grows

LEMMA MoveGrows ==
    ASSUME MachineOK, NEW trig \in Triggers \ Signed, NEW to \in Stations, Move(trig, to)
    PROVE  /\ Grows(1, ticket.runner) /\ ticket'.state = to
           /\ \A v \in ticket.version + 1 .. ticket.version + 1 : hist'[v].trig = trig
  <1>1. ticket.state \in Stations /\ ticket.runner \in Nat
    BY DEF MachineOK, Tickets
  <1>2. PICK e \in Made : e = Event(trig, ticket.state, to) /\ e.trig = trig
    BY <1>1, EventMade
  <1>3. Step(e, to, ticket.runner)
    BY <1>2 DEF Move
  <1> QED
    BY <1>1, <1>2, <1>3, StepGrows

\* What is built, published and checked again belongs to the runner that did it.
LEMMA RedeliveredGrows ==
    ASSUME MachineOK, Redelivered
    PROVE  /\ ticket'.state = "reviewing"
           /\ \E n \in Nat : /\ n >= 1 /\ Grows(n, ticket.runner)
                             /\ \A v \in ticket.version + 1 .. ticket.version + n :
                                   hist'[v].trig # "recovered"
  <1> DEFINE r == ticket.runner
             D == Delivery(r, leader)
             m == ticket.version
  <1>1. r \in Nat /\ leader \in Nat /\ m \in Nat /\ m >= 1 /\ ticket \in Tickets
    BY DEF MachineOK, Tickets
  <1>2. PICK g \in D :
          g = [Event("checks_green", "waiting_ci", "reviewing") EXCEPT !.r = r, !.l = leader]
    BY <1>1, GreenMade
  <1>3. /\ {"phase_pass", "effects_confirmed"} \subseteq Unsigned
        /\ {"verifying", "building", "publishing", "waiting_ci"} \subseteq Stations
    BY DEF Unsigned, Stations
  <1>4. /\ Event("phase_pass", "verifying", "building") \in D
        /\ Event("phase_pass", "building", "publishing") \in D
        /\ Event("effects_confirmed", "publishing", "waiting_ci") \in D
    BY <1>3, UnsignedMade
  <1> HIDE DEF D
  <1>5. PICK b \in Seq(D) :
          b = IF ticket.state = "verifying" THEN <<Event("phase_pass", "verifying", "building")>>
              ELSE <<>>
    <2>1. <<>> \in Seq(D)
      OBVIOUS
    <2> QED
      BY <1>4, <2>1, One
  <1>6. PICK c \in Seq(D) : /\ Len(c) = 3
                            /\ c = <<Event("phase_pass", "building", "publishing"),
                                     Event("effects_confirmed", "publishing", "waiting_ci"), g>>
    BY <1>4, Three
  <1>7. PICK made \in Seq(D) : made = b \o c /\ Len(made) = Len(b) + 3
    <2>1. b \o c \in Seq(D) /\ Len(b \o c) = Len(b) + Len(c)
      BY Joined
    <2> QED
      BY <1>6, <2>1
  <1>8. /\ hist' = hist \o made
        /\ owner' = owner \o [i \in DOMAIN made |-> [r |-> r, l |-> leader]]
        /\ ticket' = [ticket EXCEPT !.state = "reviewing", !.version = @ + Len(made)]
    BY <1>2, <1>5, <1>6, <1>7 DEF Redelivered
  <1> DEFINE n == Len(made)
  <1>9. n \in Nat /\ n >= 1
    <2>1. Len(b) \in Nat
      OBVIOUS
    <2> QED
      BY <1>7, <2>1
  <1>10. made \in Seq(Made) /\ \A i \in 1 .. n : made[i] \in D
    <2>1. D \subseteq Made
      BY DEF D, Delivery
    <2> QED
      BY <2>1, SeqMonotonic
  <1>11. PICK o \in Owners : o = [r |-> r, l |-> leader]
    BY <1>1 DEF Owners
  <1>12. PICK w \in Seq(Owners) : Len(w) = n /\ w = [i \in DOMAIN made |-> o]
                                  /\ \A i \in 1 .. n : w[i] = o
    <2>1. [i \in DOMAIN made |-> o] = [i \in 1 .. n |-> o]
      OBVIOUS
    <2>2. [i \in 1 .. n |-> o] \in Seq(Owners) /\ Len([i \in 1 .. n |-> o]) = n
      BY <1>9, Repeated
    <2>3. \A i \in 1 .. n : [j \in 1 .. n |-> o][i] = o
      OBVIOUS
    <2> QED
      BY <2>1, <2>2, <2>3
  <1>13. /\ hist' \in Seq(Made) /\ Len(hist') = m + n
         /\ \A v \in 1 .. m : hist'[v] = hist[v]
         /\ \A v \in m + 1 .. m + n : hist'[v] = made[v - m]
    <2>1. hist \in Seq(Made) /\ Len(hist) = m
      BY DEF MachineOK
    <2>3. Len(made) = n
      OBVIOUS
    <2>4. /\ hist \o made \in Seq(Made) /\ Len(hist \o made) = Len(hist) + Len(made)
          /\ \A v \in 1 .. Len(hist) : (hist \o made)[v] = hist[v]
          /\ \A v \in Len(hist) + 1 .. Len(hist) + Len(made) :
                (hist \o made)[v] = made[v - Len(hist)]
      <3>1. made \in Seq(Made)
        BY <1>10
      <3> HIDE DEF m, n
      <3> QED
        BY <2>1, <3>1, Joined
    <2> QED
      BY <1>8, <2>1, <2>3, <2>4
  <1>14. /\ owner' \in Seq(Owners) /\ Len(owner') = m + n
         /\ \A v \in 1 .. m : owner'[v] = owner[v]
         /\ \A v \in m + 1 .. m + n : owner'[v] = w[v - m]
    <2>1. owner \in Seq(Owners) /\ Len(owner) = m
      BY DEF MachineOK
    <2>2. owner' = owner \o w
      BY <1>8, <1>11, <1>12
    <2>3. Len(w) = n
      BY <1>12
    <2>4. /\ owner \o w \in Seq(Owners) /\ Len(owner \o w) = Len(owner) + Len(w)
          /\ \A v \in 1 .. Len(owner) : (owner \o w)[v] = owner[v]
          /\ \A v \in Len(owner) + 1 .. Len(owner) + Len(w) :
                (owner \o w)[v] = w[v - Len(owner)]
      <3> HIDE DEF m, n
      <3> QED
        BY <2>1, Joined
    <2> QED
      BY <2>1, <2>2, <2>3, <2>4
  <1>15. /\ ticket' \in Tickets /\ ticket'.version = m + n /\ ticket'.runner = r
         /\ ticket'.state = "reviewing"
    <2>1. m + n \in Nat /\ "reviewing" \in Stations
      BY <1>1, <1>9 DEF Stations
    <2> QED
      BY <1>1, <1>8, <2>1 DEF Tickets
  <1>16. \A v \in m + 1 .. m + n : v - m \in 1 .. n
    BY <1>1, <1>9
  <1>17. \A e \in D : /\ e.trig # "recovered"
                      /\ e.trig \in Signed => e.r = r /\ e.l = leader
    BY DEF D, Delivery, Unsigned, Signed
  <1>18. Grows(n, r)
    BY <1>10, <1>11, <1>12, <1>13, <1>14, <1>15, <1>16, <1>17 DEF Grows
  <1> QED
    BY <1>9, <1>10, <1>13, <1>15, <1>16, <1>17, <1>18

-----------------------------------------------------------------------------
(* What the startup fence reads *)

\* An endpoint that a validator returns: none, or a fence whose leader really
\* held its version.
EndpointOK(e) == e \in Fences /\ (e = NoFence \/ Genuine(e))

\* A witness names the owner of the live version, or refuses.
Held(W) == \A l \in W : l \in Nat /\ (l # 0 => l = owner[ticket.version].l)

LEMMA Domains ==
    ASSUME MachineOK
    PROVE  /\ DOMAIN hist = 1 .. ticket.version /\ ticket.version \in Nat
           /\ ticket.version >= 1 /\ ticket.runner \in Nat /\ leader \in Nat
           /\ \A v \in 1 .. ticket.version : hist[v] \in Made /\ owner[v] \in Owners
  BY DEF MachineOK, Tickets

LEMMA FenceMade ==
    ASSUME NEW v \in Nat, NEW r \in Nat, NEW l \in Nat
    PROVE  Fence(v, r, l) \in Fences /\ Fence(v, r, l).v = v /\ Fence(v, r, l).l = l
           /\ Fence(v, r, l).r = r
  BY DEF Fence, Fences

LEMMA AtIs ==
    ASSUME MachineOK, HistOK, NEW v \in 1 .. ticket.version, hist[v].trig \in Signed
    PROVE  At(v) \in Fences /\ At(v).v = v /\ Genuine(At(v))
  <1>1. hist[v] \in Made /\ v \in Nat
    BY Domains
  <1>2. hist[v].r \in Nat /\ hist[v].l \in Nat
    BY <1>1 DEF Made
  <1>3. owner[v].l = hist[v].l
    <2>1. owner[v] = [r |-> hist[v].r, l |-> hist[v].l]
      BY DEF HistOK
    <2> QED
      BY <2>1
  <1>4. At(v) \in Fences /\ At(v).v = v /\ At(v).l = hist[v].l
    BY <1>1, <1>2 DEF At, Fence, Fences
  <1> QED
    BY <1>3, <1>4 DEF Genuine, Authentic

LEMMA LastIs ==
    ASSUME MachineOK, NEW trig
    PROVE  /\ Last(trig) \in 0 .. ticket.version
           /\ Last(trig) # 0 => hist[Last(trig)].trig = trig
  <1> DEFINE n == ticket.version
             S == {0} \union {v \in DOMAIN hist : hist[v].trig = trig}
  <1>1. n \in Nat /\ S \in SUBSET (0 .. n) /\ S # {}
    BY Domains
  <1>2. Newest(S) \in S
    <2> HIDE DEF n, S
    <2> QED
      BY <1>1, NewestIs
  <1> QED
    BY <1>1, <1>2 DEF Last

LEMMA LatestIs ==
    ASSUME MachineOK
    PROVE  /\ Rows # {} => LatestRow \in 1 .. ticket.version /\ hist[LatestRow].trig = "recovered"
           /\ Rows = {} => LatestRow = 0
  <1> DEFINE n == ticket.version
  <1>1. n \in Nat /\ Rows \in SUBSET (0 .. n)
    BY Domains DEF Rows
  <1>2. Rows # {} => Newest(Rows) \in Rows
    <2> HIDE DEF n
    <2> QED
      BY <1>1, NewestIs
  <1> QED
    BY <1>2, Domains DEF LatestRow, Rows, Recovered

\* Recovery rows lead from a genuine fence to a genuine one.
LEMMA Reached ==
    ASSUME MachineOK, HistOK, NEW s \in Fences, NEW e \in Fences,
           Genuine(s), Reaches(s, e), e.v <= ticket.version
    PROVE  Genuine(e)
  <1>1. normalRecoveryLeaderAt(s, e.v, e.r) = e.l /\ e.l # 0
    BY DEF Reaches
  <1>2. /\ s.v > 0 /\ e.v >= s.v
        /\ \A w \in s.v + 1 .. e.v : Recovered(w)
        /\ e.l = IF e.v = s.v THEN s.l ELSE hist[e.v].l
    BY <1>1 DEF normalRecoveryLeaderAt
  <1>3. e.v \in 1 .. ticket.version /\ e.v \in Nat /\ s.v \in Nat
    BY <1>2, Domains DEF Fences
  <1>4. CASE e.v = s.v
    BY <1>2, <1>3, <1>4 DEF Genuine, Authentic
  <1>5. CASE e.v # s.v
    <2>1. e.v \in s.v + 1 .. e.v
      BY <1>2, <1>3, <1>5
    <2>2. hist[e.v].trig = "recovered"
      BY <1>2, <2>1 DEF Recovered
    <2>3. owner[e.v].l = hist[e.v].l
      <3>1. PICK k \in 1 .. ticket.version : k = e.v
        BY <1>3
      <3>2. hist[k].trig \in Signed
        BY <2>2, <3>1 DEF Signed
      <3>3. owner[k] = [r |-> hist[k].r, l |-> hist[k].l]
        BY <3>2 DEF HistOK
      <3> QED
        BY <3>1, <3>3
    <2> QED
      BY <1>2, <1>3, <1>5, <2>3 DEF Genuine, Authentic
  <1> QED
    BY <1>4, <1>5

\* Nothing is reached from no fence, and nothing below the start.
LEMMA ReachesFrom ==
    ASSUME NEW s \in Fences, NEW e \in Fences, Reaches(s, e)
    PROVE  s # NoFence /\ s.v > 0 /\ s.v <= e.v /\ e.v \in Nat /\ e.v > 0
  <1>1. s.v > 0 /\ e.v >= s.v
    BY DEF Reaches, normalRecoveryLeaderAt
  <1>2. s.v \in Nat /\ e.v \in Nat
    BY DEF Fences
  <1> QED
    BY <1>1, <1>2 DEF NoFence, Fence

\* An event that records no fence leaves the owner as it was.
LEMMA SameOwner ==
    ASSUME MachineOK, HistOK, NEW v \in 2 .. ticket.version, hist[v].trig # "recovered",
           NEW e \in Fences, Genuine(e), e.v = v - 1
    PROVE  Fence(v, e.r, e.l) \in Fences /\ Genuine(Fence(v, e.r, e.l))
  <1>1. owner[v] = owner[v - 1]
    BY DEF HistOK
  <1>2. e.r \in Nat /\ e.l \in Nat /\ v \in Nat
    BY Domains DEF Fences
  <1>3. Fence(v, e.r, e.l) \in Fences /\ Fence(v, e.r, e.l).v = v /\ Fence(v, e.r, e.l).l = e.l
    BY <1>2 DEF Fence, Fences
  <1>4. v \in 1 .. ticket.version
    BY Domains
  <1> QED
    BY <1>1, <1>3, <1>4 DEF Genuine, Authentic

LEMMA NoFenceOK == EndpointOK(NoFence)
  BY FenceMade DEF EndpointOK, NoFence

LEMMA GreenIs ==
    ASSUME MachineOK, HistOK
    PROVE  EndpointOK(Green)
  <1> DEFINE g == Last("checks_green")
             w == Last("effects_confirmed")
  <1>1. g \in 0 .. ticket.version /\ w \in 0 .. ticket.version
        /\ (g # 0 => hist[g].trig = "checks_green")
    BY LastIs
  <1>2. CASE finalReviewCIPendingChain(w, g)
    <2>1. g \in 1 .. ticket.version
      BY <1>1, <1>2, Domains DEF finalReviewCIPendingChain
    <2>2. hist[g].trig \in Signed
      BY <1>1, <2>1 DEF Signed
    <2>3. Green = At(g)
      BY <1>2 DEF Green
    <2> QED
      BY <2>1, <2>2, <2>3, AtIs DEF EndpointOK
  <1>3. CASE ~finalReviewCIPendingChain(w, g)
    BY <1>3, NoFenceOK DEF Green
  <1> QED
    BY <1>2, <1>3

\* The endpoint of the final review: the version after the one that the review
\* or the last row before it owned.
LEMMA CompletionIs ==
    ASSUME MachineOK, HistOK, RestOK, Cited, NEW w \in 1 .. ticket.version,
           hist[w].trig = "review_pass"
    PROVE  EndpointOK(reviewCompletionRecoveryEndpoint(w))
  <1> DEFINE e == IF result.f.v = w - 1 THEN result.f
                  ELSE IF Recovered(w - 1) THEN At(w - 1) ELSE NoFence
  <1>1. result.f \in Fences /\ w \in Nat /\ w >= 1
    BY Domains DEF RestOK, Results
  <1>2. Recovered(w - 1) => /\ w - 1 \in 1 .. ticket.version
                            /\ hist[w - 1].trig \in Signed
    BY Domains DEF Recovered, Signed
  <1>3. Recovered(w - 1) => At(w - 1) \in Fences /\ At(w - 1).v = w - 1 /\ Genuine(At(w - 1))
    BY <1>2, AtIs
  <1>4. e \in Fences
    BY <1>1, <1>3, NoFenceOK DEF EndpointOK
  <1>5. CASE Reaches(result.f, e) /\ Reaches(Green, e)
    <2>1. result.f.v > 0 /\ result.f \in Fences /\ e.v > 0 /\ e.v \in Nat
      BY <1>1, <1>4, <1>5, ReachesFrom
    <2>2. result # NoResult /\ e # NoFence
      BY <2>1 DEF NoResult, NoFence, Fence
    <2>3. e.v = w - 1
      BY <1>3, <2>2
    <2>4. Genuine(e)
      BY <1>3, <2>2 DEF Cited
    <2>5. w \in 2 .. ticket.version /\ hist[w].trig # "recovered"
      BY <1>1, <2>1, <2>3, Domains
    <2>6. Fence(w, e.r, e.l) \in Fences /\ Genuine(Fence(w, e.r, e.l))
      <3> HIDE DEF e
      <3> QED
        BY <1>4, <2>3, <2>4, <2>5, SameOwner
    <2> QED
      BY <1>5, <2>6 DEF reviewCompletionRecoveryEndpoint, EndpointOK
  <1>6. CASE ~(Reaches(result.f, e) /\ Reaches(Green, e))
    BY <1>6, NoFenceOK DEF reviewCompletionRecoveryEndpoint
  <1> QED
    BY <1>5, <1>6

LEMMA FinalIs ==
    ASSUME MachineOK, HistOK, RestOK, Cited, NEW st
    PROVE  EndpointOK(finalReviewRecoveryEndpoint(st))
  <1> DEFINE w == Last("review_pass")
  <1>1. w \in 0 .. ticket.version /\ (w # 0 => hist[w].trig = "review_pass")
    BY LastIs
  <1>2. CASE w > 0 /\ hist[w].to = st /\ result.verdict = "pass" /\ result.gen = gen
    <2>1. w \in 1 .. ticket.version /\ hist[w].trig = "review_pass"
      BY <1>1, <1>2, Domains
    <2>2. EndpointOK(reviewCompletionRecoveryEndpoint(w))
      <3> HIDE DEF w
      <3> QED
        BY <2>1, CompletionIs
    <2> QED
      BY <1>2, <2>2 DEF finalReviewRecoveryEndpoint
  <1>3. CASE ~(w > 0 /\ hist[w].to = st /\ result.verdict = "pass" /\ result.gen = gen)
    BY <1>3, NoFenceOK DEF finalReviewRecoveryEndpoint
  <1> QED
    BY <1>2, <1>3

\* The endpoint of the operator's decision: the version after the approved one.
LEMMA ApprovalIs ==
    ASSUME MachineOK, HistOK, RestOK, Cited
    PROVE  EndpointOK(approvalRecoveryEndpoint)
  <1> DEFINE w  == finalReviewRecoveryEndpoint("waiting_approval")
             d  == Last("operator_approved")
             a  == d - 1
             ws == {e \in {w, Fence(a, intent.f.r, intent.f.l)} :
                      e.v = a /\ (e # w => intent.f.v = a + 1)}
                   \union (IF Recovered(a) THEN {At(a)} ELSE {})
             good == /\ w # NoFence /\ d > w.v
                     /\ intent # NoClaim => intent.f.v > a
                     /\ Cardinality(ws) = 1 /\ \A e \in ws : Reaches(w, e)
  <1>1. EndpointOK(w)
    BY FinalIs
  <1>2. d \in 0 .. ticket.version /\ (d # 0 => hist[d].trig = "operator_approved")
    BY LastIs
  <1>3. approvalRecoveryEndpoint
          = IF good THEN CHOOSE e \in {Fence(a + 1, x.r, x.l) : x \in ws} : TRUE ELSE NoFence
    BY DEF approvalRecoveryEndpoint
  <1> HIDE DEF w, d
  <1>4. CASE good
    <2>1. w \in Fences /\ Genuine(w) /\ w.v \in Nat /\ w.v >= 1
      BY <1>1, <1>4, Domains DEF EndpointOK, Fences, Genuine, Authentic
    <2>2. d \in 2 .. ticket.version /\ a \in 1 .. ticket.version /\ a \in Nat /\ a + 1 = d
      BY <1>2, <1>4, <2>1, Domains
    <2>3. hist[d].trig # "recovered"
      BY <1>2, <2>2
    <2>4. ASSUME NEW x \in ws
          PROVE  x \in Fences /\ x.v = a
      <3>1. CASE x = At(a) /\ Recovered(a)
        BY <2>2, <3>1, AtIs DEF Recovered, Signed
      <3>2. CASE x \in {w, Fence(a, intent.f.r, intent.f.l)} /\ x.v = a
        <4>1. intent.f.r \in Nat /\ intent.f.l \in Nat
          BY DEF RestOK, Claims, Fences
        <4>2. Fence(a, intent.f.r, intent.f.l) \in Fences
          BY <2>2, <4>1 DEF Fence, Fences
        <4> QED
          BY <2>1, <3>2, <4>2
      <3> QED
        BY <3>1, <3>2
    <2>5. ASSUME NEW x \in ws
          PROVE  Fence(a + 1, x.r, x.l) \in Fences /\ Genuine(Fence(a + 1, x.r, x.l))
      <3>1. x \in Fences /\ x.v = a /\ Reaches(w, x)
        BY <1>4, <2>4
      <3>2. x.v <= ticket.version
        BY <2>2, <3>1, Domains
      <3>3. Genuine(x)
        BY <2>1, <3>1, <3>2, Reached
      <3>4. x.v = d - 1
        BY <3>1
      <3>5. Fence(d, x.r, x.l) \in Fences /\ Genuine(Fence(d, x.r, x.l))
        BY <2>2, <2>3, <3>1, <3>3, <3>4, SameOwner
      <3> QED
        BY <2>2, <3>5
    <2>6. \E x \in ws : TRUE
      <3>1. Cardinality({}) = 0
        BY FS_EmptySet
      <3>2. ws # {}
        BY <1>4, <3>1
      <3> QED
        BY <3>2
    <2>7. approvalRecoveryEndpoint \in {Fence(a + 1, x.r, x.l) : x \in ws}
      BY <1>3, <1>4, <2>6
    <2> QED
      BY <2>5, <2>7 DEF EndpointOK
  <1>5. CASE ~good
    BY <1>3, <1>5, NoFenceOK
  <1> QED
    BY <1>4, <1>5

LEMMA LeaderAtIs ==
    ASSUME MachineOK, HistOK, NEW e, EndpointOK(e)
    PROVE  Held(LeaderAt(e)) /\ LeaderAt(e) # {}
  <1> DEFINE v == ticket.version
             l == normalRecoveryLeaderAt(e, v, ticket.runner)
  <1>1. LeaderAt(e) = IF Older(l) THEN {l} ELSE {0}
    BY DEF LeaderAt, Refuse
  <1>2. ASSUME Older(l)
        PROVE  l \in Nat /\ l = owner[v].l
    <2>1. /\ e.v > 0 /\ v >= e.v
          /\ \A w \in e.v + 1 .. v : Recovered(w)
          /\ l = IF v = e.v THEN e.l ELSE hist[v].l
      BY <1>2 DEF Older, normalRecoveryLeaderAt
    <2>2. e \in Fences /\ Genuine(e)
      BY <1>1, <2>1 DEF EndpointOK, NoFence, Fence
    <2>3. e.v \in Nat /\ v \in Nat /\ e.l \in Nat
      BY <2>2, Domains DEF Fences
    <2>4. CASE v = e.v
      BY <2>1, <2>2, <2>3, <2>4 DEF Genuine, Authentic
    <2>5. CASE v # e.v
      <3>1. v \in e.v + 1 .. v
        BY <2>1, <2>3, <2>5
      <3>2. Recovered(v)
        BY <2>1, <3>1
      <3>3. v \in 1 .. ticket.version /\ hist[v].trig \in Signed
        BY <3>2, Domains DEF Recovered, Signed
      <3>4. owner[v] = [r |-> hist[v].r, l |-> hist[v].l]
        BY <3>3 DEF HistOK
      <3>5. hist[v].l \in Nat
        BY <3>3, Domains DEF Made
      <3> QED
        BY <2>1, <2>5, <3>4, <3>5
    <2> QED
      BY <2>4, <2>5
  <1> QED
    BY <1>1, <1>2 DEF Held

\* The live version itself is a row.
LEMMA ExactIs ==
    ASSUME MachineOK, HistOK, ExactRow
    PROVE  hist[LatestRow].l \in Nat /\ hist[LatestRow].l = owner[ticket.version].l
  <1>1. PICK v \in 1 .. ticket.version : v = LatestRow /\ hist[v].trig = "recovered"
                                         /\ v = ticket.version
    BY LatestIs DEF ExactRow
  <1>2. owner[v] = [r |-> hist[v].r, l |-> hist[v].l]
    BY <1>1 DEF HistOK, Signed
  <1>3. hist[v].l \in Nat
    BY Domains DEF Made
  <1> QED
    BY <1>1, <1>2, <1>3

LEMMA ExactHeld ==
    ASSUME MachineOK, HistOK
    PROVE  Held(Exact)
  BY ExactIs DEF Exact, Witness, Refuse, Held

LEMMA ReviewHeld ==
    ASSUME MachineOK, HistOK, RestOK, Cited
    PROVE  Held(ReviewBaseline)
  <1> DEFINE l == IF ExactRow THEN hist[LatestRow].l ELSE result.f.l
  <1>1. ReviewBaseline \in {{}, {0}, {l}}
    BY DEF ReviewBaseline, Refuse
  <1>2. ASSUME ReviewBaseline = {l}, l # 0
        PROVE  l \in Nat /\ l = owner[ticket.version].l
    <2>1. /\ result # NoResult /\ Reaches(result.f, Preceding(l))
          /\ ExactRow \/ (result.f.r = ticket.runner /\ ticket.version - result.f.v <= 1)
      BY <1>2 DEF ReviewBaseline, Refuse
    <2>2. result.f \in Fences /\ Genuine(result.f)
      BY <2>1 DEF RestOK, Results, Cited
    <2>3. CASE ExactRow
      BY <2>3, ExactIs
    <2>4. CASE ~ExactRow
      <3>1. l = result.f.l /\ l \in Nat
        BY <2>2, <2>4 DEF Fences
      <3>2. Preceding(l) \in Fences /\ Preceding(l).v = ticket.version /\ Preceding(l).l = l
        BY <3>1, Domains DEF Preceding, Fence, Fences
      <3>3. Genuine(Preceding(l))
        <4> HIDE DEF l
        <4> QED
          BY <2>1, <2>2, <3>2, Reached, Domains
      <3> QED
        BY <3>1, <3>2, <3>3 DEF Genuine, Authentic
    <2> QED
      BY <2>3, <2>4
  <1> QED
    BY <1>1, <1>2 DEF Held

LEMMA BoundaryHeld ==
    ASSUME MachineOK, HistOK
    PROVE  Held(RepairBoundary) /\ RepairBoundary # {}
  <1> DEFINE v == ticket.version
  <1>1. v \in 1 .. ticket.version /\ hist[v].l \in Nat
    BY Domains DEF Made
  <1>2. hist[v].trig = "review_repair" => owner[v] = [r |-> hist[v].r, l |-> hist[v].l]
    BY <1>1 DEF HistOK, Signed
  <1> QED
    BY <1>1, <1>2 DEF RepairBoundary, Refuse, Held

LEMMA MergingHeld ==
    ASSUME MachineOK, HistOK, RestOK, Cited
    PROVE  Held(MergingPrior) /\ MergingPrior # {}
  <1>1. Held(LeaderAt(approvalRecoveryEndpoint)) /\ LeaderAt(approvalRecoveryEndpoint) # {}
    BY ApprovalIs, LeaderAtIs
  <1>2. MergingPrior \in {LeaderAt(approvalRecoveryEndpoint), {0}}
    BY DEF MergingPrior, Refuse
  <1> QED
    BY <1>1, <1>2 DEF Held

\* The merge that was confirmed: recovery rows lead from the approval to the
\* intent and on to the fence of the confirmation.
LEMMA ConfirmedIs ==
    ASSUME MachineOK, HistOK, RestOK, Cited,
           confirmedMergeRecoveryEndpoint # NoFence,
           confirmedMergeRecoveryEndpoint.v <= ticket.version
    PROVE  confirmedMergeRecoveryEndpoint \in Fences /\ Genuine(confirmedMergeRecoveryEndpoint)
  <1> DEFINE c == confirmedMergeRecoveryEndpoint
  <1>1. /\ c = eff["merge"].f
        /\ Reaches(approvalRecoveryEndpoint, intent.f) /\ Reaches(intent.f, c)
    BY DEF confirmedMergeRecoveryEndpoint
  <1>2. intent.f \in Fences /\ c \in Fences
    BY <1>1 DEF RestOK, Claims, Effects, Kinds
  <1> HIDE DEF c
  <1>3. approvalRecoveryEndpoint \in Fences /\ Genuine(approvalRecoveryEndpoint)
    BY <1>1, <1>2, ApprovalIs, ReachesFrom DEF EndpointOK
  <1>4. intent.f.v <= c.v /\ c.v \in Nat /\ intent.f.v \in Nat
    BY <1>1, <1>2, ReachesFrom DEF Fences
  <1>5. intent.f.v <= ticket.version /\ c.v <= ticket.version
    BY <1>4, Domains DEF c
  <1>6. Genuine(intent.f)
    BY <1>1, <1>2, <1>3, <1>5, Reached
  <1> QED
    BY <1>1, <1>2, <1>5, <1>6, Reached DEF c

LEMMA ReconcilingHeld ==
    ASSUME MachineOK, HistOK, RestOK, Cited
    PROVE  Held(ReconcilingPrior) /\ ReconcilingPrior # {}
  <1> DEFINE c == confirmedMergeRecoveryEndpoint
             e == Fence(manual.f.v + 1, manual.f.r, manual.f.l)
             d == Fence(c.v + 1, c.r, c.l)
  <1>1. CASE manual.base # Unseen
    <2>1. e \in Fences /\ Genuine(e)
      <3>1. manual.f \in Fences
        BY DEF RestOK
      <3>2. manual.f.v + 1 \in Nat /\ manual.f.r \in Nat /\ manual.f.l \in Nat
        BY <3>1 DEF Fences
      <3> QED
        BY <1>1, <3>2, FenceMade DEF Cited
    <2>2. ReconcilingPrior = LeaderAt(e)
      BY <1>1 DEF ReconcilingPrior
    <2> QED
      BY <2>1, <2>2, LeaderAtIs DEF EndpointOK
  <1>2. CASE /\ manual.base = Unseen /\ c # NoFence
             /\ Is(c.v + 1, "merge_observed", "merging", "reconciling")
    <2>1. c.v + 1 \in 1 .. ticket.version /\ hist[c.v + 1].trig = "merge_observed"
      BY <1>2, Domains DEF Is
    <2>2. c \in Fences
      BY <1>2 DEF RestOK, Effects, Kinds, confirmedMergeRecoveryEndpoint
    <2>3. c.v \in Nat /\ c.v <= ticket.version
      BY <2>1, <2>2, Domains DEF Fences
    <2>4. Genuine(c)
      BY <1>2, <2>3, ConfirmedIs
    <2> HIDE DEF c
    <2>5. PICK k \in 2 .. ticket.version : k = c.v + 1 /\ hist[k].trig # "recovered"
      <3>1. c.v >= 1
        BY <2>4, Domains DEF Genuine, Authentic
      <3> QED
        BY <2>1, <2>3, <3>1, Domains
    <2>6. c.v = k - 1
      BY <2>3, <2>5
    <2>7. Fence(k, c.r, c.l) \in Fences /\ Genuine(Fence(k, c.r, c.l))
      BY <2>2, <2>4, <2>5, <2>6, SameOwner
    <2>8. ReconcilingPrior = LeaderAt(Fence(k, c.r, c.l))
      BY <1>2, <2>5 DEF ReconcilingPrior, c
    <2> QED
      BY <2>7, <2>8, LeaderAtIs DEF EndpointOK
  <1>3. CASE /\ manual.base = Unseen
             /\ ~(c # NoFence /\ Is(c.v + 1, "merge_observed", "merging", "reconciling"))
    BY <1>3 DEF ReconcilingPrior, Refuse, Held
  <1> QED
    BY <1>1, <1>2, <1>3

\* The first witness that applies is one of them, when the last always applies.
LEMMA FirstIs ==
    ASSUME NEW ws, NEW n \in Nat, n >= 1, DOMAIN ws = 1 .. n, ws[n] # {},
           \A i \in 1 .. n : Held(ws[i])
    PROVE  First(ws) \in Nat /\ (First(ws) # 0 => First(ws) = owner[ticket.version].l)
  <1> DEFINE K == {i \in 1 .. n : ws[i] # {}}
             good(i) == ws[i] # {} /\ \A j \in 1 .. i - 1 : ws[j] = {}
  <1>1. \E i \in 1 .. n : good(i)
    \* the least index: the greatest of its distances to n
    <2> DEFINE D == {d \in 0 .. n : n - d \in K}
    <2>1. D \in SUBSET (0 .. n) /\ 0 \in D
      OBVIOUS
    <2>2. PICK d \in D : \A y \in D : y <= d
      <3> HIDE DEF D
      <3> QED
        BY <2>1, NewestIs
    <2>3. d \in 0 .. n /\ n - d \in 1 .. n /\ ws[n - d] # {}
      OBVIOUS
    <2>4. ASSUME NEW j \in 1 .. (n - d) - 1, ws[j] # {} PROVE FALSE
      <3>1. j \in 1 .. n /\ n - j \in 0 .. n /\ n - (n - j) = j /\ n - j > d
        BY <2>3
      <3>2. n - j \in D
        BY <2>4, <3>1
      <3>3. n - j <= d
        BY <2>2, <3>2
      <3> QED
        BY <2>3, <3>1, <3>3
    <2> QED
      BY <2>3, <2>4
  <1>2. PICK k \in 1 .. n : /\ k = CHOOSE i \in 1 .. n : good(i)
                            /\ good(k)
    <2> HIDE DEF good
    <2> QED
      BY <1>1
  <1>3. First(ws) = CHOOSE l \in ws[k] : TRUE
    BY <1>2 DEF First
  <1>4. First(ws) \in ws[k]
    BY <1>2, <1>3
  <1> QED
    BY <1>2, <1>4 DEF Held

\* The startup fence names the owner of the live version, or refuses.
LEMMA PriorIs ==
    ASSUME MachineOK, HistOK, RestOK, Cited, ticket.state \notin Ended
    PROVE  PriorLeader \in Nat /\ (PriorLeader # 0 => PriorLeader = owner[ticket.version].l)
  <1>1. CASE ticket.state = "reviewing"
    <2> DEFINE ws == <<ReviewBaseline, Exact, LeaderAt(Green)>>
    <2>1. Held(LeaderAt(Green)) /\ LeaderAt(Green) # {}
      BY GreenIs, LeaderAtIs
    <2>2. Held(ReviewBaseline) /\ Held(Exact)
      BY ReviewHeld, ExactHeld
    <2>3. DOMAIN ws = 1 .. 3 /\ ws[3] # {} /\ \A i \in 1 .. 3 : Held(ws[i])
      BY <2>1, <2>2
    <2>4. PriorLeader = First(ws)
      BY <1>1 DEF PriorLeader, Waits
    <2> HIDE DEF ws
    <2>9. First(ws) \in Nat /\ (First(ws) # 0 => First(ws) = owner[ticket.version].l)
      BY <2>3, 3 \in Nat, 3 >= 1, FirstIs, Zenon
    <2> QED
      BY <2>4, <2>9
  <1>2. CASE ticket.state \in {"building", "verifying"}
    <2> DEFINE ws == <<RepairBoundary>>
    <2>1. DOMAIN ws = 1 .. 1 /\ ws[1] # {} /\ \A i \in 1 .. 1 : Held(ws[i])
      BY BoundaryHeld
    <2>2. PriorLeader = First(ws)
      BY <1>2 DEF PriorLeader, Waits
    <2> HIDE DEF ws
    <2>9. First(ws) \in Nat /\ (First(ws) # 0 => First(ws) = owner[ticket.version].l)
      BY <2>1, 1 \in Nat, 1 >= 1, FirstIs, Zenon
    <2> QED
      BY <2>2, <2>9
  <1>3. CASE ticket.state \in Waits
    <2> DEFINE e == finalReviewRecoveryEndpoint(ticket.state)
               ws == <<Exact, LeaderAt(e)>>
    <2>1. Held(LeaderAt(e)) /\ LeaderAt(e) # {} /\ Held(Exact)
      BY FinalIs, LeaderAtIs, ExactHeld
    <2>2. DOMAIN ws = 1 .. 2 /\ ws[2] # {} /\ \A i \in 1 .. 2 : Held(ws[i])
      BY <2>1
    <2>3. PriorLeader = First(ws)
      BY <1>3 DEF PriorLeader, Waits
    <2> HIDE DEF ws
    <2>9. First(ws) \in Nat /\ (First(ws) # 0 => First(ws) = owner[ticket.version].l)
      BY <2>2, 2 \in Nat, 2 >= 1, FirstIs, Zenon
    <2> QED
      BY <2>3, <2>9
  <1>4. CASE ticket.state = "merging"
    <2> DEFINE ws == <<Exact, MergingPrior>>
    <2>1. DOMAIN ws = 1 .. 2 /\ ws[2] # {} /\ \A i \in 1 .. 2 : Held(ws[i])
      BY MergingHeld, ExactHeld
    <2>2. PriorLeader = First(ws)
      BY <1>4 DEF PriorLeader, Waits
    <2> HIDE DEF ws
    <2>9. First(ws) \in Nat /\ (First(ws) # 0 => First(ws) = owner[ticket.version].l)
      BY <2>1, 2 \in Nat, 2 >= 1, FirstIs, Zenon
    <2> QED
      BY <2>2, <2>9
  <1>5. CASE ticket.state = "reconciling"
    <2> DEFINE ws == <<Exact, ReconcilingPrior>>
    <2>1. DOMAIN ws = 1 .. 2 /\ ws[2] # {} /\ \A i \in 1 .. 2 : Held(ws[i])
      BY ReconcilingHeld, ExactHeld
    <2>2. PriorLeader = First(ws)
      BY <1>5 DEF PriorLeader, Waits
    <2> HIDE DEF ws
    <2>9. First(ws) \in Nat /\ (First(ws) # 0 => First(ws) = owner[ticket.version].l)
      BY <2>1, 2 \in Nat, 2 >= 1, FirstIs, Zenon
    <2> QED
      BY <2>2, <2>9
  <1> QED
    BY <1>1, <1>2, <1>3, <1>4, <1>5 DEF MachineOK, Standing, Ended, Waits

\* The row that the fence writes, and nothing else.
LEMMA FencedGrows ==
    ASSUME MachineOK, HistOK, RestOK, Cited, FenceRecoveredRunners
    PROVE  \/ UNCHANGED machine /\ pc' = "refused"
           \/ /\ pc' = "serving" /\ Grows(1, ticket.runner + 1) /\ ticket'.state = ticket.state
              /\ \A v \in ticket.version + 1 .. ticket.version + 1 :
                    /\ hist'[v].trig = "recovered" /\ hist'[v].r = ticket.runner + 1
                    /\ hist'[v].pl = owner[ticket.version].l
  <1> DEFINE p == PriorLeader
             r == ticket.runner + 1
             s == ticket.state
  <1>1. s \in Stations /\ r \in Nat /\ leader \in Nat /\ s \notin Ended
    BY DEF MachineOK, Tickets, FenceRecoveredRunners
  <1>2. p \in Nat /\ (p # 0 => p = owner[ticket.version].l)
    BY <1>1, PriorIs
  <1> HIDE DEF p
  <1>3. CASE p = 0
    BY <1>3 DEF FenceRecoveredRunners, p
  <1>4. CASE p # 0
    <2>1. "recovered" \in Triggers
      BY DEF Triggers
    <2>2. PICK e \in Made : e = Event("recovered", s, s) /\ e.trig = "recovered"
      BY <1>1, <2>1, EventMade
    <2> DEFINE row == [e EXCEPT !.r = r, !.pl = p, !.l = leader]
    <2>3. /\ row \in Made /\ row.trig = "recovered" /\ row.r = r /\ row.pl = p
          /\ row.l = leader
      BY <1>1, <1>2, <2>2 DEF Made
    <2>4. Step(row, s, r) /\ pc' = "serving"
      BY <1>4, <2>2 DEF FenceRecoveredRunners, p
    <2> HIDE DEF row
    <2>5. /\ Grows(1, r) /\ ticket'.state = s
          /\ \A v \in ticket.version + 1 .. ticket.version + 1 : hist'[v] = row
      BY <1>1, <2>3, <2>4, StepGrows
    <2> QED
      BY <1>2, <1>4, <2>3, <2>4, <2>5
  <1> QED
    BY <1>3, <1>4

-----------------------------------------------------------------------------
(* What a step does to the ledger: nothing; versions of the runner that      *)
(* serves; or the row of a fence                                             *)

Quiet ==
    /\ UNCHANGED machine
    /\ leader' \in Nat /\ pc' \in {"down", "acquired", "settled", "serving", "refused"}
    /\ pc' = "serving" => pc = "serving" /\ leader' = leader
    /\ pc' \in {"down", "acquired", "settled"} => ticket.state \notin Ended

Served ==
    /\ leader' = leader /\ pc = "serving" /\ pc' = "serving" /\ ticket'.state \in Standing
    /\ \E n \in Nat : /\ n >= 1 /\ Grows(n, ticket.runner)
                      /\ \A v \in ticket.version + 1 .. ticket.version + n :
                            hist'[v].trig # "recovered"

Resumed ==
    /\ leader' = leader /\ pc' = "serving" /\ ticket'.state = ticket.state
    /\ ticket.state \notin Ended
    /\ Grows(1, ticket.runner + 1)
    /\ \A v \in ticket.version + 1 .. ticket.version + 1 :
          /\ hist'[v].trig = "recovered" /\ hist'[v].r = ticket.runner + 1
          /\ hist'[v].pl = owner[ticket.version].l

LEMMA MoveServed ==
    ASSUME MachineOK, NEW trig \in Triggers \ Signed, NEW to \in Standing, Move(trig, to),
           pc = "serving", pc' = "serving", leader' = leader
    PROVE  Served
  <1>1. to \in Stations
    BY DEF Standing, Ended, Stations
  <1>2. /\ Grows(1, ticket.runner) /\ ticket'.state = to
        /\ \A v \in ticket.version + 1 .. ticket.version + 1 : hist'[v].trig = trig
    BY <1>1, MoveGrows
  <1>3. trig # "recovered" /\ 1 \in Nat /\ 1 >= 1
    BY DEF Signed
  <1> QED
    BY <1>2, <1>3 DEF Served

LEMMA RepairServed ==
    ASSUME MachineOK, NEW to \in {"building", "verifying"}, TransitionReviewRepair(to)
    PROVE  Served
  <1>1. "review_repair" \in Triggers /\ "reviewing" \in Stations /\ to \in Stations
        /\ to \in Standing
    BY DEF Triggers, Stations, Standing
  <1>2. PICK e \in Made : e = Event("review_repair", "reviewing", to) /\ e.trig = "review_repair"
    BY <1>1, EventMade
  <1>3. ticket.runner \in Nat /\ leader \in Nat
    BY Domains
  <1> DEFINE s == [e EXCEPT !.r = ticket.runner, !.l = leader]
  <1>4. s \in Made /\ s.trig = "review_repair" /\ s.r = ticket.runner /\ s.l = leader
    BY <1>2, <1>3 DEF Made
  <1>5. Step(s, to, ticket.runner) /\ pc = "serving" /\ pc' = "serving" /\ leader' = leader
    BY <1>2 DEF TransitionReviewRepair, finalReviewerResult, Free, Serves
  <1> HIDE DEF s
  <1>6. /\ Grows(1, ticket.runner) /\ ticket'.state = to
        /\ \A v \in ticket.version + 1 .. ticket.version + 1 : hist'[v] = s
    BY <1>1, <1>3, <1>4, <1>5, StepGrows
  <1>7. 1 \in Nat /\ 1 >= 1 /\ "review_repair" # "recovered"
    OBVIOUS
  <1> QED
    BY <1>1, <1>4, <1>5, <1>6, <1>7 DEF Served

LEMMA Ledger ==
    ASSUME MachineOK, HistOK, RestOK, Cited, Next
    PROVE  Quiet \/ Served \/ Resumed
  <1> USE DEF machine, vars
  <1>0. leader \in Nat /\ ticket.state \in Standing
        /\ pc \in {"down", "acquired", "settled", "serving", "refused"}
        /\ (pc \in {"down", "acquired", "settled"} => ticket.state \notin Ended)
    BY DEF MachineOK
  <1>1. CASE StartReview \/ (\E v \in {"pass", "repair", "operator"} : ReviewEnds(v))
    BY <1>0, <1>1 DEF StartReview, ReviewEnds, Quiet
  <1>2. CASE TransitionFinalReview
    <2>1. "review_pass" \in Triggers \ Signed
      BY DEF Triggers, Signed
    <2>2. PICK to \in Standing : Move("review_pass", to)
      BY <1>2 DEF TransitionFinalReview, Standing
    <2> QED
      BY <1>2, <2>1, <2>2, MoveServed DEF TransitionFinalReview, finalReviewerResult, Free, Serves
  <1>3. CASE TransitionReviewNeedsOperator
    <2>1. "typed_blocker" \in Triggers \ Signed /\ "blocked" \in Standing
          /\ ticket.state = "reviewing"
      BY <1>3 DEF Triggers, Signed, Standing, Ended, TransitionReviewNeedsOperator,
                  finalReviewerResult, Free, Serves
    <2>2. Move("typed_blocker", "blocked")
      BY <1>3, <2>1 DEF TransitionReviewNeedsOperator, Move
    <2> QED
      BY <1>3, <2>1, <2>2, MoveServed
         DEF TransitionReviewNeedsOperator, finalReviewerResult, Free, Serves
  <1>4. CASE Redelivered
    <2>1. "reviewing" \in Standing
      BY DEF Standing
    <2>2. leader' = leader /\ pc = "serving" /\ pc' = "serving"
      BY <1>4 DEF Redelivered
    <2> QED
      BY <1>4, <2>1, <2>2, RedeliveredGrows DEF Served
  <1>5. CASE \E to \in {"building", "verifying"} : TransitionReviewRepair(to)
    BY <1>5, RepairServed
  <1>6. CASE \E d \in {"operator_approved", "operator_rejected"} : ApplyOperatorDecision(d)
    <2>1. PICK d \in {"operator_approved", "operator_rejected"} : ApplyOperatorDecision(d)
      BY <1>6
    <2>2. d \in Triggers \ Signed
      BY DEF Triggers, Signed
    <2>3. PICK to \in Standing : Move(d, to)
      BY <2>1 DEF ApplyOperatorDecision, Standing
    <2> QED
      BY <2>1, <2>2, <2>3, MoveServed DEF ApplyOperatorDecision
  <1>7. CASE HumanPush \/ HumanMerge \/ BaseAdvances \/ (\E a \in BOOLEAN : CommandEnds(a))
    BY <1>0, <1>7 DEF HumanPush, HumanMerge, BaseAdvances, CommandEnds, Quiet
  <1>8. CASE RecordManualMergeObservation \/ RecordExternalMergeObservation
    <2>1. "external_merge_observed" \in Triggers \ Signed
      BY DEF Triggers, Signed
    <2>2. PICK to \in Standing : Move("external_merge_observed", to)
      BY <1>8 DEF RecordManualMergeObservation, RecordExternalMergeObservation, Standing, Ended
    <2> QED
      BY <1>8, <2>1, <2>2, MoveServed
         DEF RecordManualMergeObservation, RecordExternalMergeObservation, MayObserve
  <1>9. CASE ReconcileManualMerge \/ ReconcileGuardedMerge
    <2>1. "reconcile_pass" \in Triggers \ Signed /\ "done" \in Standing
      BY DEF Triggers, Signed, Standing, Ended
    <2>2. Move("reconcile_pass", "done")
      BY <1>9 DEF ReconcileManualMerge, ReconcileGuardedMerge
    <2> QED
      BY <1>9, <2>1, <2>2, MoveServed
         DEF ReconcileManualMerge, ReconcileGuardedMerge, Free, Serves
  <1>10. CASE ClaimReady \/ MarkReady \/ ReconcileReady
    BY <1>0, <1>10 DEF ClaimReady, MarkReady, ReconcileReady, Quiet
  <1>11. CASE ClaimMerge \/ RecordMergeIntent \/ LaunchMerge \/ ReconcileMerge
    BY <1>0, <1>11 DEF ClaimMerge, RecordMergeIntent, LaunchMerge, ReconcileMerge, Quiet
  <1>12. CASE \E why \in {"recover", "promote", "reconcile"} : Observe(why)
    BY <1>0, <1>12 DEF Observe, Quiet
  <1>13. CASE RecordGuardedMergeObservation \/ VerifyProtectedBranch
    BY <1>0, <1>13 DEF RecordGuardedMergeObservation, VerifyProtectedBranch, Quiet
  <1>14. CASE \/ \E st \in {"confirmed", "uncertain"} : FetchEnds(st)
              \/ ConfirmMerge \/ WorkerReturns
    BY <1>0, <1>14 DEF FetchEnds, ConfirmMerge, WorkerReturns, Quiet
  <1>15. CASE TransitionGuardedMergeObserved
    <2>1. "merge_observed" \in Triggers \ Signed /\ "reconciling" \in Standing
      BY DEF Triggers, Signed, Standing
    <2> QED
      BY <1>15, <2>1, MoveServed DEF TransitionGuardedMergeObserved, Free, Serves
  <1>16. CASE Crash
    BY <1>0, <1>16 DEF Crash, Fenced, Ended, Quiet
  <1>17. CASE AcquireLeader \/ ReconcileEffects
    BY <1>0, <1>17 DEF AcquireLeader, ReconcileEffects, Quiet
  <1>18. CASE FenceRecoveredRunners
    <2>1. leader' = leader /\ pc = "settled"
      BY <1>18 DEF FenceRecoveredRunners
    <2>2. ticket.state \notin Ended
      BY <1>0, <2>1
    <2>3. CASE UNCHANGED machine /\ pc' = "refused"
      BY <1>0, <2>1, <2>3 DEF Quiet
    <2>4. CASE pc' = "serving" /\ ~(UNCHANGED machine /\ pc' = "refused")
      BY <1>18, <2>1, <2>2, <2>4, FencedGrows DEF Resumed
    <2> QED
      BY <1>18, <2>3, <2>4, FencedGrows
  <1> QED
    BY <1>1, <1>2, <1>3, <1>4, <1>5, <1>6, <1>7, <1>8, <1>9, <1>10, <1>11, <1>12, <1>13, <1>14,
       <1>15, <1>16, <1>17, <1>18 DEF Next

LEMMA MachineNext ==
    ASSUME MachineOK, HistOK, Quiet \/ Served \/ Resumed
    PROVE  /\ MachineOK' /\ HistOK'
           /\ \A e \in Fences : Genuine(e) => Authentic(owner', ticket'.version, e)
           /\ ticket'.version >= ticket.version
  <1>1. CASE Quiet
    <2>1. MachineOK'
      BY <1>1 DEF MachineOK, Quiet, machine
    <2>2. HistOK'
      BY <1>1 DEF HistOK, Quiet, machine
    <2>3. \A e \in Fences : Genuine(e) => Authentic(owner', ticket'.version, e)
      BY <1>1 DEF Genuine, Quiet, machine
    <2>4. ticket'.version >= ticket.version
      BY <1>1, Domains DEF Quiet, machine
    <2> QED
      BY <2>1, <2>2, <2>3, <2>4
  <1>2. CASE Served
    <2>1. PICK n \in Nat : /\ n >= 1 /\ Grows(n, ticket.runner)
                           /\ \A v \in ticket.version + 1 .. ticket.version + n :
                                 hist'[v].trig # "recovered"
      BY <1>2 DEF Served
    <2>2. leader' = leader /\ pc = "serving" /\ pc' = "serving" /\ ticket'.state \in Standing
      BY <1>2 DEF Served
    <2>3. /\ HistOK'
          /\ \A e \in Fences : Genuine(e) => Authentic(owner', ticket'.version, e)
      BY <2>1, <2>2, HistGrows, Domains
    <2>4. MachineOK' /\ ticket'.version >= ticket.version
      BY <2>1, <2>2, Domains DEF MachineOK, Grows
    <2> QED
      BY <2>3, <2>4
  <1>3. CASE Resumed
    <2>1. /\ leader' = leader /\ pc' = "serving" /\ ticket'.state = ticket.state
          /\ Grows(1, ticket.runner + 1)
          /\ hist'[ticket.version + 1].trig = "recovered"
      BY <1>3, Domains DEF Resumed
    <2>2. ticket.runner + 1 \in Nat /\ 1 \in Nat /\ 1 >= 1
      BY Domains
    <2>3. /\ HistOK'
          /\ \A e \in Fences : Genuine(e) => Authentic(owner', ticket'.version, e)
      BY <2>1, <2>2, HistGrows
    <2>4. MachineOK' /\ ticket'.version >= ticket.version
      BY <2>1, Domains DEF MachineOK, Grows
    <2> QED
      BY <2>3, <2>4
  <1> QED
    BY <1>1, <1>2, <1>3

-----------------------------------------------------------------------------
(* Everything else keeps its type, and what was stored its fence *)

LEMMA SetEffectType ==
    ASSUME RestOK, NEW k \in Kinds, NEW c \in Nat, NEW f \in Fences,
           NEW st \in {"none", "executing", "uncertain", "confirmed", "failed"},
           SetEffect(k, st, f, c)
    PROVE  eff' \in [Kinds -> Effects]
  <1>1. [st |-> st, f |-> f, c |-> c] \in Effects
    BY DEF Effects
  <1> QED
    BY <1>1 DEF RestOK, SetEffect

LEMMA RowType ==
    ASSUME RestOK, NEW k \in Kinds
    PROVE  eff[k] \in Effects /\ eff[k].f \in Fences /\ eff[k].c \in Nat /\ eff[k].c + 1 \in Nat
  BY DEF RestOK, Effects

LEMMA RestNext ==
    ASSUME MachineOK, RestOK, Next
    PROVE  RestOK'
  <1> USE DEF merge
  <1>0. /\ Live \in Fences /\ {"ready", "merge", "fetch"} = Kinds
        /\ mode \in {"guarded", "manual"}
        /\ gen \in Nat /\ result \in Results /\ used \in Nat
        /\ eff \in [Kinds -> Effects] /\ git \in Claims /\ intent \in Claims
        /\ seen \in Nat /\ manual \in [f : Fences, base : Nat]
        /\ remote \in Remotes /\ worker \in Workers /\ sent \in Nat
    BY LiveType DEF RestOK, Kinds
  <1>r. \A k \in Kinds : eff[k] \in Effects /\ eff[k].f \in Fences /\ eff[k].c \in Nat
                         /\ eff[k].c + 1 \in Nat
    BY RowType
  <1>w. worker.c \in Nat /\ Idle \in Workers
    BY <1>0 DEF Workers, Idle
  <1>b. remote.base \in Nat
    BY <1>0 DEF Remotes
  <1>1. CASE StartReview \/ TransitionFinalReview \/ TransitionReviewNeedsOperator
    BY <1>0, <1>1 DEF StartReview, TransitionFinalReview, TransitionReviewNeedsOperator, RestOK,
                     Idle, Workers
  <1>2. CASE \E v \in {"pass", "repair", "operator"} : ReviewEnds(v)
    BY <1>0, <1>w, <1>2 DEF ReviewEnds, RestOK, Results
  <1>3. CASE \E to \in {"building", "verifying"} : TransitionReviewRepair(to)
    BY <1>0, <1>3 DEF TransitionReviewRepair, RestOK
  <1>4. CASE Redelivered
    <2> DEFINE b == remote.base
    <2>2. gen' = gen + 1 /\ remote' = [remote EXCEPT !.head = "reviewed", !.at = b, !.ready = FALSE]
      BY <1>4 DEF Redelivered
    <2> HIDE DEF b
    <2>3. [remote EXCEPT !.head = "reviewed", !.at = b, !.ready = FALSE] \in Remotes
      BY <1>0, <1>b DEF b, Remotes
    <2>1. remote' \in Remotes /\ gen' \in Nat
      BY <1>0, <2>2, <2>3
    <2> QED
      BY <1>0, <1>4, <2>1 DEF Redelivered, RestOK
  <1>5. CASE \/ \E d \in {"operator_approved", "operator_rejected"} : ApplyOperatorDecision(d)
             \/ RecordExternalMergeObservation \/ ReconcileManualMerge
             \/ TransitionGuardedMergeObserved
    BY <1>0, <1>5 DEF ApplyOperatorDecision, RecordExternalMergeObservation, ReconcileManualMerge,
                     TransitionGuardedMergeObserved, RestOK
  <1>6. CASE HumanPush \/ HumanMerge \/ BaseAdvances \/ (\E a \in BOOLEAN : CommandEnds(a))
    <2> DEFINE b == remote.base + 1
    <2>b. b \in Nat /\ TRUE \in BOOLEAN /\ FALSE \in BOOLEAN
          /\ remote.head \in {"reviewed", "other"}
      BY <1>0, <1>b DEF Remotes
    <2>2. \/ remote' = [remote EXCEPT !.head = "other"]
          \/ remote' = [remote EXCEPT !.ready = TRUE, !.merged = remote.head, !.base = b]
          \/ remote' = [remote EXCEPT !.base = b]
          \/ remote' = [remote EXCEPT !.cmd = FALSE, !.merged = "reviewed", !.base = b]
          \/ remote' = [remote EXCEPT !.cmd = FALSE]
      BY <1>6 DEF HumanPush, HumanMerge, BaseAdvances, CommandEnds
    <2> HIDE DEF b
    <2>3. [remote EXCEPT !.head = "other"] \in Remotes
      BY <1>0 DEF Remotes
    <2>4. [remote EXCEPT !.ready = TRUE, !.merged = remote.head, !.base = b] \in Remotes
      BY <1>0, <2>b DEF Remotes
    <2>5. [remote EXCEPT !.base = b] \in Remotes
      BY <1>0, <2>b DEF Remotes
    <2>6. [remote EXCEPT !.cmd = FALSE, !.merged = "reviewed", !.base = b] \in Remotes
      BY <1>0, <2>b DEF Remotes
    <2>7. [remote EXCEPT !.cmd = FALSE] \in Remotes
      BY <1>0 DEF Remotes
    <2>1. remote' \in Remotes
      BY <2>2, <2>3, <2>4, <2>5, <2>6, <2>7
    <2> QED
      BY <1>0, <1>6, <2>1 DEF HumanPush, HumanMerge, BaseAdvances, CommandEnds, RestOK
  <1>7. CASE RecordManualMergeObservation
    BY <1>0, <1>b, <1>7 DEF RecordManualMergeObservation, RestOK
  <1>8. CASE ClaimReady
    <2>1. eff' \in [Kinds -> Effects]
      BY <1>0, <1>r, <1>8, SetEffectType DEF ClaimReady, Kinds
    <2>2. worker' \in Workers
      BY <1>8 DEF ClaimReady, Idle, Workers
    <2> QED
      BY <1>0, <1>8, <2>1, <2>2 DEF ClaimReady, RestOK
  <1>9. CASE MarkReady
    <2>1. eff' \in [Kinds -> Effects]
      BY <1>0, <1>r, <1>9, SetEffectType DEF MarkReady, Kinds
    <2>2. remote' \in Remotes
      <3>1. PICK a \in BOOLEAN : remote' = [remote EXCEPT !.ready = remote.ready \/ a]
        BY <1>9 DEF MarkReady
      <3>2. PICK x \in BOOLEAN : x = (remote.ready \/ a)
        OBVIOUS
      <3>3. [remote EXCEPT !.ready = x] \in Remotes
        BY <1>0 DEF Remotes
      <3> QED
        BY <3>1, <3>2, <3>3
    <2> QED
      BY <1>0, <1>w, <1>9, <2>1, <2>2 DEF MarkReady, RestOK
  <1>10. CASE ReconcileReady
    <2>1. eff' \in [Kinds -> Effects]
      BY <1>0, <1>r, <1>10, SetEffectType DEF ReconcileReady, Kinds
    <2> QED
      BY <1>0, <1>10, <2>1 DEF ReconcileReady, RestOK
  <1>11. CASE ClaimMerge
    <2>1. eff' \in [Kinds -> Effects]
      BY <1>0, <1>r, <1>11, SetEffectType DEF ClaimMerge, Kinds
    <2>2. worker' \in Workers
      BY <1>0, <1>r, <1>11 DEF ClaimMerge, Workers
    <2> QED
      BY <1>0, <1>11, <2>1, <2>2 DEF ClaimMerge, RestOK
  <1>12. CASE RecordMergeIntent
    <2>1. worker' \in Workers /\ intent' \in Claims
      BY <1>0, <1>w, <1>12 DEF RecordMergeIntent, Workers, Claims
    <2> QED
      BY <1>0, <1>12, <2>1 DEF RecordMergeIntent, RestOK
  <1>13. CASE LaunchMerge
    <2>2. worker' \in Workers
      BY <1>0, <1>13 DEF LaunchMerge, Workers
    <2>3. remote' \in Remotes
      <3>1. [remote EXCEPT !.cmd = TRUE] \in Remotes
        BY <1>0 DEF Remotes
      <3> QED
        BY <1>13, <3>1 DEF LaunchMerge
    <2>4. sent' \in Nat
      BY <1>0, <1>13 DEF LaunchMerge
    <2>1. worker' \in Workers /\ remote' \in Remotes /\ sent' \in Nat
      BY <2>2, <2>3, <2>4
    <2> QED
      BY <1>0, <1>13, <2>1 DEF LaunchMerge, RestOK
  <1>14. CASE ReconcileMerge
    <2>1. eff' \in [Kinds -> Effects]
      BY <1>0, <1>r, <1>14, SetEffectType DEF ReconcileMerge, Kinds
    <2> QED
      BY <1>0, <1>14, <2>1 DEF ReconcileMerge, RestOK
  <1>15. CASE \E why \in {"recover", "promote", "reconcile"} : Observe(why)
    <2>1. worker' \in Workers
      BY <1>0, <1>r, <1>15 DEF Observe, Workers
    <2> QED
      BY <1>0, <1>15, <2>1 DEF Observe, RestOK
  <1>16. CASE RecordGuardedMergeObservation
    <2>1. worker' \in Workers
      BY <1>0, <1>16 DEF RecordGuardedMergeObservation, Workers
    <2> QED
      BY <1>0, <1>b, <1>16, <2>1 DEF RecordGuardedMergeObservation, RestOK
  <1>17. CASE VerifyProtectedBranch
    <2>1. worker' \in Workers
      BY <1>0, <1>17 DEF VerifyProtectedBranch, Workers
    <2>2. eff' \in [Kinds -> Effects] /\ git' \in Claims
      <3>1. CASE eff["fetch"].st = "confirmed"
        BY <1>0, <1>17, <3>1 DEF VerifyProtectedBranch
      <3>2. CASE eff["fetch"].st # "confirmed"
        <4>1. /\ SetEffect("fetch", "executing", Live, eff["fetch"].c + 1)
              /\ git' = [f |-> Live, c |-> eff["fetch"].c + 1]
          BY <1>17, <3>2 DEF VerifyProtectedBranch
        <4> QED
          BY <1>0, <1>r, <4>1, SetEffectType DEF Claims, Kinds
      <3> QED
        BY <3>1, <3>2
    <2> QED
      BY <1>0, <1>17, <2>1, <2>2 DEF VerifyProtectedBranch, RestOK
  <1>18. CASE \E st \in {"confirmed", "uncertain"} : FetchEnds(st)
    <2>1. worker' \in Workers
      BY <1>0, <1>18 DEF FetchEnds, Workers
    <2>2. eff' \in [Kinds -> Effects]
      BY <1>0, <1>r, <1>18, SetEffectType DEF FetchEnds, Kinds
    <2> QED
      BY <1>0, <1>18, <2>1, <2>2 DEF FetchEnds, RestOK
  <1>19. CASE ConfirmMerge
    <2>1. eff' \in [Kinds -> Effects]
      BY <1>0, <1>r, <1>w, <1>19, SetEffectType DEF ConfirmMerge, Kinds
    <2> QED
      BY <1>0, <1>w, <1>19, <2>1 DEF ConfirmMerge, RestOK
  <1>20. CASE WorkerReturns
    <2>1. eff' \in [Kinds -> Effects]
      BY <1>0, <1>r, <1>20, SetEffectType DEF WorkerReturns, Kinds
    <2> QED
      BY <1>0, <1>w, <1>20, <2>1 DEF WorkerReturns, RestOK
  <1>21. CASE ReconcileGuardedMerge \/ Crash \/ AcquireLeader \/ FenceRecoveredRunners
    BY <1>0, <1>w, <1>21 DEF ReconcileGuardedMerge, Crash, AcquireLeader, FenceRecoveredRunners,
                            RestOK
  <1>22. CASE ReconcileEffects
    <2> DEFINE row(k) == IF eff[k].st \in {"executing", "uncertain"} /\ eff[k].f.l # leader
                         THEN [st |-> "uncertain", f |-> [eff[k].f EXCEPT !.l = leader],
                               c |-> eff[k].c + 1]
                         ELSE eff[k]
    <2>1. leader \in Nat
      BY Domains
    <2>2. ASSUME NEW k \in Kinds PROVE row(k) \in Effects
      <3>1. [eff[k].f EXCEPT !.l = leader] \in Fences
        BY <1>r, <2>1 DEF Fences
      <3> QED
        BY <1>r, <3>1 DEF Effects
    <2>3. eff' = [k \in Kinds |-> row(k)]
      BY <1>22 DEF ReconcileEffects
    <2>4. eff' \in [Kinds -> Effects]
      BY <2>2, <2>3
    <2> QED
      BY <1>0, <1>22, <2>4 DEF ReconcileEffects, RestOK
  <1> QED
    BY <1>1, <1>2, <1>3, <1>4, <1>5, <1>6, <1>7, <1>8, <1>9, <1>10, <1>11, <1>12, <1>13, <1>14,
       <1>15, <1>16, <1>17, <1>18, <1>19, <1>20, <1>21, <1>22 DEF Next

\* A fence is stored only while the daemon serves, when it owns the live version.
LEMMA CitedNext ==
    ASSUME MachineOK, HistOK, RestOK, Cited, Next
    PROVE  Cited'
  <1> USE DEF merge, machine
  <1>1. /\ \A e \in Fences : Genuine(e) => Authentic(owner', ticket'.version, e)
    BY Ledger, MachineNext
  <1>2. result.f \in Fences /\ Fence(manual.f.v + 1, manual.f.r, manual.f.l) \in Fences
    BY DEF RestOK, Results, Fences, Fence
  <1>3. CASE UNCHANGED <<result, manual>>
    BY <1>1, <1>2, <1>3 DEF Cited, Genuine
  <1>4. CASE \E v \in {"pass", "repair", "operator"} : ReviewEnds(v)
    <2>1. /\ result'.f = Live /\ pc = "serving"
          /\ UNCHANGED <<manual, owner, ticket>>
      BY <1>4 DEF ReviewEnds, Serves
    <2>2. Genuine(Live)
      BY <2>1, Domains DEF HistOK, Genuine, Authentic, Live, Fence
    <2> QED
      BY <2>1, <2>2 DEF Cited, Genuine, Live
  <1>5. CASE RecordManualMergeObservation
    <2>1. /\ manual' = [f |-> Live, base |-> remote.base] /\ pc = "serving"
          /\ Move("external_merge_observed", "reconciling")
          /\ UNCHANGED result
      BY <1>5 DEF RecordManualMergeObservation, MayObserve
    <2>2. "external_merge_observed" \in Triggers \ Signed /\ "reconciling" \in Stations
      BY DEF Triggers, Signed, Stations
    <2>3. Grows(1, ticket.runner)
      BY <2>1, <2>2, MoveGrows
    <2>4. /\ ticket'.version = ticket.version + 1
          /\ owner'[ticket.version + 1].l = leader
      BY <2>3, Domains DEF Grows
    <2>5. /\ Fence(manual'.f.v + 1, manual'.f.r, manual'.f.l).v = ticket.version + 1
          /\ Fence(manual'.f.v + 1, manual'.f.r, manual'.f.l).l = leader
      BY <2>1 DEF Live, Fence
    <2>6. Authentic(owner', ticket'.version, Fence(manual'.f.v + 1, manual'.f.r, manual'.f.l))
      BY <2>4, <2>5, Domains DEF Authentic
    <2>7. (result # NoResult => Genuine(result.f))'
      BY <1>1, <1>2, <2>1 DEF Cited, Genuine
    <2> QED
      BY <2>6, <2>7 DEF Cited, Genuine
  <1>6. ASSUME ~(\E v \in {"pass", "repair", "operator"} : ReviewEnds(v)),
               ~RecordManualMergeObservation
        PROVE  UNCHANGED <<result, manual>>
    BY <1>6 DEF Next, StartReview, TransitionFinalReview, TransitionReviewNeedsOperator, Redelivered,
                TransitionReviewRepair, ApplyOperatorDecision, HumanPush, HumanMerge, BaseAdvances,
                CommandEnds, RecordExternalMergeObservation, ReconcileManualMerge, ClaimReady,
                MarkReady, ReconcileReady, ClaimMerge, RecordMergeIntent, LaunchMerge,
                ReconcileMerge, Observe, RecordGuardedMergeObservation, VerifyProtectedBranch,
                FetchEnds, ConfirmMerge, WorkerReturns, TransitionGuardedMergeObserved,
                ReconcileGuardedMerge, Crash, AcquireLeader, ReconcileEffects,
                FenceRecoveredRunners
  <1> QED
    BY <1>3, <1>4, <1>5, <1>6

-----------------------------------------------------------------------------
(* The inductive invariant *)

Inv == MachineOK /\ HistOK /\ RestOK /\ Cited

LEMMA InitInv == Init => Inv
  <1> SUFFICES ASSUME Init PROVE Inv
    OBVIOUS
  <1>1. PICK pending \in BOOLEAN : hist = Passed(pending)
    BY DEF Init
  <1> DEFINE D == Delivery(1, 1)
  <1>2. hist \in Seq(D) /\ Len(hist) >= 7
    BY <1>1, PassedShape
  <1>3. PICK n \in Nat : n = Len(hist) /\ n >= 7
    BY <1>2
  <1>4. D \subseteq Made
    BY DEF Delivery
  <1>5. hist \in Seq(Made) /\ DOMAIN hist = 1 .. n /\ \A v \in 1 .. n : hist[v] \in D
    <2> HIDE DEF D
    <2> QED
      BY <1>2, <1>3, <1>4, SeqMonotonic
  <1>6. PICK o \in Owners : o = [r |-> 1, l |-> 1]
    BY DEF Owners
  <1>7. owner = [v \in 1 .. n |-> o]
    BY <1>5, <1>6 DEF Init
  <1>8. owner \in Seq(Owners) /\ Len(owner) = n /\ \A v \in 1 .. n : owner[v] = o
    BY <1>7, Repeated
  <1>9. /\ ticket = [state |-> "reviewing", resume |-> "none", version |-> n, runner |-> 1,
                     code |-> "none"]
        /\ leader = 1 /\ pc = "serving"
    BY <1>3 DEF Init
  <1>10. MachineOK
    <2>1. ticket \in Tickets
      BY <1>9 DEF Tickets, Stations
    <2> QED
      BY <1>3, <1>5, <1>8, <1>9, <2>1 DEF MachineOK, Standing, Ended
  <1>11. HistOK
    <2>1. \A e \in D : e.trig # "recovered" /\ (e.trig \in Signed => e.r = 1 /\ e.l = 1)
      BY DEF Delivery, Unsigned, Signed
    <2>2. \A v \in 1 .. n : hist[v].trig \in Signed
                              => owner[v] = [r |-> hist[v].r, l |-> hist[v].l]
      BY <1>5, <1>6, <1>8, <2>1
    <2>3. \A v \in 2 .. n : owner[v] = owner[v - 1]
      BY <1>3, <1>8
    <2>4. owner[n].r = 1 /\ owner[n].l = 1
      BY <1>3, <1>6, <1>8
    <2> QED
      BY <1>9, <2>2, <2>3, <2>4 DEF HistOK
  <1>12. NoFence \in Fences
    BY DEF NoFence, Fence, Fences
  <1>13. RestOK
    <2>1. result \in Results /\ git \in Claims /\ intent \in Claims
      BY <1>12 DEF Init, NoResult, NoClaim, Results, Claims
    <2>2. NoRow \in Effects
      BY <1>12 DEF NoRow, Effects
    <2>3. eff \in [Kinds -> Effects]
      BY <2>2 DEF Init
    <2>4. remote \in Remotes /\ worker \in Workers
      BY DEF Init, Remotes, Workers, Idle
    <2>5. manual \in [f : Fences, base : Nat]
      BY <1>12 DEF Init, Unseen
    <2> QED
      BY <2>1, <2>3, <2>4, <2>5 DEF Init, RestOK, Unseen
  <1>14. Cited
    BY DEF Init, Cited
  <1> QED
    BY <1>10, <1>11, <1>13, <1>14 DEF Inv

LEMMA NextInv == Inv /\ [Next]_vars => Inv'
  <1> SUFFICES ASSUME Inv, [Next]_vars PROVE Inv'
    OBVIOUS
  <1>1. CASE Next
    BY <1>1, Ledger, MachineNext, RestNext, CitedNext DEF Inv
  <1>2. CASE UNCHANGED vars
    BY <1>2 DEF vars, machine, merge, Inv, MachineOK, HistOK, RestOK, Cited, Genuine
  <1> QED
    BY <1>1, <1>2

\* The inductive invariant holds in every state: the machine, the history, the
\* rest and the rows the recovery cites agree over runs, crashes and starts.
THEOREM MergeInv == Spec => []Inv
  BY InitInv, NextInv, PTL DEF Spec

-----------------------------------------------------------------------------
(* Recovery rows *)

LEMMA PriorNext == Inv /\ PriorHeldTicket /\ [Next]_vars => PriorHeldTicket'
  <1> SUFFICES ASSUME Inv, PriorHeldTicket, [Next]_vars PROVE PriorHeldTicket'
    OBVIOUS
  <1> USE DEF Inv
  <1> DEFINE m == ticket.version
             Good(v) == \E w \in 1 .. v - 1 : owner[w] = [r |-> hist[v].r - 1, l |-> hist[v].pl]
  <1>1. m \in Nat /\ m >= 1 /\ ticket.runner \in Nat /\ DOMAIN hist = 1 .. m
    BY Domains
  <1>2. \A v \in 1 .. m : hist[v].trig = "recovered" => Good(v)
    BY <1>1 DEF PriorHeldTicket, Rows, Recovered
  <1>3. CASE UNCHANGED machine
    BY <1>3 DEF machine, PriorHeldTicket, Rows, Recovered
  <1>4. ASSUME NEW n \in Nat, n >= 1, NEW r \in Nat, Grows(n, r),
               \A v \in m + 1 .. m + n : hist'[v].trig = "recovered" =>
                   \E w \in 1 .. v - 1 : owner'[w] = [r |-> hist'[v].r - 1, l |-> hist'[v].pl]
        PROVE  PriorHeldTicket'
    <2>1. DOMAIN hist' = 1 .. m + n
      BY <1>1, <1>4 DEF Grows
    <2>2. \A v \in 1 .. m : hist'[v] = hist[v] /\ owner'[v] = owner[v]
      BY <1>4 DEF Grows
    <2>3. SUFFICES ASSUME NEW v \in 1 .. m + n, hist'[v].trig = "recovered"
                   PROVE  \E w \in 1 .. v - 1 :
                              owner'[w] = [r |-> hist'[v].r - 1, l |-> hist'[v].pl]
      BY <2>1 DEF PriorHeldTicket, Rows, Recovered
    <2>4. CASE v \in 1 .. m
      <3>1. PICK w \in 1 .. v - 1 : owner[w] = [r |-> hist[v].r - 1, l |-> hist[v].pl]
        BY <1>2, <2>2, <2>3, <2>4
      <3>2. w \in 1 .. m
        BY <1>1, <2>4
      <3> QED
        BY <2>2, <2>4, <3>1, <3>2
    <2>5. CASE v \in m + 1 .. m + n
      BY <1>4, <2>3, <2>5
    <2> QED
      BY <1>1, <2>4, <2>5
  <1>5. CASE Next
    <2>1. CASE Quiet
      BY <1>3, <2>1 DEF Quiet
    <2>2. CASE Served
      BY <1>1, <1>4, <2>2 DEF Served
    <2>3. CASE Resumed
      <3>1. /\ Grows(1, ticket.runner + 1)
            /\ hist'[m + 1].r = ticket.runner + 1 /\ hist'[m + 1].pl = owner[m].l
        BY <1>1, <2>3 DEF Resumed
      <3>2. owner[m] = [r |-> ticket.runner, l |-> owner[m].l]
        BY <1>1, Domains DEF HistOK, Owners
      <3>3. owner'[m] = owner[m] /\ ticket.runner + 1 - 1 = ticket.runner
        BY <1>1, <3>1 DEF Grows
      <3>4. \A v \in m + 1 .. m + 1 : v = m + 1 /\ m \in 1 .. v - 1
        BY <1>1
      <3>5. \A v \in m + 1 .. m + 1 :
              \E w \in 1 .. v - 1 : owner'[w] = [r |-> hist'[v].r - 1, l |-> hist'[v].pl]
        <4>1. owner'[m] = [r |-> hist'[m + 1].r - 1, l |-> hist'[m + 1].pl]
          <5>1. hist'[m + 1].r - 1 = ticket.runner
            <6>1. hist'[m + 1].r = ticket.runner + 1
              BY <3>1
            <6> QED
              BY <1>1, <6>1
          <5>2. owner'[m] = [r |-> ticket.runner, l |-> owner[m].l]
            BY <3>2, <3>3
          <5>3. hist'[m + 1].pl = owner[m].l
            BY <3>1
          <5> QED
            BY <5>1, <5>2, <5>3
        <4> QED
          BY <3>4, <4>1
      <3>6. 1 \in Nat /\ 1 >= 1 /\ ticket.runner + 1 \in Nat
        BY <1>1
      <3> QED
        BY <1>4, <3>1, <3>5, <3>6
    <2> QED
      BY <1>5, <2>1, <2>2, <2>3, Ledger
  <1>6. CASE UNCHANGED vars
    BY <1>3, <1>6 DEF vars
  <1> QED
    BY <1>5, <1>6

\* The daemon that the startup fence names as the owner of a ticket really held
\* it, however often daemons died, whatever the ticket was waiting for and
\* whoever merged it: fenceRecoveredRunners never takes a predecessor from the
\* epoch counter, only from fences that were stored by an owner.
THEOREM MergePriorHeldTicket == Spec => []PriorHeldTicket
  <1>1. Init => PriorHeldTicket
    <2> SUFFICES ASSUME Init PROVE PriorHeldTicket
      OBVIOUS
    <2>1. PICK pending \in BOOLEAN : hist = Passed(pending)
      BY DEF Init
    <2> DEFINE D == Delivery(1, 1)
    <2>2. hist \in Seq(D)
      BY <2>1, PassedShape
    <2>3. \A e \in D : e.trig # "recovered"
      BY DEF Delivery, Unsigned
    <2>4. \A v \in DOMAIN hist : hist[v] \in D
      <3> HIDE DEF D
      <3> QED
        BY <2>2
    <2> QED
      BY <2>3, <2>4 DEF PriorHeldTicket, Rows, Recovered
  <1> QED
    BY <1>1, PriorNext, MergeInv, PTL DEF Spec

-----------------------------------------------------------------------------
(* The merge command *)

\* Nothing was sent before the intent is written; a worker that is about to send
\* wrote it and has not sent.
SentInv ==
    /\ intent = NoClaim => sent = 0
    /\ worker.st = "launching" => sent = 0 /\ intent # NoClaim
    /\ sent <= 1

LEMMA SentNext == Inv /\ SentInv /\ [Next]_vars => SentInv'
  <1> SUFFICES ASSUME Inv, SentInv, [Next]_vars PROVE SentInv'
    OBVIOUS
  <1> USE DEF Inv, merge
  <1>1. worker \in Workers /\ sent \in Nat /\ Idle.st = "idle"
    BY DEF RestOK, Idle
  <1>2. CASE LaunchMerge
    <2>1. worker'.st = "observing" /\ sent' = 1 /\ intent' = intent /\ intent # NoClaim
      BY <1>1, <1>2 DEF LaunchMerge, SentInv, Workers
    <2> QED
      BY <2>1 DEF SentInv
  <1>3. CASE RecordMergeIntent
    <2>1. sent' = 0 /\ intent'.f = Live
      BY <1>3 DEF RecordMergeIntent, SentInv
    <2>2. Live # NoFence
      <3>1. Live.v # 0 /\ NoFence.v = 0
        BY Domains DEF Live, Fence, NoFence
      <3> QED
        BY <3>1
    <2>3. intent' # NoClaim
      <3>1. NoClaim.f = NoFence
        BY DEF NoClaim
      <3> QED
        BY <2>1, <2>2, <3>1
    <2> QED
      BY <2>1, <2>3 DEF SentInv
  <1>4. ASSUME UNCHANGED <<intent, sent>>, worker'.st # "launching"
        PROVE  SentInv'
    BY <1>4 DEF SentInv
  <1>5. ASSUME UNCHANGED <<intent, sent, worker>>
        PROVE  SentInv'
    BY <1>5 DEF SentInv
  <1>6. CASE StartReview \/ ClaimReady \/ ClaimMerge
    BY <1>4, <1>6 DEF StartReview, ClaimReady, ClaimMerge, Idle
  <1>7. CASE \/ \E v \in {"pass", "repair", "operator"} : ReviewEnds(v)
             \/ MarkReady \/ ConfirmMerge \/ WorkerReturns \/ ReconcileGuardedMerge \/ Crash
    BY <1>1, <1>4, <1>7 DEF ReviewEnds, MarkReady, ConfirmMerge, WorkerReturns,
                            ReconcileGuardedMerge, Crash
  <1>8. CASE \/ \E why \in {"recover", "promote", "reconcile"} : Observe(why)
             \/ RecordGuardedMergeObservation \/ VerifyProtectedBranch
             \/ \E st \in {"confirmed", "uncertain"} : FetchEnds(st)
    <2>1. worker'.st # "launching"
      BY <1>1, <1>8 DEF Observe, RecordGuardedMergeObservation, VerifyProtectedBranch, FetchEnds,
                        Workers
    <2> QED
      BY <1>4, <1>8, <2>1 DEF Observe, RecordGuardedMergeObservation, VerifyProtectedBranch,
                              FetchEnds
  <1>9. CASE \/ TransitionFinalReview \/ TransitionReviewNeedsOperator \/ Redelivered
             \/ \E to \in {"building", "verifying"} : TransitionReviewRepair(to)
             \/ \E d \in {"operator_approved", "operator_rejected"} : ApplyOperatorDecision(d)
             \/ HumanPush \/ HumanMerge \/ BaseAdvances
             \/ \E applied \in BOOLEAN : CommandEnds(applied)
             \/ RecordManualMergeObservation \/ RecordExternalMergeObservation
             \/ ReconcileManualMerge \/ ReconcileReady \/ ReconcileMerge
             \/ TransitionGuardedMergeObserved \/ AcquireLeader \/ ReconcileEffects
             \/ FenceRecoveredRunners
    BY <1>5, <1>9
       DEF TransitionFinalReview, TransitionReviewNeedsOperator, Redelivered,
           TransitionReviewRepair, ApplyOperatorDecision, HumanPush, HumanMerge, BaseAdvances,
           CommandEnds, RecordManualMergeObservation, RecordExternalMergeObservation,
           ReconcileManualMerge, ReconcileReady, ReconcileMerge, TransitionGuardedMergeObserved,
           AcquireLeader, ReconcileEffects, FenceRecoveredRunners
  <1>10. CASE UNCHANGED vars
    BY <1>5, <1>10 DEF vars
  <1> QED
    BY <1>2, <1>3, <1>6, <1>7, <1>8, <1>9, <1>10 DEF Next

\* The merge command is started at most once in the life of a ticket, for any
\* number of daemons, claims, lost answers and retired claims: the immutable
\* intent of RecordMergeIntent is written before the command can start and no
\* path of reconcileMerge leads from a written intent to a second start.
THEOREM MergeSentOnce == Spec => []MergeIsSentOnce
  <1>1. Init => SentInv
    BY DEF Init, SentInv, Idle
  <1>2. SentInv => MergeIsSentOnce
    BY DEF SentInv, MergeIsSentOnce
  <1> QED
    BY <1>1, <1>2, SentNext, MergeInv, PTL DEF Spec

-----------------------------------------------------------------------------
(* What is on the protected branch *)

Approved == Waits \union {"merging", "reconciling", "done"}

\* From the pass on the newest review is the pass of the newest candidate, and
\* whoever stored an observation saw the reviewed head merged.
ReviewedInv ==
    /\ ticket.state \in Approved => result.verdict = "pass" /\ result.gen = gen
    /\ seen # Unseen => remote.merged = "reviewed"
    /\ ticket.state \in {"reconciling", "done"} => remote.merged = "reviewed"

LEMMA MoveTo ==
    ASSUME MachineOK, NEW trig, NEW to, Move(trig, to)
    PROVE  ticket'.state = to
  BY DEF MachineOK, Tickets, Move, Step

LEMMA ReviewedNext == Inv /\ ReviewedInv /\ [Next]_vars => ReviewedInv'
  <1> SUFFICES ASSUME Inv, ReviewedInv, [Next]_vars PROVE ReviewedInv'
    OBVIOUS
  <1> USE DEF Inv, machine, merge
  <1>1. remote \in Remotes /\ ticket \in Tickets
    BY DEF RestOK, MachineOK
  <1>2. CASE UNCHANGED <<ticket, result, gen, seen, remote>>
    BY <1>2 DEF ReviewedInv
  <1>3. ASSUME UNCHANGED <<ticket, result, gen, seen>>,
               remote.merged = "reviewed" => remote'.merged = "reviewed"
        PROVE  ReviewedInv'
    BY <1>3 DEF ReviewedInv
  <1>4. CASE \E v \in {"pass", "repair", "operator"} : ReviewEnds(v)
    BY <1>4 DEF ReviewEnds, Serves, ReviewedInv, Approved, Waits
  <1>5. CASE TransitionFinalReview
    <2>1. ticket'.state \in Waits
      BY <1>5, MoveTo DEF TransitionFinalReview, Waits
    <2>2. result.verdict = "pass" /\ result.gen = gen
      BY <1>5 DEF TransitionFinalReview, finalReviewerResult, Reusable
    <2>3. UNCHANGED <<result, gen, seen, remote>>
      BY <1>5 DEF TransitionFinalReview
    <2> QED
      BY <2>1, <2>2, <2>3 DEF ReviewedInv, Waits
  <1>6. CASE \/ TransitionReviewNeedsOperator \/ Redelivered
             \/ \E to \in {"building", "verifying"} : TransitionReviewRepair(to)
    <2>1. ticket'.state \notin Approved
      BY <1>1, <1>6 DEF TransitionReviewNeedsOperator, Redelivered, TransitionReviewRepair, Step,
                        Tickets, Approved, Waits
    <2>2. UNCHANGED seen /\ (remote.merged = "reviewed" => remote'.merged = "reviewed")
      BY <1>1, <1>6 DEF TransitionReviewNeedsOperator, Redelivered, TransitionReviewRepair, Remotes
    <2> QED
      BY <2>1, <2>2 DEF ReviewedInv, Approved
  <1>7. CASE \E d \in {"operator_approved", "operator_rejected"} : ApplyOperatorDecision(d)
    <2>1. \/ ticket.state = "waiting_approval" /\ ticket'.state = "merging"
          \/ ticket'.state = "building"
      BY <1>7, MoveTo DEF ApplyOperatorDecision
    <2>2. UNCHANGED <<result, gen, seen, remote>>
      BY <1>7 DEF ApplyOperatorDecision
    <2> QED
      BY <2>1, <2>2 DEF ReviewedInv, Approved, Waits
  <1>8. CASE HumanPush \/ HumanMerge \/ BaseAdvances \/ MarkReady \/ LaunchMerge
             \/ (\E a \in BOOLEAN : CommandEnds(a))
    <2>1. remote.merged = "reviewed" => remote'.merged = "reviewed"
      BY <1>1, <1>8 DEF HumanPush, HumanMerge, BaseAdvances, MarkReady, LaunchMerge, CommandEnds,
                        Remotes
    <2> QED
      BY <1>3, <1>8, <2>1
         DEF HumanPush, HumanMerge, BaseAdvances, MarkReady, LaunchMerge, CommandEnds
  <1>9. CASE RecordManualMergeObservation
    <2>1. ticket'.state = "reconciling" /\ remote.merged = "reviewed" /\ ticket.state \in Waits
      BY <1>9, MoveTo DEF RecordManualMergeObservation, observeManualMerge, Waits
    <2>2. UNCHANGED <<result, gen, seen, remote>>
      BY <1>9 DEF RecordManualMergeObservation
    <2> QED
      BY <2>1, <2>2 DEF ReviewedInv, Approved
  <1>10. CASE RecordExternalMergeObservation
    <2>1. ticket'.state = "external_merged"
      BY <1>10, MoveTo DEF RecordExternalMergeObservation
    <2> QED
      BY <1>10, <2>1 DEF RecordExternalMergeObservation, ReviewedInv, Approved, Waits
  <1>11. CASE ReconcileManualMerge \/ ReconcileGuardedMerge
    <2>1. ticket'.state = "done" /\ ticket.state = "reconciling"
      BY <1>11, MoveTo DEF ReconcileManualMerge, ReconcileGuardedMerge, Free, Serves
    <2>2. UNCHANGED <<result, gen, seen, remote>>
      BY <1>11 DEF ReconcileManualMerge, ReconcileGuardedMerge
    <2> QED
      BY <2>1, <2>2 DEF ReviewedInv, Approved
  <1>12. CASE TransitionGuardedMergeObserved
    <2>1. ticket'.state = "reconciling" /\ ticket.state = "merging" /\ seen # Unseen
      BY <1>12, MoveTo DEF TransitionGuardedMergeObserved, Free, Serves
    <2>2. UNCHANGED <<result, gen, seen, remote>>
      BY <1>12 DEF TransitionGuardedMergeObserved
    <2> QED
      BY <2>1, <2>2 DEF ReviewedInv, Approved
  <1>13. CASE RecordGuardedMergeObservation
    BY <1>13 DEF RecordGuardedMergeObservation, ReviewedInv
  <1>14. CASE FenceRecoveredRunners
    <2>1. ticket'.state = ticket.state
      BY <1>1, <1>14 DEF FenceRecoveredRunners, Step, Tickets
    <2> QED
      BY <1>14, <2>1 DEF FenceRecoveredRunners, ReviewedInv
  <1>15. CASE \/ StartReview \/ ClaimReady \/ ReconcileReady \/ ClaimMerge \/ RecordMergeIntent
              \/ ReconcileMerge \/ VerifyProtectedBranch \/ ConfirmMerge \/ WorkerReturns
              \/ \E why \in {"recover", "promote", "reconcile"} : Observe(why)
              \/ \E st \in {"confirmed", "uncertain"} : FetchEnds(st)
              \/ Crash \/ AcquireLeader \/ ReconcileEffects
    BY <1>2, <1>15
       DEF StartReview, ClaimReady, ReconcileReady, ClaimMerge, RecordMergeIntent, ReconcileMerge,
           VerifyProtectedBranch, ConfirmMerge, WorkerReturns, Observe, FetchEnds, Crash,
           AcquireLeader, ReconcileEffects
  <1>16. CASE UNCHANGED vars
    BY <1>2, <1>16 DEF vars
  <1> QED
    BY <1>4, <1>5, <1>6, <1>7, <1>8, <1>9, <1>10, <1>11, <1>12, <1>13, <1>14, <1>15, <1>16
       DEF Next

\* A ticket is reconciled or done only with exactly the head on the protected
\* branch that the newest final review passed, whoever merged it and whatever
\* was pushed or merged meanwhile (TransitionGuardedMergeObserved,
\* RecordManualMergeObservation).
THEOREM MergeDoneIsReviewed == Spec => []DoneIsReviewed
  <1>1. Init => ReviewedInv
    BY DEF Init, ReviewedInv, Approved, Waits
  <1>2. ReviewedInv => DoneIsReviewed
    BY DEF ReviewedInv, DoneIsReviewed, Approved
  <1> QED
    BY <1>1, <1>2, ReviewedNext, MergeInv, PTL DEF Spec

=============================================================================
