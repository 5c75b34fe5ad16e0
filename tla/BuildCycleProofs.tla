-------------------------- MODULE BuildCycleProofs --------------------------
(***************************************************************************)
(* Theorems of BuildCycle, for any number of daemons, faults and           *)
(* amendments.                                                             *)
(*                                                                         *)
(* The validators of TicketLedger are recursive and none of them is opened *)
(* here: whatever a validator admits or refuses, the properties hold       *)
(* because of what the Store writes and of what each operation compares    *)
(* itself.  The invariant: types, and where a stopped ticket returns to    *)
(* (Typed); every fence in the tables was really held by the daemon it     *)
(* names (Held), also that of the control row (Controlled) and of the      *)
(* first entry (Started), which is why each witness of the startup fence   *)
(* names a real owner; attempts follow one another, and an entry is as old *)
(* as its request (Ordered); what the revisions count in each phase, also  *)
(* while an amendment is open (Counted).                                   *)
(***************************************************************************)
EXTENDS BuildCycle, FiniteSetTheorems, SequenceTheorems, TLAPS

-----------------------------------------------------------------------------
(* The invariant *)

Codes    == {"none", "recoverable", "terminal"}
EventSet == [trig : Triggers, from : States \union {"none"}, to : States, r : Nat, pl : Nat,
             l : Nat, code : Codes]
OwnerSet == [r : Nat, l : Nat]
EntrySet == [ph : Phases, v : Nat, r : Nat, l : Nat]
Says     == {"none", "pass", "accept", "reject", "amend"}
ClaimSet == [ph : Phases, v : Nat, r : Nat, l : Nat, entry : Nat,
             st : {"active", "completed", "failed"},
             says : Says]
ControlSet == [st : {"none", "sealed", "open"}, stop : Points, auth : Points]

\* A ticket that is stopped, paused or blocked knows the phase it returns to.
Halted == {"stopping", "paused", "blocked"}
Returns ==
    /\ ticket.state \in Halted => ticket.resume \in Phases
    /\ ticket.state \notin Halted => ticket.resume = "none"

Typed ==
    /\ leader \in Nat
    /\ ticket \in [state : States, resume : Phases \union {"none"}, version : Nat, runner : Nat,
                   code : Codes]
    /\ hist \in Seq(EventSet) /\ owner \in Seq(OwnerSet)
    /\ Len(hist) = ticket.version /\ Len(owner) = ticket.version /\ ticket.version >= 1
    /\ entries \in Seq(EntrySet) /\ claims \in Seq(ClaimSet)
    /\ \A q \in requests : q.v \in Nat /\ q.prior \in Nat
    /\ Returns

\* The fence (v, r, l) was held: the version was made by that runner and leader.
WasHeld(v, r, l) == v \in 1 .. Len(owner) /\ owner[v] = [r |-> r, l |-> l]

\* In these states a serving daemon owns the newest version: its startup fence
\* made it, or a transition of its own.
Fenceable == Phases \union {"stopping", "cancelling"}

Held ==
    /\ owner[ticket.version].r = ticket.runner
    /\ pc = "serving" /\ ticket.state \in Fenceable => owner[ticket.version].l = leader
    /\ \A v \in DOMAIN hist : hist[v].trig \in {"recovered", "operator_recover"} =>
          WasHeld(v, hist[v].r, hist[v].l)
    /\ \A q \in requests : WasHeld(q.v, q.r, q.l)
    /\ \A x \in epochs : WasHeld(x.exV + 1, x.r, x.l)
    /\ \A i \in DOMAIN claims : WasHeld(claims[i].v, claims[i].r, claims[i].l)
    /\ \A i \in DOMAIN entries : WasHeld(entries[i].v, entries[i].r, entries[i].l)
    /\ worktree # NoFence => WasHeld(worktree.v, worktree.r, worktree.l)

\* The ticket's first entry is the one that operator_start made.
Started ==
    /\ ticket.state = "queued" => ticket.runner = 1 /\ entries = <<>>
    /\ ticket.state \in Phases \union Halted => entries # <<>>
    /\ entries # <<>> => entries[1].r = 1

\* The control row speaks for the newest version only with its owner's fence,
\* and for a stop with the fence of that stop.
Speaks(f) == f.v = ticket.version /\ f.r = ticket.runner
Controlled ==
    /\ control \in ControlSet
    /\ control.auth.v <= ticket.version /\ control.stop.v <= ticket.version
    /\ control.st # "none" =>
          /\ ticket.state \in Fenceable /\ Speaks(control.auth) =>
                WasHeld(ticket.version, ticket.runner, control.auth.l)
          /\ ticket.state \in {"stopping", "cancelling"} /\ Speaks(control.stop) =>
                WasHeld(ticket.version, ticket.runner, control.stop.l)
          /\ control.stop.v >= 1 /\ hist[control.stop.v].trig = "operator_pause_or_take" =>
                WasHeld(control.stop.v, control.stop.r, control.stop.l)

Ordered ==
    /\ \A i \in DOMAIN claims : claims[i].st = "active" => i = Len(claims)
    /\ \A i \in DOMAIN claims : claims[i].entry <= claims[i].v
    /\ \A i, j \in DOMAIN claims : i < j => claims[i].v <= claims[j].v
    /\ \A i, j \in DOMAIN entries : i < j => entries[i].v <= entries[j].v
    /\ \A q \in requests : \E k \in DOMAIN entries :
          entries[k].ph = "verifying" /\ entries[k].v = q.v

\* The phase the ticket is in, or returns to.
Where == IF ticket.state \in Halted THEN ticket.resume ELSE ticket.state

Accepted == {v \in DOMAIN hist : hist[v].trig = "amendment_accepted"}
Unresolved == {q \in requests : ~\E v \in Decisions : v > q.v}

Counted ==
    /\ Where \in {"queued", "planning"} => revs = <<>> /\ requests = {} /\ Accepted = {}
    /\ Where \in {"building", "publishing"} =>
          Unresolved = {} /\ Len(revs) = 1 + Cardinality(Accepted)
    /\ Where = "verifying" /\ Unresolved = {} =>
          requests = {} /\ Accepted = {} /\ Len(revs) <= 1
    /\ Where = "verifying" /\ Unresolved # {} =>
          \E q \in Unresolved : /\ Unresolved = {q}
                                /\ q.prior = 1 + Cardinality(Accepted)
                                /\ Len(revs) \in {q.prior, q.prior + 1}

Inv == /\ Typed /\ Held /\ Started /\ Controlled /\ Ordered /\ Counted
       /\ PriorHeldTicket /\ CompletedIsNotRerun

-----------------------------------------------------------------------------
(* The newest of a set of versions or ids *)

\* A number of a bounded set is its greatest.
LEMMA NewestIs ==
    ASSUME NEW n \in Nat, NEW S \in SUBSET (1 .. n), S # {}
    PROVE  Newest(S) \in S /\ \A y \in S : y <= Newest(S)
  <1> DEFINE Up(x) == {y \in S : x < y}
             F == SUBSET (1 .. n)
             R == StrictSubsetOrdering(1 .. n)
             T == {Up(x) : x \in S}
  <1>1. IsFiniteSet(1 .. n) /\ IsWellFoundedOn(R, FiniteSubsetsOf(1 .. n))
    BY FS_Interval, FS_StrictSubsetOrderingWellFounded
  <1>2. FiniteSubsetsOf(1 .. n) = F
    BY <1>1, FS_Subset DEF FiniteSubsetsOf
  <1>3. IsWellFoundedOn(R, F)
    BY <1>1, <1>2
  <1>4. T \subseteq F /\ T # {}
    OBVIOUS
  <1>5. \E t \in T : \A u \in T : ~(<<u, t>> \in R)
    <2> HIDE DEF R, F, T
    <2> QED
      BY ZenonT(60), <1>3, <1>4, WFMin
  <1>6. PICK x \in S : \A y \in S : ~(<<Up(y), Up(x)>> \in R)
    BY <1>5
  <1>7. \A y \in S : y <= x
    <2>1. SUFFICES ASSUME NEW y \in S, x < y PROVE FALSE
      OBVIOUS
    <2>2. x \in Nat /\ y \in Nat /\ ~(y < y) /\ \A z \in S : z \in Nat
      OBVIOUS
    <2>3. \A z \in Nat : y < z => x < z
      BY <2>1, <2>2
    <2>4. Up(y) \subseteq Up(x)
      BY <2>2, <2>3
    <2>5. y \in Up(x) /\ y \notin Up(y)
      BY <2>1, <2>2
    <2>6. <<Up(y), Up(x)>> \in R
      BY <2>4, <2>5 DEF StrictSubsetOrdering
    <2> QED
      BY <1>6, <2>6
  <1> QED
    BY <1>7 DEF Newest

-----------------------------------------------------------------------------
(* What a transition of the Store does to the history *)

\* A transition appends one version, made by the runner that the ticket now has
\* and by this leader.
New == hist'[ticket.version + 1]
Transits ==
    /\ hist' \in Seq(EventSet) /\ owner' \in Seq(OwnerSet)
    /\ Len(hist') = ticket.version + 1 /\ Len(owner') = ticket.version + 1
    /\ \A v \in 1 .. ticket.version : hist'[v] = hist[v] /\ owner'[v] = owner[v]
    /\ owner'[ticket.version + 1] = [r |-> ticket'.runner, l |-> leader]
    /\ ticket' \in [state : States, resume : Phases \union {"none"}, version : Nat,
                    runner : Nat, code : Codes]
    /\ ticket'.version = ticket.version + 1
    /\ leader' = leader

\* An appended event and an appended owner are enough.
LEMMA StepTransits ==
    ASSUME Typed, leader' = leader,
           ticket' \in [state : States, resume : Phases \union {"none"}, version : Nat,
                       runner : Nat, code : Codes],
           ticket'.version = ticket.version + 1,
           \E e \in EventSet : hist' = Append(hist, e),
           owner' = Append(owner, [r |-> ticket'.runner, l |-> leader])
    PROVE  Transits
  BY DEF Typed, Transits, OwnerSet

\* Nobody loses a version he made.
LEMMA HeldGrows ==
    ASSUME Typed, Transits
    PROVE  /\ \A v, x, l : WasHeld(v, x, l) => WasHeld(v, x, l)'
           /\ WasHeld(ticket.version, ticket.runner, leader)'
  BY DEF WasHeld, Transits, Typed

\* The types of the history and of the ticket.
LEMMA TypedStep ==
    ASSUME Typed, Transits, Returns',
           entries' \in Seq(EntrySet), claims' \in Seq(ClaimSet),
           \A q \in requests' : q.v \in Nat /\ q.prior \in Nat
    PROVE  Typed'
  BY DEF Typed, Transits

\* What a transition adds to the tables beside the history bears the new fence.
LEMMA HeldStep ==
    ASSUME Typed, Held, Transits, UNCHANGED worktree,
           New.trig \in {"recovered", "operator_recover"} =>
               New.r = ticket'.runner /\ New.l = leader,
           \A q \in requests' :
               \/ q \in requests
               \/ q.v = ticket.version + 1 /\ q.r = ticket'.runner /\ q.l = leader,
           \A x \in epochs' :
               \/ x \in epochs
               \/ x.exV = ticket.version /\ x.r = ticket'.runner /\ x.l = leader,
           DOMAIN claims' = DOMAIN claims,
           \A i \in DOMAIN claims : /\ claims'[i].v = claims[i].v /\ claims'[i].r = claims[i].r
                                    /\ claims'[i].l = claims[i].l,
           \A i \in DOMAIN entries' :
               \/ i \in DOMAIN entries /\ entries'[i] = entries[i]
               \/ /\ entries'[i].v = ticket.version + 1 /\ entries'[i].r = ticket'.runner
                  /\ entries'[i].l = leader
    PROVE  Held'
  <1>1. /\ owner'[ticket'.version].r = ticket'.runner
        /\ owner'[ticket'.version].l = leader'
    BY DEF Transits
  <1>2. \A v \in DOMAIN hist' : hist'[v].trig \in {"recovered", "operator_recover"} =>
            WasHeld(v, hist[v].r, hist[v].l)'
    <2> SUFFICES ASSUME NEW v \in DOMAIN hist',
                        hist'[v].trig \in {"recovered", "operator_recover"}
                 PROVE  WasHeld(v, hist[v].r, hist[v].l)'
      OBVIOUS
    <2>1. CASE v \in DOMAIN hist
      BY <2>1, HeldGrows DEF Held, Transits, Typed
    <2>2. CASE v \notin DOMAIN hist
      <3>1. v = ticket.version + 1
        BY <2>2 DEF Transits, Typed
      <3> QED
        BY <3>1, HeldGrows DEF New, Transits
    <2> QED
      BY <2>1, <2>2
  <1>3. \A q \in requests' : WasHeld(q.v, q.r, q.l)'
    BY HeldGrows DEF Held, Transits
  <1>4. \A x \in epochs' : WasHeld(x.exV + 1, x.r, x.l)'
    BY HeldGrows DEF Held, Transits
  <1>5. \A i \in DOMAIN claims' : WasHeld(claims[i].v, claims[i].r, claims[i].l)'
    BY HeldGrows DEF Held
  <1>6. \A i \in DOMAIN entries' : WasHeld(entries[i].v, entries[i].r, entries[i].l)'
    <2> SUFFICES ASSUME NEW i \in DOMAIN entries'
                 PROVE  WasHeld(entries[i].v, entries[i].r, entries[i].l)'
      OBVIOUS
    <2>1. CASE i \in DOMAIN entries /\ entries'[i] = entries[i]
      BY <2>1, HeldGrows DEF Held
    <2>2. CASE ~(i \in DOMAIN entries /\ entries'[i] = entries[i])
      BY <2>2, HeldGrows DEF Transits
    <2> QED
      BY <2>1, <2>2
  <1>7. worktree' # NoFence => WasHeld(worktree.v, worktree.r, worktree.l)'
    BY HeldGrows DEF Held, NoFence, Fence
  <1> QED
    BY <1>1, <1>2, <1>3, <1>4, <1>5, <1>6, <1>7 DEF Held, NoFence, Fence

\* A step that leaves the history alone may begin an attempt or register the
\* worktree, at the live fence of a phase.
LEMMA HeldQuiet ==
    ASSUME Typed, Held, UNCHANGED <<leader, ticket, hist, owner, requests, epochs, entries>>,
           pc' = "serving" => pc = "serving",
           worktree' = worktree \/ (worktree' = Live /\ pc = "serving" /\ ticket.state \in Phases),
           \A i \in DOMAIN claims' :
               \/ i \in DOMAIN claims /\ claims'[i].v = claims[i].v
                     /\ claims'[i].r = claims[i].r /\ claims'[i].l = claims[i].l
               \/ /\ pc = "serving" /\ ticket.state \in Phases
                  /\ claims'[i].v = ticket.version /\ claims'[i].r = ticket.runner
                  /\ claims'[i].l = leader
    PROVE  Held'
  <1>1. pc = "serving" /\ ticket.state \in Phases =>
            WasHeld(ticket.version, ticket.runner, leader)
    <2>1. ticket.version \in 1 .. Len(owner) /\ owner[ticket.version] \in OwnerSet
      BY DEF Typed
    <2> QED
      BY <2>1 DEF Held, WasHeld, OwnerSet, Fenceable
  <1>2. \A v, x, l : WasHeld(v, x, l) => WasHeld(v, x, l)'
    BY DEF WasHeld
  <1>3. \A i \in DOMAIN claims' : WasHeld(claims[i].v, claims[i].r, claims[i].l)'
    <2> SUFFICES ASSUME NEW i \in DOMAIN claims'
                 PROVE  WasHeld(claims[i].v, claims[i].r, claims[i].l)'
      OBVIOUS
    <2>1. CASE i \in DOMAIN claims /\ claims'[i].v = claims[i].v
                  /\ claims'[i].r = claims[i].r /\ claims'[i].l = claims[i].l
      BY <2>1, <1>2 DEF Held
    <2>2. CASE ~(i \in DOMAIN claims /\ claims'[i].v = claims[i].v
                  /\ claims'[i].r = claims[i].r /\ claims'[i].l = claims[i].l)
      BY <2>2, <1>1, <1>2
    <2> QED
      BY <2>1, <2>2
  <1>4. worktree' # NoFence => WasHeld(worktree.v, worktree.r, worktree.l)'
    BY <1>1, <1>2 DEF Held, NoFence, Fence, Live
  <1>5. /\ \A v \in DOMAIN hist : hist[v].trig \in {"recovered", "operator_recover"} =>
               WasHeld(v, hist[v].r, hist[v].l)'
        /\ \A q \in requests : WasHeld(q.v, q.r, q.l)'
        /\ \A x \in epochs : WasHeld(x.exV + 1, x.r, x.l)'
        /\ \A i \in DOMAIN entries : WasHeld(entries[i].v, entries[i].r, entries[i].l)'
    BY <1>2 DEF Held
  <1> QED
    BY <1>3, <1>4, <1>5 DEF Held, NoFence, Fence

\* A recovery row names a real predecessor; other transitions add no row.
LEMMA PriorStep ==
    ASSUME Typed, PriorHeldTicket, Transits,
           New.trig = "recovered" =>
               \E w \in 1 .. ticket.version : owner[w] = [r |-> New.r - 1, l |-> New.pl]
    PROVE  PriorHeldTicket'
  <1> SUFFICES ASSUME NEW v \in Rows'
               PROVE  \E w \in 1 .. v - 1 : owner'[w] = [r |-> hist'[v].r - 1, l |-> hist'[v].pl]
    BY DEF PriorHeldTicket
  <1>1. v \in 1 .. ticket.version + 1 /\ hist'[v].trig = "recovered"
    BY DEF Rows, Recovered, Transits
  <1>2. CASE v \in 1 .. ticket.version
    <2>1. v \in Rows
      BY <1>1, <1>2 DEF Rows, Recovered, Transits, Typed
    <2>2. PICK w \in 1 .. v - 1 : owner[w] = [r |-> hist[v].r - 1, l |-> hist[v].pl]
      BY <2>1 DEF PriorHeldTicket
    <2>3. w \in 1 .. ticket.version
      BY <1>2, <2>2 DEF Typed
    <2> QED
      BY <1>2, <2>2, <2>3 DEF Transits
  <1>3. CASE v = ticket.version + 1
    <2>1. PICK w \in 1 .. ticket.version : owner[w] = [r |-> New.r - 1, l |-> New.pl]
      BY <1>1, <1>3 DEF New
    <2> QED
      BY <1>3, <2>1 DEF New, Transits, Typed
  <1> QED
    BY <1>1, <1>2, <1>3 DEF Typed

\* What a transition adds to the decisions and to the accepted amendments.
LEMMA CountStep ==
    ASSUME Typed, Transits
    PROVE  /\ IsFiniteSet(Accepted) /\ Cardinality(Accepted) \in Nat
           /\ Accepted \subseteq 1 .. ticket.version /\ Decisions \subseteq 1 .. ticket.version
           /\ New.trig # "amendment_accepted" => Accepted' = Accepted
           /\ New.trig = "amendment_accepted" =>
                  Cardinality(Accepted') = Cardinality(Accepted) + 1
           /\ New.trig \notin Decided => Decisions' = Decisions
           /\ New.trig \in Decided => Decisions' = Decisions \union {ticket.version + 1}
  <1>1. DOMAIN hist = 1 .. ticket.version /\ DOMAIN hist' = 1 .. ticket.version + 1
    BY DEF Typed, Transits
  <1>2. /\ Accepted \subseteq 1 .. ticket.version /\ Decisions \subseteq 1 .. ticket.version
        /\ ticket.version + 1 \notin 1 .. ticket.version
    BY <1>1 DEF Accepted, Decisions, Typed
  <1>3. IsFiniteSet(Accepted) /\ Cardinality(Accepted) \in Nat
    <2>1. IsFiniteSet(1 .. ticket.version)
      BY FS_Interval DEF Typed
    <2> QED
      BY <1>2, <2>1, FS_Subset, FS_CardinalityType
  <1>4. 1 .. ticket.version + 1 = (1 .. ticket.version) \union {ticket.version + 1}
    BY DEF Typed
  <1>5. /\ New.trig # "amendment_accepted" => Accepted' = Accepted
        /\ New.trig = "amendment_accepted" => Accepted' = Accepted \union {ticket.version + 1}
    BY <1>1, <1>2, <1>4 DEF Accepted, New, Transits
  <1>6. /\ New.trig \notin Decided => Decisions' = Decisions
        /\ New.trig \in Decided => Decisions' = Decisions \union {ticket.version + 1}
    BY <1>1, <1>2, <1>4 DEF Decisions, New, Transits
  <1>7. ticket.version + 1 \notin Accepted
    BY <1>2
  <1> QED
    BY <1>2, <1>3, <1>5, <1>6, <1>7, FS_AddElement

-----------------------------------------------------------------------------
(* What a transition does to the control row, the entries and the counts *)

\* The control row after a transition is the old one, or bears the new fence, or
\* is sealed at the fence the transition leaves.
LEMMA ControlledStep ==
    ASSUME Typed, Held, Controlled, Transits, control' \in ControlSet,
           control'.auth.v <= ticket.version \/ control'.auth = Live',
           \/ control'.stop = control.stop /\ (control'.st # "none" => control.st # "none")
           \/ control'.stop = Live'
           \/ /\ control'.stop = Live
              /\ hist[ticket.version].trig = "operator_pause_or_take" =>
                     WasHeld(ticket.version, ticket.runner, leader)
    PROVE  Controlled'
  <1>1. ticket.version \in Nat \ {0} /\ ticket'.version = ticket.version + 1
    BY DEF Typed, Transits
  <1>2. control'.auth.v <= ticket'.version /\ control'.stop.v <= ticket'.version
    BY <1>1 DEF Controlled, ControlSet, Points, Live, Fence
  <1>3. Live'.l = leader /\ Live'.v = ticket'.version /\ Live'.r = ticket'.runner
    BY DEF Live, Fence, Transits
  <1>4. ASSUME control'.auth.v = ticket'.version
        PROVE  WasHeld(ticket.version, ticket.runner, control.auth.l)'
    <2>1. control'.auth = Live'
      BY <1>1, <1>4 DEF Controlled, ControlSet, Points
    <2> QED
      BY <2>1, <1>3, HeldGrows DEF Transits
  <1>5. ASSUME control'.stop.v = ticket'.version
        PROVE  WasHeld(ticket.version, ticket.runner, control.stop.l)'
    <2>1. control'.stop = Live'
      BY <1>1, <1>5 DEF Controlled, ControlSet, Points, Live, Fence
    <2> QED
      BY <2>1, <1>3, HeldGrows DEF Transits
  <1>6. ASSUME control'.st # "none", control'.stop.v >= 1,
               hist'[control'.stop.v].trig = "operator_pause_or_take"
        PROVE  WasHeld(control.stop.v, control.stop.r, control.stop.l)'
    <2>1. CASE control'.stop = control.stop /\ control.st # "none"
      <3>1. control.stop.v \in 1 .. ticket.version
        BY <1>1, <1>6, <2>1 DEF Controlled, ControlSet, Points
      <3>2. hist'[control.stop.v] = hist[control.stop.v]
        BY <3>1 DEF Transits
      <3>3. WasHeld(control.stop.v, control.stop.r, control.stop.l)
        BY <1>6, <2>1, <3>1, <3>2 DEF Controlled
      <3> QED
        BY <2>1, <3>3, HeldGrows
    <2>2. CASE control'.stop = Live'
      BY <2>2, <1>3, HeldGrows DEF Transits
    <2>3. CASE /\ control'.stop = Live
               /\ hist[ticket.version].trig = "operator_pause_or_take" =>
                     WasHeld(ticket.version, ticket.runner, leader)
      <3>1. control'.stop = Fence(ticket.version, ticket.runner, leader)
        BY <2>3 DEF Live
      <3>2. hist'[ticket.version] = hist[ticket.version]
        BY <1>1 DEF Transits
      <3>3. WasHeld(ticket.version, ticket.runner, leader)
        BY <1>6, <2>3, <3>1, <3>2 DEF Fence
      <3> QED
        BY <3>1, <3>3, HeldGrows DEF Fence
    <2> QED
      BY <1>6, <2>1, <2>2, <2>3
  <1> QED
    BY <1>2, <1>4, <1>5, <1>6 DEF Controlled, Speaks, ControlSet

\* A new daemon fails the attempts of the dead one and leaves the others.
LEMMA RetiredIs ==
    ASSUME Typed, claims' \in {claims, Retired}
    PROVE  /\ claims' \in Seq(ClaimSet) /\ DOMAIN claims' = DOMAIN claims
           /\ Len(claims') = Len(claims)
           /\ \A i \in DOMAIN claims :
                 /\ claims'[i].ph = claims[i].ph /\ claims'[i].v = claims[i].v
                 /\ claims'[i].r = claims[i].r /\ claims'[i].l = claims[i].l
                 /\ claims'[i].entry = claims[i].entry
                 /\ claims'[i].st \in {"active", "completed"} => claims'[i].st = claims[i].st
  <1>1. claims \in Seq(ClaimSet) /\ DOMAIN claims = 1 .. Len(claims) /\ Len(claims) \in Nat
    BY DEF Typed
  <1>2. CASE claims' = claims
    BY <1>1, <1>2
  <1>3. CASE claims' = Retired
    <2> DEFINE c(i) == [claims[i] EXCEPT !.st = "failed"]
    <2>1. ASSUME NEW i \in DOMAIN claims
          PROVE  /\ claims[i] \in ClaimSet /\ c(i) \in ClaimSet
                 /\ c(i).ph = claims[i].ph /\ c(i).v = claims[i].v /\ c(i).r = claims[i].r
                 /\ c(i).l = claims[i].l /\ c(i).entry = claims[i].entry /\ c(i).st = "failed"
      <3>1. claims[i] \in ClaimSet
        BY <1>1
      <3> QED
        BY <3>1 DEF ClaimSet
    <2>2. claims' = [i \in 1 .. Len(claims) |->
                        IF claims[i].st = "active" THEN c(i) ELSE claims[i]]
      BY <1>1, <1>3 DEF Retired
    <2> HIDE DEF c
    <2>3. \A i \in 1 .. Len(claims) : claims'[i] \in ClaimSet
      BY <1>1, <2>1, <2>2
    <2>4. claims' \in Seq(ClaimSet) /\ Len(claims') = Len(claims)
      <3>1. claims' \in [1 .. Len(claims) -> ClaimSet]
        BY <2>2, <2>3
      <3> QED
        BY <1>1, <3>1
    <2> QED
      BY <1>1, <2>1, <2>2, <2>4
  <1> QED
    BY <1>2, <1>3

\* A transition may enter a phase, and a request comes with its entry.
LEMMA OrderedStep ==
    ASSUME Typed, Held, Ordered, Transits, claims' \in {claims, Retired},
           \/ entries' = entries
           \/ \E ph \in Phases : entries' = Append(entries,
                 [ph |-> ph, v |-> ticket.version + 1, r |-> ticket.runner, l |-> leader]),
           \A q \in requests' :
               \/ q \in requests
               \/ \E k \in DOMAIN entries' : entries'[k].ph = "verifying" /\ entries'[k].v = q.v
    PROVE  Ordered' /\ entries' \in Seq(EntrySet)
                    /\ \A i \in DOMAIN entries : i \in DOMAIN entries' /\ entries'[i] = entries[i]
  <1>0. /\ DOMAIN entries = 1 .. Len(entries) /\ Len(entries) \in Nat
        /\ \A i \in DOMAIN entries : entries[i] \in EntrySet
    BY DEF Typed
  <1>8. Len(owner) = ticket.version /\ ticket.version \in Nat
    BY DEF Typed
  <1>1. \A i \in DOMAIN entries : entries[i].v \in Nat /\ entries[i].v <= ticket.version
    <2> SUFFICES ASSUME NEW i \in DOMAIN entries
                 PROVE  entries[i].v \in Nat /\ entries[i].v <= ticket.version
      OBVIOUS
    <2>1. WasHeld(entries[i].v, entries[i].r, entries[i].l)
      BY DEF Held
    <2>2. entries[i].v \in Nat
      BY <1>0 DEF EntrySet
    <2> QED
      BY <1>8, <2>1, <2>2 DEF WasHeld
  <1>2. /\ entries' \in Seq(EntrySet)
        /\ \A i \in DOMAIN entries : i \in DOMAIN entries' /\ entries'[i] = entries[i]
        /\ \A i \in DOMAIN entries' :
              \/ i \in DOMAIN entries
              \/ i = Len(entries) + 1 /\ entries'[i].v = ticket.version + 1
    <2>1. CASE entries' = entries
      BY <2>1 DEF Typed
    <2>2. CASE entries' # entries
      <3>1. PICK ph \in Phases : entries' = Append(entries,
                 [ph |-> ph, v |-> ticket.version + 1, r |-> ticket.runner, l |-> leader])
        BY <2>2
      <3> DEFINE n == [ph |-> ph, v |-> ticket.version + 1, r |-> ticket.runner, l |-> leader]
      <3>2. n \in EntrySet
        BY DEF Typed, EntrySet
      <3>3. n.v = ticket.version + 1
        OBVIOUS
      <3> HIDE DEF n
      <3> QED
        BY <3>1, <3>2, <3>3 DEF Typed, n
    <2> QED
      BY <2>1, <2>2
  <1>3. \A i, j \in DOMAIN entries' : i < j => entries'[i].v <= entries'[j].v
    <2> SUFFICES ASSUME NEW i \in DOMAIN entries', NEW j \in DOMAIN entries', i < j
                 PROVE  entries'[i].v <= entries'[j].v
      OBVIOUS
    <2>1. i \in DOMAIN entries
      <3>1. CASE i = Len(entries) + 1
        <4>1. j \in Nat /\ j <= Len(entries) + 1
          BY <1>0, <1>2
        <4> QED
          BY <1>0, <3>1, <4>1
      <3> QED
        BY <1>2, <3>1
    <2>2. CASE j \in DOMAIN entries
      BY <1>2, <2>1, <2>2 DEF Ordered
    <2>3. CASE j \notin DOMAIN entries
      BY <1>1, <1>2, <2>1, <2>3 DEF Typed
    <2> QED
      BY <2>2, <2>3
  <1>4. \A q \in requests' : \E k \in DOMAIN entries' :
            entries'[k].ph = "verifying" /\ entries'[k].v = q.v
    BY <1>2 DEF Ordered
  <1>5. /\ \A i \in DOMAIN claims' : claims'[i].st = "active" => i = Len(claims')
        /\ \A i \in DOMAIN claims' : claims'[i].entry <= claims'[i].v
        /\ \A i, j \in DOMAIN claims' : i < j => claims'[i].v <= claims'[j].v
    BY RetiredIs DEF Ordered
  <1> QED
    BY <1>2, <1>3, <1>4, <1>5 DEF Ordered

\* A transition that decides nothing, asks for nothing and stays where it is, or
\* cancels, keeps the count.
LEMMA CountedStep ==
    ASSUME Typed, Counted, Transits, UNCHANGED <<requests, revs>>,
           New.trig \notin Decided,
           Where' = Where \/ Where' \in {"cancelling", "cancelled"}
    PROVE  Counted'
  <1>1. Accepted' = Accepted /\ Decisions' = Decisions
    BY CountStep DEF Decided
  <1>2. Unresolved' = Unresolved
    BY <1>1 DEF Unresolved
  <1> QED
    BY <1>1, <1>2 DEF Counted

-----------------------------------------------------------------------------
(* A transition and everything but the count *)

\* The tables beside the history grow only by rows that bear the new fence.
Bears ==
    /\ claims' \in {claims, Retired} /\ worktree' = worktree
    /\ \A q \in requests' :
          \/ q \in requests
          \/ /\ q.v = ticket.version + 1 /\ q.r = ticket'.runner /\ q.l = leader
             /\ q.prior \in Nat
             /\ \E k \in DOMAIN entries' : entries'[k].ph = "verifying" /\ entries'[k].v = q.v
    /\ \A x \in epochs' :
          \/ x \in epochs
          \/ x.exV = ticket.version /\ x.r = ticket'.runner /\ x.l = leader
    /\ \/ entries' = entries
       \/ /\ ticket'.runner = ticket.runner
          /\ \E ph \in Phases : entries' = Append(entries,
                [ph |-> ph, v |-> ticket.version + 1, r |-> ticket.runner, l |-> leader])

\* The control row as ControlledStep allows it.
Controls ==
    /\ control' \in ControlSet
    /\ control'.auth.v <= ticket.version \/ control'.auth = Live'
    /\ \/ control'.stop = control.stop /\ (control'.st # "none" => control.st # "none")
       \/ control'.stop = Live'
       \/ /\ control'.stop = Live
          /\ hist[ticket.version].trig = "operator_pause_or_take" =>
                 WasHeld(ticket.version, ticket.runner, leader)

\* The ticket leaves the queue with its first entry.
Starts ==
    /\ ticket'.state # "queued"
    /\ ticket'.state \in Phases \union Halted =>
          ticket.state \in Phases \union Halted \/ entries' # entries
    /\ entries' # entries => entries # <<>> \/ ticket.runner = 1

LEMMA StartedStep ==
    ASSUME Typed, Started, Starts, Bears
    PROVE  Started'
  <1>1. CASE entries' = entries
    BY <1>1 DEF Started, Starts
  <1>2. CASE entries' # entries
    <2>1. PICK ph \in Phases : entries' = Append(entries,
                [ph |-> ph, v |-> ticket.version + 1, r |-> ticket.runner, l |-> leader])
      BY <1>2 DEF Bears
    <2> DEFINE n == [ph |-> ph, v |-> ticket.version + 1, r |-> ticket.runner, l |-> leader]
    <2>2. n \in EntrySet /\ n.r = ticket.runner
      BY DEF Typed, EntrySet
    <2> HIDE DEF n
    <2>3. entries' = Append(entries, n)
      BY <2>1 DEF n
    <2>4. CASE entries = <<>>
      BY <1>2, <2>2, <2>3, <2>4 DEF Started, Starts
    <2>5. CASE entries # <<>>
      <3>1. 1 \in DOMAIN entries /\ entries \in Seq(EntrySet)
        BY <2>5 DEF Typed
      <3>2. entries'[1] = entries[1] /\ entries' # <<>>
        BY <2>2, <2>3, <3>1
      <3> QED
        BY <2>5, <3>2 DEF Started, Starts
    <2> QED
      BY <2>4, <2>5
  <1> QED
    BY <1>1, <1>2

\* The whole invariant but its count after a transition.
LEMMA MoveInv ==
    ASSUME Inv, Transits, Returns', Bears, Controls, Starts,
           New.trig \in {"recovered", "operator_recover"} =>
               New.r = ticket'.runner /\ New.l = leader,
           New.trig = "recovered" =>
               \E w \in 1 .. ticket.version : owner[w] = [r |-> New.r - 1, l |-> New.pl]
    PROVE  /\ Typed' /\ Held' /\ Started' /\ Controlled' /\ Ordered'
           /\ PriorHeldTicket' /\ CompletedIsNotRerun'
  <1>1. Ordered' /\ entries' \in Seq(EntrySet)
                 /\ \A i \in DOMAIN entries : i \in DOMAIN entries' /\ entries'[i] = entries[i]
    BY OrderedStep DEF Inv, Bears
  <1>2. \A q \in requests' : q.v \in Nat /\ q.prior \in Nat
    BY DEF Inv, Typed, Bears
  <1>0. Typed /\ Held /\ claims' \in {claims, Retired}
    BY DEF Inv, Bears
  <1>3. Typed'
    BY <1>0, <1>1, <1>2, RetiredIs, TypedStep
  <1>4. \A i \in DOMAIN entries' :
            \/ i \in DOMAIN entries /\ entries'[i] = entries[i]
            \/ /\ entries'[i].v = ticket.version + 1 /\ entries'[i].r = ticket'.runner
               /\ entries'[i].l = leader
    <2>1. CASE entries' = entries
      BY <2>1
    <2>2. CASE entries' # entries
      <3>1. PICK ph \in Phases : entries' = Append(entries,
                [ph |-> ph, v |-> ticket.version + 1, r |-> ticket.runner, l |-> leader])
        BY <2>2 DEF Bears
      <3> DEFINE n == [ph |-> ph, v |-> ticket.version + 1, r |-> ticket.runner, l |-> leader]
      <3>2. n \in EntrySet /\ n.v = ticket.version + 1 /\ n.r = ticket.runner /\ n.l = leader
        BY DEF Inv, Typed, EntrySet
      <3> HIDE DEF n
      <3>3. entries' = Append(entries, n) /\ entries \in Seq(EntrySet)
        BY <3>1 DEF n, Inv, Typed
      <3>4. \A i \in DOMAIN entries' : i \in DOMAIN entries \/ entries'[i] = n
        BY <3>2, <3>3
      <3> QED
        BY <1>1, <2>2, <3>2, <3>4 DEF Bears
    <2> QED
      BY <2>1, <2>2
  <1>5. Held'
    BY <1>0, <1>4, RetiredIs, HeldStep DEF Bears
  <1>6. Started'
    BY StartedStep DEF Inv
  <1>7. Controlled'
    BY ControlledStep DEF Inv, Controls
  <1>8. PriorHeldTicket'
    BY PriorStep DEF Inv
  <1>9. CompletedIsNotRerun'
    BY <1>0, RetiredIs DEF Inv, CompletedIsNotRerun
  <1> QED
    BY <1>1, <1>3, <1>5, <1>6, <1>7, <1>8, <1>9

\* Step is such a transition, whatever the event.
LEMMA StepIs ==
    ASSUME Typed, leader' = leader, NEW e \in EventSet, NEW st \in States,
           NEW rs \in Phases \union {"none"}, NEW r \in Nat, NEW c \in Codes,
           Step(e, st, rs, r, c)
    PROVE  /\ Transits /\ New = e
           /\ ticket'.state = st /\ ticket'.resume = rs /\ ticket'.runner = r
  <1>1. /\ hist' = Append(hist, e)
        /\ ticket' = [state |-> st, resume |-> rs, version |-> ticket.version + 1,
                      runner |-> r, code |-> c]
        /\ owner' = Append(owner, [r |-> ticket'.runner, l |-> leader])
    BY DEF Step
  <1>2. ticket' \in [state : States, resume : Phases \union {"none"}, version : Nat,
                     runner : Nat, code : Codes]
    BY <1>1 DEF Typed
  <1>3. Transits
    BY <1>1, <1>2, StepTransits
  <1>4. hist'[ticket.version + 1] = e
    BY <1>1 DEF Typed
  <1> QED
    BY <1>1, <1>3, <1>4 DEF New

\* Move is one of the runner that the ticket has.
LEMMA MoveIs ==
    ASSUME Typed, leader' = leader, NEW trig \in Triggers, NEW st \in States,
           NEW rs \in Phases \union {"none"}, Move(trig, st, rs)
    PROVE  /\ Transits /\ New.trig = trig
           /\ ticket'.state = st /\ ticket'.resume = rs /\ ticket'.runner = ticket.runner
  <1>1. Event(trig, ticket.state, st) \in EventSet /\ Event(trig, ticket.state, st).trig = trig
    BY DEF Event, EventSet, Codes, Typed
  <1>2. PICK e \in EventSet : e = Event(trig, ticket.state, st) /\ e.trig = trig
    BY <1>1
  <1>3. PICK r \in Nat : r = ticket.runner
    BY DEF Typed
  <1>4. Step(e, st, rs, r, "none") /\ "none" \in Codes
    BY <1>2, <1>3 DEF Move, Codes
  <1> QED
    BY <1>2, <1>3, <1>4, StepIs

-----------------------------------------------------------------------------
(* Steps that leave the history alone *)

\* They keep all but what they write themselves.
LEMMA QuietInv ==
    ASSUME Inv, UNCHANGED <<leader, ticket, hist, owner, requests, epochs, entries>>,
           pc' = "serving" => pc = "serving",
           worktree' = worktree \/ (worktree' = Live /\ pc = "serving" /\ ticket.state \in Phases),
           claims' \in Seq(ClaimSet),
           \A i \in DOMAIN claims' :
               \/ i \in DOMAIN claims /\ claims'[i].v = claims[i].v
                     /\ claims'[i].r = claims[i].r /\ claims'[i].l = claims[i].l
               \/ /\ pc = "serving" /\ ticket.state \in Phases
                  /\ claims'[i].v = ticket.version /\ claims'[i].r = ticket.runner
                  /\ claims'[i].l = leader
    PROVE  /\ Typed' /\ Held' /\ Started' /\ PriorHeldTicket'
           /\ control' = control => Controlled'
           /\ revs' = revs => Counted'
           /\ claims' = claims => Ordered' /\ CompletedIsNotRerun'
  <1>1. Typed'
    BY DEF Inv, Typed, Returns
  <1>2. Held'
    BY HeldQuiet DEF Inv
  <1>3. Started' /\ PriorHeldTicket'
    BY DEF Inv, Started, PriorHeldTicket, Rows, Recovered
  <1>4. control' = control => Controlled'
    BY DEF Inv, Controlled, Speaks, WasHeld
  <1>5. revs' = revs => Counted'
    BY DEF Inv, Counted, Where, Accepted, Unresolved, Decisions
  <1>6. claims' = claims => Ordered' /\ CompletedIsNotRerun'
    BY DEF Inv, Ordered, CompletedIsNotRerun
  <1> QED
    BY <1>1, <1>2, <1>3, <1>4, <1>5, <1>6

\* The worktree registration and the bindings of results.
LEMMA QuietStep ==
    ASSUME Inv,
           \/ RegisterWorktree
           \/ \E i \in DOMAIN claims : RecordPlan(i) \/ RecordCandidate(i)
    PROVE  Inv'
  <1>1. /\ UNCHANGED <<leader, ticket, hist, owner, requests, epochs, entries, claims, pc,
                       control, revs>>
        /\ worktree' = worktree \/ (worktree' = Live /\ pc = "serving" /\ ticket.state \in Phases)
    BY DEF RegisterWorktree, RecordPlan, RecordCandidate, Bind, At0, Phases
  <1>2. claims' \in Seq(ClaimSet)
    BY <1>1 DEF Inv, Typed
  <1> QED
    BY <1>1, <1>2, QuietInv DEF Inv

\* A fence that the tables cite is of a version so far.
LEMMA CitedBefore ==
    ASSUME Typed, Held
    PROVE  /\ ticket.version \in Nat
           /\ \A q \in requests : q.v \in Nat /\ q.v <= ticket.version
           /\ DOMAIN claims = 1 .. Len(claims) /\ Len(claims) \in Nat
           /\ \A i \in DOMAIN claims : claims[i].v \in Nat /\ claims[i].v <= ticket.version
           /\ \A i \in DOMAIN claims : claims[i].entry \in Nat
           /\ DOMAIN entries = 1 .. Len(entries) /\ Len(entries) \in Nat
           /\ \A i \in DOMAIN entries : entries[i].v \in Nat /\ entries[i].v <= ticket.version
  <1>1. /\ Len(owner) = ticket.version /\ ticket.version \in Nat
        /\ DOMAIN claims = 1 .. Len(claims) /\ Len(claims) \in Nat
        /\ DOMAIN entries = 1 .. Len(entries) /\ Len(entries) \in Nat
        /\ \A i \in DOMAIN claims : claims[i] \in ClaimSet
        /\ \A i \in DOMAIN entries : entries[i] \in EntrySet
        /\ \A q \in requests : q.v \in Nat
    BY DEF Typed
  <1>2. \A v, r, l : WasHeld(v, r, l) => v <= ticket.version
    BY <1>1 DEF WasHeld
  <1>3. \A q \in requests : q.v <= ticket.version
    BY <1>2 DEF Held
  <1>4. \A i \in DOMAIN claims : claims[i].v \in Nat /\ claims[i].v <= ticket.version
    BY <1>1, <1>2 DEF Held, ClaimSet
  <1>5. \A i \in DOMAIN entries : entries[i].v \in Nat /\ entries[i].v <= ticket.version
    BY <1>1, <1>2 DEF Held, EntrySet
  <1>6. \A i \in DOMAIN claims : claims[i].entry \in Nat
    BY <1>1 DEF ClaimSet
  <1> QED
    BY <1>1, <1>3, <1>4, <1>5, <1>6

\* The entry that a new attempt is counted against is the newest of its phase.
LEMMA EntryIsNewest ==
    ASSUME Typed, Held, Ordered, NEW ph \in Phases,
           loadCurrentProviderPhaseEntry(ph, Live) # 0
    PROVE  /\ loadCurrentProviderPhaseEntry(ph, Live) \in Nat
           /\ loadCurrentProviderPhaseEntry(ph, Live) <= ticket.version
           /\ \A k \in DOMAIN entries : entries[k].ph = ph =>
                  entries[k].v <= loadCurrentProviderPhaseEntry(ph, Live)
  <1> DEFINE S == EntriesAt(ph, ticket.version)
             n == Newest(S)
  <1>1. /\ S # {}
        /\ loadCurrentProviderPhaseEntry(ph, Live) = entries[n].v
    <2>1. /\ HasEntry(ph, Live.v)
          /\ loadCurrentProviderPhaseEntry(ph, Live) = EntryAt(ph, Live.v).v
      BY Zenon DEF loadCurrentProviderPhaseEntry
    <2>2. Live.v = ticket.version
      BY DEF Live, Fence
    <2> QED
      BY <2>1, <2>2 DEF HasEntry, EntryAt
  <1>2. S \in SUBSET (1 .. Len(entries)) /\ Len(entries) \in Nat
    BY CitedBefore DEF EntriesAt
  <1>3. n \in S /\ \A y \in S : y <= n
    <2> HIDE DEF S
    <2> QED
      BY <1>1, <1>2, NewestIs
  <1>4. \A k \in DOMAIN entries : entries[k].ph = ph => k \in S
    BY CitedBefore DEF EntriesAt
  <1>5. n \in DOMAIN entries
    BY <1>2, <1>3, CitedBefore
  <1> HIDE DEF S, n
  <1>6. ASSUME NEW k \in DOMAIN entries, entries[k].ph = ph
        PROVE  entries[k].v <= entries[n].v
    <2>1. k <= n /\ k \in Nat /\ n \in Nat
      BY <1>3, <1>4, <1>5, <1>6, CitedBefore
    <2> QED
      BY <1>5, <1>6, <2>1, CitedBefore DEF Ordered
  <1> QED
    BY <1>1, <1>5, <1>6, CitedBefore

\* PendingVerificationAmendment names one open request of a verifying ticket.
LEMMA PendingIs ==
    /\ PendingVerificationAmendment = "none" <=> Unresolved = {}
    /\ PendingVerificationAmendment = "ok" =>
          PendingRequest \in Unresolved /\ PendingRequest \in requests
  <1>1. PendingVerificationAmendment = "none" <=> Unresolved = {}
    BY DEF PendingVerificationAmendment, Unresolved
  <1>2. PendingVerificationAmendment = "ok" => Unresolved # {}
    BY <1>1
  <1>3. Unresolved # {} => PendingRequest \in Unresolved
    BY DEF PendingRequest, Unresolved
  <1> QED
    BY <1>1, <1>2, <1>3 DEF Unresolved

\* A provider is started for an entry only when no attempt of that entry has
\* answered: none of the phase has, or the entry is as new as the open request
\* and the newest answer is older.
LEMMA BeginIsFirst ==
    ASSUME Inv, NEW ph \in Phases, BeginProviderAttempt(ph), NEW i \in DOMAIN claims,
           claims[i].ph = ph, claims[i].st = "completed",
           claims[i].entry = loadCurrentProviderPhaseEntry(ph, Live)
    PROVE  FALSE
  <1> DEFINE n == loadCurrentProviderPhaseEntry(ph, Live)
             S == Completed(ph)
  <1>1. n # 0 /\ Unanswered(ph, LatestReusableProviderAttempt(ph))
    BY DEF BeginProviderAttempt
  <1>2. i \in S /\ S # {}
    BY DEF Completed
  <1>3. LatestReusableProviderAttempt(ph) # "absent"
    BY <1>2 DEF LatestReusableProviderAttempt
  <1>4. /\ ph = "verifying" /\ PendingVerificationAmendment = "ok"
        /\ Baseline(ph).v < PendingRequest.v
    BY <1>1, <1>3 DEF Unanswered
  <1>5. PendingRequest \in requests
    BY <1>4, PendingIs
  <1>6. PICK k \in DOMAIN entries : entries[k].ph = "verifying" /\ entries[k].v = PendingRequest.v
    BY <1>5 DEF Inv, Ordered
  <1>7. entries[k].v <= n /\ n \in Nat
    BY <1>1, <1>4, <1>6, EntryIsNewest DEF Inv
  <1>8. S \in SUBSET (1 .. Len(claims)) /\ Len(claims) \in Nat
    BY CitedBefore DEF Completed, Inv
  <1>9. Newest(S) \in S /\ i <= Newest(S)
    <2> HIDE DEF S
    <2> QED
      BY <1>2, <1>8, NewestIs
  <1>10. Newest(S) \in DOMAIN claims /\ Newest(S) \in Nat /\ i \in Nat
    BY <1>8, <1>9, <1>2, CitedBefore DEF Inv
  <1>11. claims[i].v <= Baseline(ph).v
    <2>1. CASE i = Newest(S)
      BY <2>1, CitedBefore DEF Baseline, Inv
    <2>2. CASE i # Newest(S)
      BY <2>2, <1>9, <1>10 DEF Baseline, Inv, Ordered
    <2> QED
      BY <2>1, <2>2
  <1>12. claims[i].entry <= claims[i].v
    BY DEF Inv, Ordered
  <1>13. /\ claims[i].entry \in Nat /\ claims[i].v \in Nat /\ Baseline(ph).v \in Nat
         /\ PendingRequest.v \in Nat
    BY <1>5, <1>10, CitedBefore DEF Baseline, Inv
  <1> HIDE DEF S
  <1> QED
    BY <1>4, <1>6, <1>7, <1>11, <1>12, <1>13

LEMMA BeginStep ==
    ASSUME Inv, NEW ph \in Phases, BeginProviderAttempt(ph)
    PROVE  Inv'
  <1> DEFINE n == loadCurrentProviderPhaseEntry(ph, Live)
             c == [ph |-> ph, v |-> ticket.version, r |-> ticket.runner, l |-> leader,
                   entry |-> n, st |-> "active", says |-> "none"]
             m == Len(claims) + 1
  <1>1. /\ pc = "serving" /\ ticket.state = ph /\ n # 0 /\ NoneActive
        /\ claims' = Append(claims, c)
        /\ UNCHANGED <<leader, ticket, hist, owner, entries, epochs, requests, revs, control,
                       worktree, pc>>
    BY DEF BeginProviderAttempt, At0
  <1>2. n \in Nat /\ n <= ticket.version
    BY <1>1, EntryIsNewest DEF Inv
  <1>3. /\ c \in ClaimSet /\ c.ph = ph /\ c.v = ticket.version /\ c.r = ticket.runner
        /\ c.l = leader /\ c.entry = n /\ c.st = "active"
    BY <1>2 DEF ClaimSet, Says, Inv, Typed
  <1> HIDE DEF c, n
  <1>4. claims \in Seq(ClaimSet) /\ DOMAIN claims = 1 .. Len(claims) /\ Len(claims) \in Nat
    BY DEF Inv, Typed
  <1>5. /\ claims' \in Seq(ClaimSet) /\ DOMAIN claims' = 1 .. m /\ Len(claims') = m
        /\ \A i \in DOMAIN claims : claims'[i] = claims[i]
        /\ claims'[m] = c
    BY <1>1, <1>3, <1>4
  <1>6. \A i \in DOMAIN claims' : i \in DOMAIN claims \/ i = m
    BY <1>4, <1>5
  <1>7. /\ Typed' /\ Held' /\ Started' /\ PriorHeldTicket' /\ Controlled' /\ Counted'
    BY <1>1, <1>3, <1>5, <1>6, QuietInv
  <1>8. Ordered'
    <2>1. \A i \in DOMAIN claims' : claims'[i].st = "active" => i = Len(claims')
      BY <1>1, <1>5, <1>6 DEF NoneActive
    <2>2. \A i \in DOMAIN claims' : claims'[i].entry <= claims'[i].v
      BY <1>2, <1>3, <1>5, <1>6 DEF Inv, Ordered
    <2>3. \A i, j \in DOMAIN claims' : i < j => claims'[i].v <= claims'[j].v
      <3> SUFFICES ASSUME NEW i \in DOMAIN claims', NEW j \in DOMAIN claims', i < j
                   PROVE  claims'[i].v <= claims'[j].v
        OBVIOUS
      <3>1. i \in DOMAIN claims
        BY <1>4, <1>5
      <3>2. CASE j \in DOMAIN claims
        BY <3>1, <3>2, <1>5 DEF Inv, Ordered
      <3>3. CASE j = m
        BY <3>1, <3>3, <1>3, <1>5, CitedBefore DEF Inv
      <3> QED
        BY <1>6, <3>2, <3>3
    <2> QED
      BY <1>1, <2>1, <2>2, <2>3 DEF Inv, Ordered
  <1>9. CompletedIsNotRerun'
    <2> SUFFICES ASSUME NEW i \in DOMAIN claims', NEW j \in DOMAIN claims', i < j,
                        claims'[i].ph = claims'[j].ph, claims'[i].entry = claims'[j].entry,
                        claims'[i].st = "completed"
                 PROVE  FALSE
      BY DEF CompletedIsNotRerun
    <2>1. i \in DOMAIN claims
      BY <1>4, <1>5
    <2>2. CASE j \in DOMAIN claims
      BY <2>1, <2>2, <1>5 DEF Inv, CompletedIsNotRerun
    <2>3. CASE j = m
      <3>1. claims[i].ph = ph /\ claims[i].st = "completed" /\ claims[i].entry = n
        BY <2>1, <2>3, <1>3, <1>5
      <3> QED
        BY <2>1, <3>1, BeginIsFirst DEF n
    <2> QED
      BY <1>6, <2>2, <2>3
  <1> QED
    BY <1>7, <1>8, <1>9 DEF Inv

\* An answer or a failure settles the newest attempt.
LEMMA SettleStep ==
    ASSUME Inv, NEW i \in DOMAIN claims, CompleteAttempt(i) \/ FailAttempt(i)
    PROVE  Inv'
  <1>1. PICK st \in {"completed", "failed"}, says \in Says :
            claims' = [claims EXCEPT ![i].st = st, ![i].says = says]
    <2>1. CASE CompleteAttempt(i)
      <3>1. PICK says \in Answer(claims[i].ph) : Settle(i, "completed", says)
        BY <2>1 DEF CompleteAttempt
      <3>2. claims[i].ph \in Phases
        <4>1. claims[i] \in ClaimSet
          BY DEF Inv, Typed
        <4> QED
          BY <4>1 DEF ClaimSet
      <3>3. says \in Says
        BY <3>2 DEF Answer, Phases, Says
      <3> QED
        BY <3>1, <3>3 DEF Settle
    <2>2. CASE FailAttempt(i)
      BY <2>2 DEF FailAttempt, Settle, Says
    <2> QED
      BY <2>1, <2>2
  <1>2. /\ claims[i].st = "active"
        /\ UNCHANGED <<leader, ticket, hist, owner, entries, epochs, requests, revs, control,
                       worktree, pc>>
    BY DEF CompleteAttempt, FailAttempt, Settle
  <1>3. claims \in Seq(ClaimSet) /\ DOMAIN claims = 1 .. Len(claims) /\ Len(claims) \in Nat
    BY DEF Inv, Typed
  <1>4. claims[i] \in ClaimSet
    BY <1>3
  <1> DEFINE c == [claims[i] EXCEPT !.st = st, !.says = says]
  <1>5. /\ c \in ClaimSet /\ c.ph = claims[i].ph /\ c.v = claims[i].v /\ c.r = claims[i].r
        /\ c.l = claims[i].l /\ c.entry = claims[i].entry /\ c.st = st
    BY <1>4 DEF ClaimSet, Says
  <1>6. claims' = [claims EXCEPT ![i] = c]
    BY <1>1
  <1> HIDE DEF c
  <1>7. /\ claims' \in Seq(ClaimSet) /\ DOMAIN claims' = DOMAIN claims /\ Len(claims') = Len(claims)
        /\ claims'[i] = c /\ \A j \in DOMAIN claims : j # i => claims'[j] = claims[j]
    BY <1>3, <1>5, <1>6
  <1>8. \A j \in DOMAIN claims : /\ claims'[j].ph = claims[j].ph /\ claims'[j].v = claims[j].v
                                 /\ claims'[j].r = claims[j].r /\ claims'[j].l = claims[j].l
                                 /\ claims'[j].entry = claims[j].entry
    BY <1>5, <1>7
  <1>9. /\ Typed' /\ Held' /\ Started' /\ PriorHeldTicket' /\ Controlled' /\ Counted'
    BY <1>2, <1>7, <1>8, QuietInv
  <1>10. Ordered'
    <2>1. \A j \in DOMAIN claims' : claims'[j].st = "active" => j = Len(claims')
      BY <1>1, <1>5, <1>7 DEF Inv, Ordered
    <2> QED
      BY <1>2, <1>7, <1>8, <2>1 DEF Inv, Ordered
  <1>11. CompletedIsNotRerun'
    <2> SUFFICES ASSUME NEW j \in DOMAIN claims', NEW k \in DOMAIN claims', j < k,
                        claims'[j].ph = claims'[k].ph, claims'[j].entry = claims'[k].entry
                 PROVE  claims'[j].st # "completed"
      BY DEF CompletedIsNotRerun
    <2>1. i = Len(claims)
      BY <1>2 DEF Inv, Ordered
    <2>2. j # i
      BY <1>3, <1>7, <2>1
    <2> QED
      BY <1>7, <1>8, <2>2 DEF Inv, CompletedIsNotRerun
  <1> QED
    BY <1>9, <1>10, <1>11 DEF Inv

\* A new revision is the first, or the one that the open request waits for.
LEMMA RevisionStep ==
    ASSUME Inv, NEW i \in DOMAIN claims, RecordVerification(i)
    PROVE  Inv'
  <1>1. /\ UNCHANGED <<leader, ticket, hist, owner, requests, epochs, entries, claims, pc,
                       control, worktree>>
        /\ ticket.state = "verifying"
    BY DEF RecordVerification, Bind, Usable, At0
  <1>2. claims' \in Seq(ClaimSet)
    BY <1>1 DEF Inv, Typed
  <1>3. /\ Typed' /\ Held' /\ Started' /\ PriorHeldTicket' /\ Controlled' /\ Ordered'
        /\ CompletedIsNotRerun'
    BY <1>1, <1>2, QuietInv
  <1>4. Where = "verifying" /\ Where' = "verifying"
    BY <1>1 DEF Where, Halted
  <1>5. Accepted' = Accepted /\ Unresolved' = Unresolved
    BY <1>1 DEF Accepted, Unresolved, Decisions
  <1>6. \/ revs' = revs
        \/ /\ Len(revs) = 0 /\ PendingVerificationAmendment = "none"
           /\ revs' = <<[claim |-> i, amends |-> 0]>>
        \/ /\ PendingVerificationAmendment = "ok" /\ Len(revs) = PendingRequest.prior
           /\ revs' = Append(revs, [claim |-> i, amends |-> Len(revs)])
    BY DEF RecordVerification
  <1>7. Counted'
    <2>1. CASE revs' = revs
      BY <1>4, <1>5, <2>1, <1>1 DEF Inv, Counted
    <2>2. CASE /\ Len(revs) = 0 /\ PendingVerificationAmendment = "none"
               /\ revs' = <<[claim |-> i, amends |-> 0]>>
      <3>1. Unresolved = {} /\ Len(revs') = 1
        BY <2>2, PendingIs
      <3> QED
        BY <1>1, <1>4, <1>5, <3>1 DEF Inv, Counted
    <2>3. CASE /\ PendingVerificationAmendment = "ok" /\ Len(revs) = PendingRequest.prior
               /\ revs' = Append(revs, [claim |-> i, amends |-> Len(revs)])
      <3>1. PendingRequest \in Unresolved /\ PendingRequest \in requests
        BY <2>3, PendingIs
      <3>2. PICK q \in Unresolved : /\ Unresolved = {q} /\ q.prior = 1 + Cardinality(Accepted)
                                   /\ Len(revs) \in {q.prior, q.prior + 1}
        BY <1>4, <3>1 DEF Inv, Counted
      <3>3. q = PendingRequest /\ q \in requests
        BY <3>1, <3>2
      <3>4. Len(revs') = q.prior + 1
        BY <2>3, <3>3 DEF Inv, Typed
      <3> QED
        BY <1>1, <1>4, <1>5, <3>2, <3>4 DEF Inv, Counted
    <2> QED
      BY <1>6, <2>1, <2>2, <2>3
  <1> QED
    BY <1>3, <1>7 DEF Inv

\* A control row is sealed on a paused ticket, or admitted at the live fence.
LEMMA ControlStep ==
    ASSUME Inv, SealRuntimeControl \/ Rearm
    PROVE  Inv'
  <1>1. UNCHANGED <<leader, ticket, hist, owner, requests, epochs, entries, claims, pc, revs,
                    worktree>>
    BY DEF SealRuntimeControl, Rearm
  <1>2. claims' \in Seq(ClaimSet)
    BY <1>1 DEF Inv, Typed
  <1>3. /\ Typed' /\ Held' /\ Started' /\ PriorHeldTicket' /\ Ordered' /\ Counted'
        /\ CompletedIsNotRerun'
    BY <1>1, <1>2, QuietInv
  <1>4. /\ Live \in Points /\ Live.v = ticket.version /\ Live.r = ticket.runner /\ Live.l = leader
        /\ ticket.version <= ticket.version
    BY DEF Live, Fence, Points, Inv, Typed
  <1>5. Controlled'
    <2>1. CASE SealRuntimeControl
      <3>1. /\ control' = [st |-> "sealed", stop |-> Live, auth |-> Live]
            /\ ticket.state = "paused"
            /\ hist[ticket.version].trig = "retry_or_correction_exhausted"
        BY <2>1 DEF SealRuntimeControl, Sealed, At0
      <3> QED
        BY <1>1, <1>4, <3>1 DEF Controlled, ControlSet, Speaks, Fenceable, Phases
    <2>2. CASE Rearm
      <3>1. /\ control' = [st |-> "open", stop |-> control.stop, auth |-> Live]
            /\ pc = "serving" /\ ticket.state \in Phases /\ control.st = "sealed"
        BY <2>2 DEF Rearm
      <3>2. WasHeld(ticket.version, ticket.runner, leader)
        <4>1. ticket.version \in 1 .. Len(owner) /\ owner[ticket.version] \in OwnerSet
          BY DEF Inv, Typed
        <4> QED
          BY <3>1, <4>1 DEF Inv, Held, WasHeld, OwnerSet, Fenceable
      <3>3. \A v, x, l : WasHeld(v, x, l) => WasHeld(v, x, l)'
        BY <1>1 DEF WasHeld
      <3>4. control' \in ControlSet
        BY <1>4, <3>1 DEF Inv, Controlled, ControlSet
      <3> QED
        BY <1>1, <1>4, <3>1, <3>2, <3>3, <3>4 DEF Inv, Controlled, Speaks, Phases
    <2> QED
      BY <2>1, <2>2
  <1> QED
    BY <1>3, <1>5 DEF Inv

\* The daemon dies, or a new one takes the epoch and closes what was open.
LEMMA DaemonStep ==
    ASSUME Inv, Crash \/ AcquireLeader
    PROVE  Inv'
  <1>1. CASE Crash
    <2>1. /\ UNCHANGED <<leader, ticket, hist, owner, requests, epochs, entries, claims, revs,
                         control, worktree>>
          /\ pc' = "down"
      BY <1>1 DEF Crash, ledger
    <2>2. claims' \in Seq(ClaimSet)
      BY <2>1 DEF Inv, Typed
    <2> QED
      BY <2>1, <2>2, QuietInv DEF Inv
  <1>2. CASE AcquireLeader
    <2>1. /\ UNCHANGED <<ticket, hist, owner, requests, epochs, entries, claims, revs, worktree>>
          /\ leader' = leader + 1 /\ pc' = "acquired"
          /\ control' = IF control.st = "open" THEN [control EXCEPT !.st = "sealed"] ELSE control
      BY <1>2 DEF AcquireLeader
    <2>2. Typed'
      BY <2>1 DEF Inv, Typed, Returns
    <2>3. \A v, x, l : WasHeld(v, x, l) => WasHeld(v, x, l)'
      BY <2>1 DEF WasHeld
    <2>4. Held'
      BY <2>1, <2>3 DEF Inv, Held, NoFence, Fence
    <2>5. /\ control' \in ControlSet /\ control'.stop = control.stop /\ control'.auth = control.auth
          /\ control'.st # "none" => control.st # "none"
      BY <2>1 DEF Inv, Controlled, ControlSet
    <2>6. Controlled'
      BY <2>1, <2>3, <2>5 DEF Inv, Controlled, Speaks
    <2>7. /\ Started' /\ PriorHeldTicket' /\ Ordered' /\ CompletedIsNotRerun'
      BY <2>1 DEF Inv, Started, PriorHeldTicket, Rows, Recovered, Ordered, CompletedIsNotRerun
    <2>8. Counted'
      BY <2>1 DEF Inv, Counted, Where, Accepted, Unresolved, Decisions
    <2> QED
      BY <2>2, <2>4, <2>6, <2>7, <2>8 DEF Inv
  <1> QED
    BY <1>1, <1>2

-----------------------------------------------------------------------------
(* Transitions *)

\* A row that does not move, the row that evidence carries to the new fence, and
\* the seal of a stop are all as Controls allows.
LEMMA ControlsIs ==
    ASSUME Inv, Transits
    PROVE  /\ control' = control => Controls
           /\ AdvanceControl /\ ticket'.runner = ticket.runner => Controls
           /\ control' = Sealed(Live') => Controls
           /\ /\ control' = Sealed(Live)
              /\ hist[ticket.version].trig = "operator_pause_or_take" =>
                     WasHeld(ticket.version, ticket.runner, leader)
              => Controls
  <1>1. /\ control \in ControlSet /\ control.auth.v <= ticket.version
        /\ Live \in Points /\ Live.v = ticket.version /\ ticket.version <= ticket.version
        /\ Live' \in Points
        /\ Live' = Fence(ticket.version + 1, ticket'.runner, leader)
    BY DEF Inv, Typed, Controlled, Live, Fence, Points, Transits
  <1>2. control' = control => Controls
    BY <1>1 DEF Controls
  <1>3. AdvanceControl /\ ticket'.runner = ticket.runner => Controls
    BY <1>1 DEF Controls, AdvanceControl, ControlSet
  <1>4. control' = Sealed(Live') => Controls
    BY <1>1 DEF Controls, Sealed, ControlSet
  <1>5. /\ control' = Sealed(Live)
        /\ hist[ticket.version].trig = "operator_pause_or_take" =>
               WasHeld(ticket.version, ticket.runner, leader)
        => Controls
    BY <1>1 DEF Controls, Sealed, ControlSet
  <1> QED
    BY <1>2, <1>3, <1>4, <1>5

\* A phase entered by the runner that the ticket has.
LEMMA EnterIs ==
    ASSUME Typed, NEW ph \in Phases, Enter(ph)
    PROVE  /\ \E p \in Phases : entries' = Append(entries,
                 [ph |-> p, v |-> ticket.version + 1, r |-> ticket.runner, l |-> leader])
           /\ entries' # entries
           /\ \E k \in DOMAIN entries' : entries'[k].ph = ph /\ entries'[k].v = ticket.version + 1
  <1> DEFINE n == [ph |-> ph, v |-> ticket.version + 1, r |-> ticket.runner, l |-> leader]
  <1>1. entries' = Append(entries, n)
    BY DEF Enter
  <1>2. n.ph = ph /\ n.v = ticket.version + 1 /\ n \in EntrySet
    BY DEF Typed, EntrySet
  <1>3. /\ entries' # entries
        /\ \E k \in DOMAIN entries' : entries'[k].ph = ph /\ entries'[k].v = ticket.version + 1
    <2> HIDE DEF n
    <2>1. /\ entries \in Seq(EntrySet) /\ Len(entries) + 1 \in DOMAIN entries'
          /\ entries'[Len(entries) + 1] = n /\ Len(entries') = Len(entries) + 1
      BY <1>1, <1>2 DEF Typed
    <2> QED
      BY <1>2, <2>1
  <1> QED
    BY <1>1, <1>3

\* operator_start.
LEMMA StartStep ==
    ASSUME Inv, StartOrAdopt
    PROVE  Inv'
  <1>1. /\ ticket.state = "queued" /\ Move("operator_start", "planning", "none")
        /\ Enter("planning")
        /\ UNCHANGED <<leader, epochs, claims, requests, revs, control, worktree>>
    BY DEF StartOrAdopt, At0
  <1>2. /\ Transits /\ New.trig = "operator_start" /\ ticket'.state = "planning"
        /\ ticket'.resume = "none" /\ ticket'.runner = ticket.runner
    BY <1>1, MoveIs DEF Inv, Triggers, States
  <1>3. Bears
    BY <1>1, <1>2, EnterIs DEF Bears, Inv, Phases
  <1>4. Starts /\ Returns'
    BY <1>1, <1>2, EnterIs DEF Starts, Returns, Halted, Inv, Started, Phases
  <1>5. Accepted' = Accepted
    BY <1>2, CountStep DEF Inv
  <1>6. Counted'
    <2>1. Where = "queued" /\ Where' = "planning"
      BY <1>1, <1>2 DEF Where, Halted
    <2> QED
      BY <1>1, <1>5, <2>1 DEF Inv, Counted
  <1> QED
    BY <1>1, <1>2, <1>3, <1>4, <1>6, MoveInv, ControlsIs DEF Inv

\* phase_pass: the next phase, with its entry and the evidence's control row.
LEMMA PassStep ==
    ASSUME Inv, NEW i \in DOMAIN claims,
           TransitionPlan(i) \/ TransitionVerification(i) \/ TransitionCandidate(i)
    PROVE  Inv'
  <1>1. PICK ph \in Phases, next \in {"verifying", "building", "publishing"} :
            /\ Pass(ph, next, i)
            /\ IF next = "publishing" THEN UNCHANGED entries ELSE Enter(next)
            /\ \/ ph = "planning" /\ next = "verifying"
               \/ /\ ph = "verifying" /\ next = "building"
                  /\ PendingVerificationAmendment = "none" /\ Len(revs) > 0
               \/ ph = "building" /\ next = "publishing"
    BY DEF TransitionPlan, TransitionVerification, TransitionCandidate, Phases
  <1>2. /\ ticket.state = ph /\ Move("phase_pass", next, "none") /\ AdvanceControl
        /\ UNCHANGED <<leader, epochs, claims, requests, revs, worktree>>
    BY <1>1 DEF Pass, At0
  <1>3. /\ Transits /\ New.trig = "phase_pass" /\ ticket'.state = next
        /\ ticket'.resume = "none" /\ ticket'.runner = ticket.runner
    BY <1>2, MoveIs DEF Inv, Triggers, States
  <1>4. Bears
    BY <1>1, <1>2, <1>3, EnterIs DEF Bears, Inv, Phases
  <1>5. Starts /\ Returns'
    BY <1>1, <1>2, <1>3 DEF Starts, Returns, Halted, Inv, Started, Phases
  <1>6. Accepted' = Accepted /\ Unresolved' = Unresolved
    BY <1>2, <1>3, CountStep DEF Inv, Unresolved, Decided
  <1>7. Counted'
    <2>1. Where = ph /\ Where' = next
      BY <1>1, <1>2, <1>3 DEF Where, Halted, Phases
    <2>2. Accepted = {} => Cardinality(Accepted) = 0
      BY FS_EmptySet
    <2>3. Unresolved \subseteq requests /\ Len(revs) \in Nat
      <3>1. CASE ph = "planning"
        BY <3>1, <2>1 DEF Unresolved, Inv, Counted
      <3>2. CASE ph = "building"
        BY <3>2, <2>1, CountStep, <1>3 DEF Unresolved, Inv, Counted
      <3>3. CASE ph = "verifying"
        <4>1. Unresolved = {}
          BY <1>1, <3>3, PendingIs
        <4> QED
          BY <4>1, <2>1, <3>3, <1>1 DEF Unresolved, Inv, Counted
      <3> QED
        BY <3>1, <3>2, <3>3 DEF Phases
    <2>4. CASE ph = "planning"
      <3>1. revs = <<>> /\ Accepted = {} /\ Unresolved = {} /\ requests = {}
        BY <2>1, <2>3, <2>4 DEF Inv, Counted
      <3>2. Where' = "verifying" /\ Len(revs) = 0
        BY <1>1, <2>1, <2>4, <3>1
      <3> QED
        BY <1>2, <1>6, <3>1, <3>2 DEF Counted
    <2>5. CASE ph = "verifying"
      <3>1. Unresolved = {}
        BY <1>1, <2>5, PendingIs
      <3>2. Accepted = {} /\ Len(revs) = 1
        <4>1. Where = "verifying" /\ Len(revs) > 0
          BY <1>1, <2>1, <2>5
        <4>2. Accepted = {} /\ Len(revs) <= 1
          BY <3>1, <4>1 DEF Inv, Counted
        <4> QED
          BY <2>3, <4>1, <4>2
      <3> QED
        BY <1>1, <1>2, <1>6, <2>1, <2>2, <2>5, <3>1, <3>2 DEF Inv, Counted
    <2>6. CASE ph = "building"
      BY <1>1, <1>2, <1>6, <2>1, <2>6 DEF Inv, Counted
    <2> QED
      BY <2>4, <2>5, <2>6 DEF Phases
  <1> QED
    BY <1>2, <1>3, <1>4, <1>5, <1>7, MoveInv, ControlsIs DEF Inv

\* verification_amendment_requested: one open request, on the current revision.
LEMMA RequestStep ==
    ASSUME Inv, NEW i \in DOMAIN claims, TransitionVerificationAmendmentRequest(i)
    PROVE  Inv'
  <1> DEFINE q == [v |-> ticket.version + 1, r |-> ticket.runner, l |-> leader, builder |-> i,
                   prior |-> Len(revs)]
  <1>1. /\ ticket.state = "building" /\ requests' = requests \union {q}
        /\ Move("verification_amendment_requested", "verifying", "none")
        /\ AdvanceControl /\ Enter("verifying")
        /\ UNCHANGED <<leader, epochs, claims, revs, worktree>>
    BY DEF TransitionVerificationAmendmentRequest, At0
  <1>2. /\ Transits /\ New.trig = "verification_amendment_requested"
        /\ ticket'.state = "verifying" /\ ticket'.resume = "none"
        /\ ticket'.runner = ticket.runner
    BY <1>1, MoveIs DEF Inv, Triggers, States
  <1>3. /\ Accepted' = Accepted /\ Decisions' = Decisions
        /\ Decisions \subseteq 1 .. ticket.version
        /\ Cardinality(Accepted) \in Nat
    BY <1>2, CountStep DEF Inv, Decided
  <1>4. Where = "building" /\ Where' = "verifying"
    BY <1>1, <1>2 DEF Where, Halted
  <1>5. Unresolved = {} /\ Len(revs) = 1 + Cardinality(Accepted)
    BY <1>4 DEF Inv, Counted
  <1>6. /\ q.v = ticket.version + 1 /\ q.r = ticket.runner /\ q.l = leader
        /\ q.prior = Len(revs)
    OBVIOUS
  <1> HIDE DEF q
  <1>7. Bears
    <2>1. \E k \in DOMAIN entries' : entries'[k].ph = "verifying" /\ entries'[k].v = q.v
      BY <1>1, <1>6, EnterIs DEF Inv, Phases
    <2>2. \E p \in Phases : entries' = Append(entries,
                [ph |-> p, v |-> ticket.version + 1, r |-> ticket.runner, l |-> leader])
      BY <1>1, EnterIs DEF Inv, Phases
    <2>3. q.prior \in Nat
      BY <1>3, <1>5, <1>6
    <2>4. \A x \in requests' : x \in requests \/ x = q
      BY <1>1
    <2> QED
      BY <1>1, <1>2, <1>6, <2>1, <2>2, <2>3, <2>4 DEF Bears
  <1>8. Starts /\ Returns'
    BY <1>1, <1>2 DEF Starts, Returns, Halted, Inv, Started, Phases
  <1>9. Unresolved' = {q}
    <2>1. \A x \in requests : \E v \in Decisions : v > x.v
      BY <1>5 DEF Unresolved
    <2>2. \A v \in Decisions : ~(v > q.v)
      BY <1>3, <1>6 DEF Inv, Typed
    <2> QED
      BY <1>1, <1>3, <2>1, <2>2 DEF Unresolved
  <1>10. Counted'
    <2>1. Len(revs') = q.prior /\ q.prior = 1 + Cardinality(Accepted')
      BY <1>1, <1>3, <1>5, <1>6
    <2> QED
      BY <1>4, <1>9, <2>1 DEF Counted
  <1> QED
    BY <1>1, <1>2, <1>7, <1>8, <1>10, MoveInv, ControlsIs DEF Inv

\* amendment_accepted, amendment_rejected: the open request is settled, with
\* the revision it asked for or without.
LEMMA DecideStep ==
    ASSUME Inv, NEW i \in DOMAIN claims,
           \/ TransitionVerificationAmendmentAccepted(i)
           \/ TransitionVerificationAmendmentRejected(i)
    PROVE  Inv'
  <1>1. PICK trig \in Decided :
            /\ Decide(trig) /\ ticket.state = "verifying"
            /\ PendingVerificationAmendment = "ok"
            /\ Len(revs) = PendingRequest.prior + (IF trig = "amendment_accepted" THEN 1 ELSE 0)
    <2>1. CASE TransitionVerificationAmendmentAccepted(i)
      BY <2>1 DEF TransitionVerificationAmendmentAccepted, DecidedBy, At0, Decided
    <2>2. CASE TransitionVerificationAmendmentRejected(i)
      <3>1. /\ Decide("amendment_rejected") /\ ticket.state = "verifying"
            /\ PendingVerificationAmendment = "ok" /\ Len(revs) = PendingRequest.prior
        BY <2>2 DEF TransitionVerificationAmendmentRejected, DecidedBy, At0
      <3>2. PendingRequest.prior \in Nat
        BY <3>1, PendingIs DEF Inv, Typed
      <3> QED
        BY <3>1, <3>2 DEF Decided
    <2> QED
      BY <2>1, <2>2
  <1>2. /\ Move(trig, "building", "none") /\ AdvanceControl /\ Enter("building")
        /\ UNCHANGED <<leader, epochs, claims, requests, revs, worktree>>
    BY <1>1 DEF Decide
  <1>3. /\ Transits /\ New.trig = trig /\ ticket'.state = "building"
        /\ ticket'.resume = "none" /\ ticket'.runner = ticket.runner
    BY <1>2, MoveIs DEF Inv, Triggers, States, Decided
  <1>4. Bears
    BY <1>2, <1>3, EnterIs DEF Bears, Inv, Phases
  <1>5. Starts /\ Returns'
    BY <1>1, <1>2, <1>3 DEF Starts, Returns, Halted, Inv, Started, Phases
  <1>6. Where = "verifying" /\ Where' = "building"
    BY <1>1, <1>3 DEF Where, Halted
  <1>7. PendingRequest.prior = 1 + Cardinality(Accepted) /\ PendingRequest \in requests
    <2>1. PendingRequest \in Unresolved /\ PendingRequest \in requests
      BY <1>1, PendingIs
    <2>2. PICK q \in Unresolved : Unresolved = {q} /\ q.prior = 1 + Cardinality(Accepted)
      BY <1>6, <2>1 DEF Inv, Counted
    <2> QED
      BY <2>1, <2>2
  <1>8. Unresolved' = {}
    <2>1. ticket.version + 1 \in Decisions'
      BY <1>3, CountStep DEF Inv
    <2>2. \A q \in requests : ticket.version + 1 > q.v
      BY CitedBefore DEF Inv
    <2> QED
      BY <1>2, <2>1, <2>2 DEF Unresolved
  <1>9. Len(revs') = 1 + Cardinality(Accepted')
    <2>1. /\ Cardinality(Accepted) \in Nat
          /\ trig # "amendment_accepted" => Cardinality(Accepted') = Cardinality(Accepted)
          /\ trig = "amendment_accepted" => Cardinality(Accepted') = Cardinality(Accepted) + 1
      BY <1>3, CountStep DEF Inv
    <2> QED
      BY <1>1, <1>2, <1>7, <2>1
  <1>10. Counted'
    BY <1>6, <1>8, <1>9 DEF Counted
  <1> QED
    BY <1>2, <1>3, <1>4, <1>5, <1>10, MoveInv, ControlsIs DEF Inv, Decided

\* A transition that enters no phase and changes no evidence, and by which the
\* ticket goes on where it was, or is cancelled.
LEMMA PlainStep ==
    ASSUME Inv, Transits, Controls, Returns',
           UNCHANGED <<entries, claims, requests, revs, worktree>>,
           ticket.state \in Phases \union Halted \union {"queued", "cancelling"},
           \/ Where' = Where /\ ticket.state \in Phases \union Halted
           \/ ticket'.state \in {"cancelling", "cancelled"},
           \A x \in epochs' : \/ x \in epochs
                              \/ x.exV = ticket.version /\ x.r = ticket'.runner /\ x.l = leader,
           New.trig \notin Decided \union {"recovered"},
           New.trig = "operator_recover" => New.r = ticket'.runner /\ New.l = leader
    PROVE  Inv'
  <1>1. Bears
    BY DEF Bears
  <1>2. ticket.state \in Phases \union Halted => Where \in Phases
    BY DEF Where, Halted, Phases, Inv, Typed, Returns
  <1>3. ticket'.state # "queued"
    BY <1>2 DEF Where, Halted, Phases
  <1>4. Starts
    BY <1>3 DEF Starts, Halted, Phases
  <1>5. Counted'
    <2>1. Where' = Where \/ Where' \in {"cancelling", "cancelled"}
      BY DEF Where, Halted
    <2> QED
      BY <2>1, CountedStep DEF Inv
  <1> QED
    BY <1>1, <1>4, <1>5, MoveInv DEF Inv

LEMMA ExhaustStep ==
    ASSUME Inv, NEW ph \in Phases, TransitionProviderExhausted(ph)
    PROVE  Inv'
  <1>1. /\ ticket.state = ph /\ Move("retry_or_correction_exhausted", "paused", ph)
        /\ UNCHANGED <<leader, entries, epochs, claims, requests, revs, control, worktree>>
    BY DEF TransitionProviderExhausted, At0
  <1>2. /\ Transits /\ New.trig = "retry_or_correction_exhausted" /\ ticket'.state = "paused"
        /\ ticket'.resume = ph
    BY <1>1, MoveIs DEF Inv, Triggers, States
  <1>3. Where = ph /\ Where' = ph /\ Returns'
    BY <1>1, <1>2 DEF Where, Halted, Phases, Returns
  <1> QED
    BY <1>1, <1>2, <1>3, PlainStep, ControlsIs DEF Decided

\* operator_retry opens an epoch, operator_resume does not.
LEMMA ResumeStep ==
    ASSUME Inv, TransitionProviderRetry \/ Resume
    PROVE  Inv'
  <1>1. PICK trig \in {"operator_retry", "operator_resume"} : Move(trig, ticket.resume, "none")
    BY DEF TransitionProviderRetry, Resume
  <1>2. /\ ticket.state = "paused"
        /\ UNCHANGED <<leader, entries, claims, requests, revs, control, worktree>>
    BY DEF TransitionProviderRetry, Resume, At0
  <1>3. PICK ph \in Phases : ph = ticket.resume
    BY <1>2 DEF Inv, Typed, Returns, Halted
  <1>4. /\ Transits /\ New.trig = trig /\ ticket'.state = ph /\ ticket'.resume = "none"
        /\ ticket'.runner = ticket.runner
    BY <1>1, <1>2, <1>3, MoveIs DEF Inv, Triggers, States, Phases
  <1>5. \A x \in epochs' : \/ x \in epochs
                           \/ x.exV = ticket.version /\ x.r = ticket'.runner /\ x.l = leader
    BY <1>4 DEF TransitionProviderRetry, Resume
  <1>6. Where = ph /\ Where' = ph /\ Returns'
    BY <1>2, <1>3, <1>4 DEF Where, Halted, Phases, Returns
  <1> QED
    BY <1>2, <1>4, <1>5, <1>6, PlainStep, ControlsIs DEF Decided, Halted

\* typed_blocker, of a host or of a refused amendment.
LEMMA BlockStep ==
    ASSUME Inv,
           \/ \E code \in {"recoverable", "terminal"} : Block(code)
           \/ \E i \in DOMAIN claims : BlockInvalidVerificationAmendment(i)
    PROVE  Inv'
  <1>1. PICK ph \in Phases, code \in Codes :
            /\ ticket.state = ph
            /\ Step([Event("typed_blocker", ph, "blocked") EXCEPT !.code = code],
                    "blocked", ph, ticket.runner, code)
    BY DEF Block, BlockInvalidVerificationAmendment, At0, Phases, Codes
  <1>2. UNCHANGED <<leader, entries, epochs, claims, requests, revs, control, worktree>>
    BY DEF Block, BlockInvalidVerificationAmendment
  <1>3. PICK e \in EventSet : /\ e.trig = "typed_blocker"
                              /\ e = [Event("typed_blocker", ph, "blocked") EXCEPT !.code = code]
    BY DEF Event, EventSet, Codes, Triggers, States, Phases
  <1>4. PICK r \in Nat : r = ticket.runner
    BY DEF Inv, Typed
  <1>5. Step(e, "blocked", ph, r, code)
    BY <1>1, <1>3, <1>4
  <1>6. Transits /\ New.trig = "typed_blocker" /\ ticket'.state = "blocked" /\ ticket'.resume = ph
    BY <1>2, <1>3, <1>5, StepIs DEF Inv, States
  <1>7. Where = ph /\ Where' = ph /\ Returns'
    BY <1>1, <1>6 DEF Where, Halted, Phases, Returns
  <1> QED
    BY <1>1, <1>2, <1>6, <1>7, PlainStep, ControlsIs DEF Decided

\* The owner that any witness names is a leader, or none.
LEMMA EndpointIsLeader ==
    ASSUME Typed, Held, Controlled, NEW ph, NEW v, NEW r,
           NEW p \in providerBlockedEndpointLeader(ph, v, r)
    PROVE  p \in Nat
  <1>1. \A w \in DOMAIN hist : hist[w].l \in Nat
    <2> SUFFICES ASSUME NEW w \in DOMAIN hist PROVE hist[w].l \in Nat
      OBVIOUS
    <2>1. hist[w] \in EventSet
      BY DEF Typed
    <2> QED
      BY <2>1 DEF EventSet
  <1>2. \A i \in DOMAIN entries : entries[i].l \in Nat
    <2> SUFFICES ASSUME NEW i \in DOMAIN entries PROVE entries[i].l \in Nat
      OBVIOUS
    <2>1. entries[i] \in EntrySet
      BY DEF Typed
    <2> QED
      BY <2>1 DEF EntrySet
  <1>3. control.auth.l \in Nat
    BY DEF Controlled, ControlSet, Points
  <1>4. \A w, x, l : WasHeld(w, x, l) => l \in Nat
    <2> SUFFICES ASSUME NEW w, NEW x, NEW l, WasHeld(w, x, l) PROVE l \in Nat
      OBVIOUS
    <2>1. owner[w] \in OwnerSet /\ owner[w] = [r |-> x, l |-> l]
      BY DEF Typed, WasHeld
    <2> QED
      BY <2>1 DEF OwnerSet
  <1>5. \A x \in epochs : x.l \in Nat
    BY <1>4 DEF Held
  <1>6. Rows \subseteq DOMAIN hist
    BY DEF Rows
  <1> QED
    BY <1>1, <1>2, <1>3, <1>5, <1>6 DEF providerBlockedEndpointLeader, Is

\* operator_recover, after a seal at the blocked fence.
LEMMA RecoverBlockedStep ==
    ASSUME Inv, RecoverBlocked
    PROVE  Inv'
  <1>1. /\ ticket.state = "blocked" /\ control' = Sealed(Live)
        /\ UNCHANGED <<leader, entries, epochs, claims, requests, revs, worktree>>
    BY DEF RecoverBlocked, At0
  <1>2. PICK p \in validateProviderBlockedRecoveryPrefix :
          Step([Event("operator_recover", "blocked", ticket.resume) EXCEPT
                   !.r = ticket.runner, !.pl = p, !.l = leader],
               ticket.resume, "none", ticket.runner, "none")
    BY DEF RecoverBlocked
  <1>3. p \in Nat /\ hist[ticket.version].trig = "typed_blocker"
    <2>1. /\ p \in providerBlockedEndpointLeader(ticket.resume, ticket.version - 1, ticket.runner)
          /\ Is(ticket.version, "typed_blocker", ticket.resume, "blocked")
      BY DEF validateProviderBlockedRecoveryPrefix
    <2>2. p \in Nat
      BY <2>1, EndpointIsLeader DEF Inv
    <2> QED
      BY <2>1, <2>2 DEF Is
  <1>4. PICK ph \in Phases : ph = ticket.resume
    BY <1>1 DEF Inv, Typed, Returns, Halted
  <1>5. PICK r \in Nat : r = ticket.runner
    BY DEF Inv, Typed
  <1>6. PICK e \in EventSet :
            /\ e.trig = "operator_recover" /\ e.r = ticket.runner /\ e.l = leader
            /\ e = [Event("operator_recover", "blocked", ph) EXCEPT
                       !.r = ticket.runner, !.pl = p, !.l = leader]
    BY <1>3 DEF Event, EventSet, Codes, Triggers, States, Phases, Inv, Typed
  <1>7. Step(e, ph, "none", r, "none")
    BY <1>2, <1>4, <1>5, <1>6
  <1>8. /\ Transits /\ New = e /\ ticket'.state = ph /\ ticket'.resume = "none"
        /\ ticket'.runner = ticket.runner
    BY <1>1, <1>5, <1>7, StepIs DEF Inv, States, Phases, Codes
  <1>9. Where = ph /\ Where' = ph /\ Returns'
    BY <1>1, <1>4, <1>8 DEF Where, Halted, Phases, Returns
  <1>10. Controls
    BY <1>1, <1>3, <1>8, ControlsIs
  <1> QED
    BY <1>1, <1>6, <1>8, <1>9, <1>10, PlainStep DEF Decided, Halted

\* A stop takes the runner and seals the new fence.
LEMMA StopStep ==
    ASSUME Inv, Pause \/ Cancel
    PROVE  Inv'
  <1>1. PICK trig \in {"operator_pause_or_take", "operator_cancel"},
             st \in {"stopping", "cancelling"}, rs \in Phases \union {"none"} :
            /\ StopInto(trig, st, rs)
            /\ \/ st = "stopping" /\ ticket.state \in Phases /\ rs = ticket.state
               \/ /\ st = "cancelling" /\ rs = "none"
                  /\ ticket.state \in Phases \union Halted \union {"queued"}
    <2>1. CASE Pause
      BY <2>1 DEF Pause
    <2>2. CASE Cancel
      BY <2>2 DEF Cancel, Halted
    <2> QED
      BY <2>1, <2>2
  <1>2. /\ Step(Event(trig, ticket.state, st), st, rs, ticket.runner + 1, "none")
        /\ control' = Sealed(Fence(ticket.version + 1, ticket.runner + 1, leader))
        /\ UNCHANGED <<leader, entries, epochs, claims, requests, revs, worktree>>
    BY <1>1 DEF StopInto
  <1>3. PICK e \in EventSet : e.trig = trig /\ e = Event(trig, ticket.state, st)
    BY DEF Event, EventSet, Codes, Triggers, States, Inv, Typed
  <1>4. PICK r \in Nat : r = ticket.runner + 1
    BY DEF Inv, Typed
  <1>5. /\ Transits /\ New.trig = trig /\ ticket'.state = st /\ ticket'.resume = rs
        /\ ticket'.runner = ticket.runner + 1
    BY <1>2, <1>3, <1>4, StepIs DEF Inv, States, Codes
  <1>6. control' = Sealed(Live')
    BY <1>2, <1>5 DEF Live, Transits
  <1>7. Returns'
    BY <1>1, <1>5 DEF Returns, Halted
  <1>8. \/ Where' = Where /\ ticket.state \in Phases \union Halted
       \/ ticket'.state = "cancelling"
    BY <1>1, <1>5 DEF Where, Halted, Phases
  <1>9. Controls
    BY <1>5, <1>6, ControlsIs
  <1> QED
    BY <1>1, <1>2, <1>5, <1>7, <1>8, <1>9, PlainStep DEF Decided

\* The drain of a stop.
LEMMA DrainStep ==
    ASSUME Inv, Drain
    PROVE  Inv'
  <1>1. /\ pc = "serving" /\ ticket.state \in {"stopping", "cancelling"}
        /\ control' = Sealed(Live)
        /\ UNCHANGED <<leader, entries, epochs, claims, requests, revs, worktree>>
    BY DEF Drain
  <1>2. PICK st \in States, rs \in Phases \union {"none"} :
            /\ Move("process_and_effects_drained", st, rs)
            /\ \/ ticket.state = "stopping" /\ st = "paused" /\ rs = ticket.resume
               \/ ticket.state = "cancelling" /\ st = "cancelled" /\ rs = "none"
    BY <1>1 DEF Drain, States, Inv, Typed
  <1>3. /\ Transits /\ New.trig = "process_and_effects_drained" /\ ticket'.state = st
        /\ ticket'.resume = rs
    BY <1>1, <1>2, MoveIs DEF Inv, Triggers
  <1>4. Returns'
    BY <1>2, <1>3 DEF Returns, Halted, Inv, Typed
  <1>5. WasHeld(ticket.version, ticket.runner, leader)
    <2>1. ticket.version \in 1 .. Len(owner) /\ owner[ticket.version] \in OwnerSet
      BY DEF Inv, Typed
    <2> QED
      BY <1>1, <2>1 DEF Inv, Held, WasHeld, OwnerSet, Fenceable
  <1>6. Controls
    BY <1>1, <1>3, <1>5, ControlsIs
  <1>7. \/ Where' = Where /\ ticket.state \in Phases \union Halted
        \/ ticket'.state = "cancelled"
    BY <1>2, <1>3 DEF Where, Halted
  <1> QED
    BY <1>1, <1>3, <1>4, <1>6, <1>7, PlainStep DEF Decided, Halted

-----------------------------------------------------------------------------
(* The startup fence *)

\* The first witness that applies is one of the witnesses.
LEMMA FirstIs ==
    ASSUME NEW n \in Nat, NEW ws, DOMAIN ws = 1 .. n, n >= 1, ws[n] # {}
    PROVE  \E i \in 1 .. n : First(ws) \in ws[i]
  <1> DEFINE S == {i \in 1 .. n : \A j \in 1 .. i - 1 : ws[j] = {}}
             m == Newest(S)
  <1>1. 1 \in S
    OBVIOUS
  <1>2. m \in S /\ \A y \in S : y <= m
    <2>1. S \in SUBSET (1 .. n) /\ S # {}
      BY <1>1
    <2> HIDE DEF S
    <2> QED
      BY <2>1, NewestIs
  <1>3. m \in 1 .. n /\ \A j \in 1 .. m - 1 : ws[j] = {}
    BY <1>2
  <1>4. ws[m] # {}
    <2>1. SUFFICES ASSUME ws[m] = {} PROVE FALSE
      OBVIOUS
    <2>2. m + 1 \in 1 .. n
      BY <1>3, <2>1
    <2>3. \A j \in 1 .. (m + 1) - 1 : ws[j] = {}
      BY <1>3, <2>1
    <2>4. m + 1 \in S
      BY <2>2, <2>3
    <2> HIDE DEF S, m
    <2>5. m + 1 <= m
      BY <1>2, <2>4
    <2> QED
      BY <1>3, <2>5
  <1> HIDE DEF m
  <1>5. \E i \in DOMAIN ws : ws[i] # {} /\ \A j \in 1 .. i - 1 : ws[j] = {}
    BY <1>3, <1>4
  <1> QED
    BY <1>5 DEF First

\* The leader l held the ticket with the runner that the ticket now has.
HeldBy(l) == \E w \in 1 .. ticket.version : owner[w] = [r |-> ticket.runner, l |-> l]

\* A witness refuses, or names such a leader.
Names(ws) == \A l \in ws : l = 0 \/ HeldBy(l)

LEMMA HeldByIs ==
    ASSUME Typed, NEW v, NEW l, WasHeld(v, ticket.runner, l)
    PROVE  HeldBy(l)
  BY DEF Typed, WasHeld, HeldBy

\* The newest recovery row was made by the daemon it is signed by.
LEMMA RowIsHeld ==
    ASSUME Typed, Held, LatestRow # 0
    PROVE  /\ LatestRow \in DOMAIN hist
           /\ WasHeld(LatestRow, hist[LatestRow].r, hist[LatestRow].l)
  <1>1. Rows # {} /\ LatestRow = Newest(Rows)
    BY DEF LatestRow
  <1>2. Rows \in SUBSET (1 .. Len(hist)) /\ Len(hist) \in Nat
    BY DEF Rows, Typed
  <1>3. LatestRow \in Rows
    BY <1>1, <1>2, NewestIs
  <1> QED
    BY <1>3 DEF Rows, Recovered, Held

LEMMA ExactIsHeld ==
    ASSUME Typed, Held, ExactRow
    PROVE  HeldBy(hist[LatestRow].l)
  <1>1. LatestRow # 0 /\ hist[LatestRow].r = ticket.runner
    BY DEF ExactRow, At, Fence
  <1>2. WasHeld(LatestRow, ticket.runner, hist[LatestRow].l)
    BY <1>1, RowIsHeld
  <1> QED
    BY <1>2, HeldByIs

\* A control row at the live version names its owner.
LEMMA EndpointIsHeld ==
    ASSUME Typed, Controlled, ticket.state \in Fenceable, NEW l \in ControlEndpoint
    PROVE  HeldBy(l)
  <1>1. control.st # "none" /\ Speaks(control.auth) /\ l = control.auth.l
    BY DEF ControlEndpoint, Speaks
  <1>2. WasHeld(ticket.version, ticket.runner, control.auth.l)
    BY <1>1 DEF Controlled
  <1> QED
    BY <1>1, <1>2, HeldByIs

\* So does the newest result of a phase, when it is of the live runner.
LEMMA BaselineIsHeld ==
    ASSUME Typed, Held, NEW ph, Completed(ph) # {}, Baseline(ph).r = ticket.runner
    PROVE  HeldBy(Baseline(ph).l)
  <1>1. Completed(ph) \in SUBSET (1 .. Len(claims)) /\ Len(claims) \in Nat
    BY CitedBefore DEF Completed
  <1>2. Newest(Completed(ph)) \in DOMAIN claims
    BY <1>1, NewestIs, CitedBefore
  <1>3. WasHeld(Baseline(ph).v, Baseline(ph).r, Baseline(ph).l)
    BY <1>2 DEF Held, Baseline
  <1> QED
    BY <1>3, HeldByIs

LEMMA StopNames ==
    ASSUME Typed, Held, Controlled
    PROVE  Names(StopPredecessor)
  <1> SUFFICES ASSUME NEW l \in StopPredecessor, l # 0 PROVE HeldBy(l)
    BY DEF Names
  <1>1. ticket.state \in {"stopping", "cancelling"}
    BY DEF StopPredecessor
  <1>2. CASE ExactRow
    <2>1. l = hist[LatestRow].l
      BY <1>1, <1>2 DEF StopPredecessor, Witness, Refuse
    <2> QED
      BY <1>2, <2>1, ExactIsHeld
  <1>3. CASE ~ExactRow
    <2>1. l = control.stop.l /\ control.st = "sealed" /\ Speaks(control.stop)
      BY <1>1, <1>3 DEF StopPredecessor, Witness, Refuse, Speaks
    <2>2. WasHeld(ticket.version, ticket.runner, control.stop.l)
      BY <1>1, <2>1 DEF Controlled
    <2> QED
      BY <2>1, <2>2, HeldByIs
  <1> QED
    BY <1>2, <1>3

LEMMA DecisionNames ==
    ASSUME Typed, Held
    PROVE  Names(verificationAmendmentRecoveryPredecessor)
  <1> SUFFICES ASSUME NEW l \in verificationAmendmentRecoveryPredecessor, l # 0 PROVE HeldBy(l)
    BY DEF Names
  <1> DEFINE us == UnresolvedBefore(ticket.version)
             q  == CHOOSE x \in us : TRUE
             fs == amendmentDecisionFence(Ledger, q, ticket.version)
             f  == CHOOSE x \in fs : TRUE
  <1>1. Cardinality(us) = 1 /\ fs # {} /\ f.r = ticket.runner /\ l = f.l
    <2> HIDE DEF fs
    <2>1. verificationAmendmentRecoveryPredecessor =
              IF ticket.state # "building" \/ hist[ticket.version].trig \notin Decided THEN {}
              ELSE IF /\ Cardinality(us) = 1 /\ fs # {} /\ f.r = ticket.runner /\ Older(f.l)
                      /\ DecidedAt(Ledger, Fence(ticket.version, f.r, f.l))
                   THEN {f.l} ELSE Refuse
      BY DEF verificationAmendmentRecoveryPredecessor, fs
    <2> QED
      BY <2>1 DEF Refuse
  <1>2. us # {}
    BY <1>1, FS_EmptySet
  <1>3. q \in requests
    BY <1>2 DEF UnresolvedBefore
  <1>4. f \in fs
    <2> HIDE DEF fs
    <2> QED
      BY <1>1
  <1> HIDE DEF q, f
  <1>5. \/ f = Fence(q.v, q.r, q.l)
        \/ Recovered(ticket.version - 1) /\ f = At(ticket.version - 1)
    BY Zenon, <1>4 DEF amendmentDecisionFence
  <1>6. WasHeld(f.v, f.r, f.l)
    BY <1>3, <1>5 DEF Held, Recovered, At, Fence
  <1> QED
    BY <1>1, <1>6, HeldByIs

LEMMA RetryNames ==
    ASSUME Typed, Held
    PROVE  Names(providerRetryRecoveryPredecessor)
  <1> SUFFICES ASSUME NEW l \in providerRetryRecoveryPredecessor, l # 0 PROVE HeldBy(l)
    BY DEF Names
  <1> DEFINE xs == EpochOf(EntryAt(ticket.state, ticket.version))
             x  == CHOOSE y \in xs : TRUE
             s  == Fence(x.exV + 1, x.r, x.l)
  <1>1. x \in epochs /\ l = normalRecoveryLeaderAt(s)
    <2>1. xs # {} /\ l = normalRecoveryLeaderAt(s)
      BY DEF providerRetryRecoveryPredecessor, Witness, Refuse
    <2> QED
      BY <2>1 DEF EpochOf
  <1>2. WasHeld(s.v, s.r, s.l)
    BY <1>1 DEF Held, Fence
  <1> HIDE DEF s
  <1>3. s.v \in Nat /\ s.r \in Nat /\ ticket.version \in Nat /\ ticket.runner \in Nat
    <2>1. owner[s.v] \in OwnerSet /\ owner[s.v] = [r |-> s.r, l |-> s.l]
      BY <1>2 DEF Typed, WasHeld
    <2> QED
      BY <1>2, <2>1 DEF Typed, WasHeld, OwnerSet
  <1>4. /\ ticket.version >= s.v /\ ticket.version - s.v = ticket.runner - s.r
        /\ \A v \in s.v + 1 .. ticket.version : Recovered(v)
        /\ l = IF ticket.version = s.v THEN s.l ELSE hist[ticket.version].l
    BY <1>1 DEF normalRecoveryLeaderAt
  <1>5. CASE ticket.version = s.v
    <2>1. s.r = ticket.runner /\ l = s.l
      BY <1>3, <1>4, <1>5
    <2> QED
      BY <1>2, <2>1, HeldByIs
  <1>6. CASE ticket.version # s.v
    <2>1. Recovered(ticket.version) /\ l = hist[ticket.version].l
      BY <1>3, <1>4, <1>6
    <2>2. WasHeld(ticket.version, hist[ticket.version].r, l)
      BY <2>1 DEF Recovered, Held
    <2>3. hist[ticket.version].r = ticket.runner
      BY <2>2 DEF Held, WasHeld
    <2> QED
      BY <2>2, <2>3, HeldByIs
  <1> QED
    BY <1>5, <1>6

LEMMA BlockedNames ==
    ASSUME Typed, Held
    PROVE  Names(providerBlockedRecoveryPredecessor)
  <1> SUFFICES ASSUME NEW l \in providerBlockedRecoveryPredecessor, l # 0 PROVE HeldBy(l)
    BY DEF Names
  <1>1. /\ Is(ticket.version, "operator_recover", "blocked", ticket.state)
        /\ hist[ticket.version].r = ticket.runner /\ l = hist[ticket.version].l
    BY DEF providerBlockedRecoveryPredecessor, Refuse
  <1>2. WasHeld(ticket.version, ticket.runner, l)
    BY <1>1 DEF Is, Held
  <1> QED
    BY <1>2, HeldByIs

LEMMA PausedNames ==
    ASSUME Typed, Held, Controlled
    PROVE  Names(providerPausedRecoveryPredecessor)
  <1> SUFFICES ASSUME NEW l \in providerPausedRecoveryPredecessor, l # 0 PROVE HeldBy(l)
    BY DEF Names
  <1>1. /\ control.st # "none" /\ control.stop.r = ticket.runner /\ l = control.stop.l
        /\ Is(control.stop.v, "operator_pause_or_take", ticket.state, "stopping")
    BY DEF providerPausedRecoveryPredecessor, Refuse
  <1>2. control.stop.v >= 1 /\ hist[control.stop.v].trig = "operator_pause_or_take"
    BY <1>1 DEF Is, Typed
  <1>3. WasHeld(control.stop.v, ticket.runner, l)
    BY <1>1, <1>2 DEF Controlled
  <1> QED
    BY <1>3, HeldByIs

LEMMA PhaseNames ==
    ASSUME Typed, Held, Controlled
    PROVE  Names(phaseRecoveryBaseline)
  <1> SUFFICES ASSUME NEW l \in phaseRecoveryBaseline, l # 0 PROVE HeldBy(l)
    BY DEF Names
  <1> DEFINE ph == ticket.state
             p == IF ControlEndpoint # {} THEN CHOOSE x \in ControlEndpoint : TRUE
                  ELSE IF ExactRow THEN hist[LatestRow].l ELSE Baseline(ph).l
  <1>1. /\ ph \in Phases /\ Completed(ph) # {} /\ l = p
        /\ ControlEndpoint # {} \/ ExactRow \/ Baseline(ph).r = ticket.runner
    BY DEF phaseRecoveryBaseline, Refuse
  <1>2. CASE ControlEndpoint # {}
    BY <1>1, <1>2, EndpointIsHeld DEF Fenceable
  <1>3. CASE ControlEndpoint = {} /\ ExactRow
    BY <1>1, <1>3, ExactIsHeld
  <1>4. CASE ControlEndpoint = {} /\ ~ExactRow
    BY <1>1, <1>4, BaselineIsHeld
  <1> QED
    BY <1>2, <1>3, <1>4

LEMMA PlannerNames ==
    ASSUME Typed, Held
    PROVE  Names(plannerBaseline)
  <1> SUFFICES ASSUME NEW l \in plannerBaseline, l # 0 PROVE HeldBy(l)
    BY DEF Names
  <1> DEFINE after == LatestRow # 0 /\ LatestRow + 1 = ticket.version
                         /\ hist[LatestRow].r = ticket.runner
  <1>1. /\ Completed("planning") # {}
        /\ after \/ ticket.runner = Baseline("planning").r
        /\ l = IF after THEN hist[LatestRow].l ELSE Baseline("planning").l
    BY DEF plannerBaseline, Refuse
  <1>2. CASE after
    <2>1. WasHeld(LatestRow, ticket.runner, l)
      BY <1>1, <1>2, RowIsHeld
    <2> QED
      BY <2>1, HeldByIs
  <1>3. CASE ~after
    BY <1>1, <1>3, BaselineIsHeld
  <1> QED
    BY <1>2, <1>3

LEMMA VerificationNames ==
    ASSUME Typed, Held, Controlled
    PROVE  Names(verificationBaseline)
  <1> SUFFICES ASSUME NEW l \in verificationBaseline, l # 0 PROVE HeldBy(l)
    BY DEF Names
  <1>1. /\ ticket.state = "building" /\ Completed("verifying") # {}
        /\ ticket.runner = Baseline("verifying").r
        /\ l = IF ControlEndpoint # {} THEN CHOOSE x \in ControlEndpoint : TRUE
               ELSE Baseline("verifying").l
    BY DEF verificationBaseline, Refuse
  <1>2. CASE ControlEndpoint # {}
    BY <1>1, <1>2, EndpointIsHeld DEF Fenceable, Phases
  <1>3. CASE ControlEndpoint = {}
    BY <1>1, <1>3, BaselineIsHeld
  <1> QED
    BY <1>2, <1>3

\* The witnesses that read one row.
LEMMA RowNames ==
    ASSUME Typed, Held, Started, Controlled, ticket.state \in Fenceable
    PROVE  /\ Names(IF ExactRow THEN Witness(hist[LatestRow].l) ELSE {})
           /\ Names(controlAfterRow) /\ Names(activeEndpoint) /\ Names(startAuthority)
           /\ Names(worktreeEndpoint) /\ Names(Refuse)
  <1>1. Names(IF ExactRow THEN Witness(hist[LatestRow].l) ELSE {})
    BY ExactIsHeld DEF Names, Witness, Refuse
  <1>2. Names(controlAfterRow)
    BY EndpointIsHeld DEF Names, controlAfterRow
  <1>3. Names(activeEndpoint)
    BY HeldByIs DEF Names, activeEndpoint, Held
  <1>4. Names(startAuthority)
    <2> SUFFICES ASSUME NEW l \in startAuthority, l # 0 PROVE HeldBy(l)
      BY DEF Names
    <2>1. ticket.state = "planning" /\ ticket.runner = 1 /\ l = entries[1].l
      BY DEF startAuthority, Witness, Refuse
    <2>2. entries # <<>> /\ entries[1].r = 1
      BY <2>1 DEF Started, Phases
    <2>3. 1 \in DOMAIN entries
      BY <2>2 DEF Typed
    <2>4. WasHeld(entries[1].v, ticket.runner, l)
      BY <2>1, <2>2, <2>3 DEF Held
    <2> QED
      BY <2>4, HeldByIs
  <1>5. Names(worktreeEndpoint)
    <2> SUFFICES ASSUME NEW l \in worktreeEndpoint, l # 0 PROVE HeldBy(l)
      BY DEF Names
    <2>1. worktree # NoFence /\ worktree.r = ticket.runner /\ l = worktree.l
      BY DEF worktreeEndpoint, Refuse
    <2> QED
      BY <2>1, HeldByIs DEF Held
  <1>6. Names(Refuse)
    BY DEF Names, Refuse
  <1> QED
    BY <1>1, <1>2, <1>3, <1>4, <1>5, <1>6

\* The leader that the startup fence reconstructs held the ticket.
LEMMA PriorIsHeld ==
    ASSUME Inv, Fenced, PriorLeader # 0
    PROVE  HeldBy(PriorLeader)
  <1> DEFINE ws == <<StopPredecessor, verificationAmendmentRecoveryPredecessor,
            providerRetryRecoveryPredecessor, providerBlockedRecoveryPredecessor,
            providerPausedRecoveryPredecessor, phaseRecoveryBaseline, plannerBaseline,
            IF ExactRow THEN Witness(hist[LatestRow].l) ELSE {},
            verificationBaseline, controlAfterRow, activeEndpoint, startAuthority,
            worktreeEndpoint, Refuse>>
  <1>1. ticket.state \in Fenceable
    BY DEF Fenced, Fenceable
  <1>2. DOMAIN ws = 1 .. 14 /\ ws[14] # {}
    BY DEF Refuse
  <1>3. PriorLeader = First(ws)
    BY DEF PriorLeader
  <1>4. \A i \in 1 .. 14 : Names(ws[i])
    <2>1. /\ Names(ws[1]) /\ Names(ws[2]) /\ Names(ws[3]) /\ Names(ws[4]) /\ Names(ws[5])
          /\ Names(ws[6]) /\ Names(ws[7]) /\ Names(ws[8]) /\ Names(ws[9]) /\ Names(ws[10])
          /\ Names(ws[11]) /\ Names(ws[12]) /\ Names(ws[13]) /\ Names(ws[14])
      BY <1>1, StopNames, DecisionNames, RetryNames, BlockedNames, PausedNames, PhaseNames,
         PlannerNames, VerificationNames, RowNames DEF Inv
    <2> HIDE DEF ws
    <2> QED
      BY <2>1
  <1> HIDE DEF ws
  <1>5. PICK i \in 1 .. 14 : First(ws) \in ws[i]
    <2>1. PICK n \in Nat : n = 14
      OBVIOUS
    <2>2. PICK x : x = ws
      OBVIOUS
    <2>3. DOMAIN x = 1 .. n /\ n >= 1 /\ x[n] # {}
      BY <1>2, <2>1, <2>2
    <2>4. \E i \in 1 .. n : First(x) \in x[i]
      BY <2>3, FirstIs
    <2> QED
      BY <2>1, <2>2, <2>4
  <1> QED
    BY <1>3, <1>4, <1>5 DEF Names

\* The startup fence makes a version under the new leader, leaves a ticket that
\* it need not fence as it is, or refuses the start.
LEMMA FenceStep ==
    ASSUME Inv, FenceRecoveredRunners
    PROVE  Inv'
  <1>1. PICK p : /\ p = IF Fenced THEN PriorLeader ELSE leader
                 /\ IF p = 0
                    THEN pc' = "refused" /\ UNCHANGED <<ticket, hist, owner, claims>>
                    ELSE /\ pc' = "serving" /\ claims' = Retired
                         /\ IF Fenced
                            THEN Step([Event("recovered", ticket.state, ticket.state) EXCEPT
                                          !.r = ticket.runner + 1, !.pl = p, !.l = leader],
                                      ticket.state, ticket.resume, ticket.runner + 1, ticket.code)
                            ELSE UNCHANGED <<ticket, hist, owner>>
    BY DEF FenceRecoveredRunners
  <1>2. UNCHANGED <<leader, entries, epochs, requests, revs, control, worktree>>
    BY DEF FenceRecoveredRunners
  <1>3. CASE p = 0
    <2>1. claims' \in Seq(ClaimSet)
      BY <1>1, <1>3 DEF Inv, Typed
    <2> QED
      BY <1>1, <1>2, <1>3, <2>1, QuietInv DEF Inv
  <1>4. CASE p # 0 /\ ~Fenced
    <2>1. UNCHANGED <<ticket, hist, owner>> /\ claims' = Retired
      BY <1>1, <1>4
    <2>2. /\ claims' \in Seq(ClaimSet) /\ DOMAIN claims' = DOMAIN claims
          /\ Len(claims') = Len(claims)
          /\ \A i \in DOMAIN claims :
                /\ claims'[i].ph = claims[i].ph /\ claims'[i].v = claims[i].v
                /\ claims'[i].r = claims[i].r /\ claims'[i].l = claims[i].l
                /\ claims'[i].entry = claims[i].entry
                /\ claims'[i].st \in {"active", "completed"} => claims'[i].st = claims[i].st
      BY <2>1, RetiredIs DEF Inv
    <2>3. Typed'
      BY <1>2, <2>1, <2>2 DEF Inv, Typed, Returns
    <2>4. \A v, r, l : WasHeld(v, r, l) => WasHeld(v, r, l)'
      BY <2>1 DEF WasHeld
    <2>5. ticket.state \in Fenceable => owner[ticket.version].l = leader
      <3>1. SUFFICES ASSUME ticket.state \in Fenceable
                     PROVE  owner[ticket.version].l = leader
        OBVIOUS
      <3>2. ExactRow /\ hist[LatestRow].l = leader
        BY <1>4, <3>1 DEF Fenced, Fenceable
      <3>3. LatestRow # 0 /\ LatestRow = ticket.version
        BY <3>2 DEF ExactRow
      <3> QED
        BY <3>2, <3>3, RowIsHeld DEF Inv, WasHeld
    <2>6. Held'
      <3>1. \A i \in DOMAIN claims' : WasHeld(claims[i].v, claims[i].r, claims[i].l)'
        BY <2>2, <2>4 DEF Inv, Held
      <3>2. \A i \in DOMAIN entries' : WasHeld(entries[i].v, entries[i].r, entries[i].l)'
        BY <1>2, <2>4 DEF Inv, Held
      <3>3. \A v \in DOMAIN hist' : hist'[v].trig \in {"recovered", "operator_recover"} =>
                WasHeld(v, hist[v].r, hist[v].l)'
        BY <2>1, <2>4 DEF Inv, Held
      <3>4. /\ \A q \in requests' : WasHeld(q.v, q.r, q.l)'
            /\ \A x \in epochs' : WasHeld(x.exV + 1, x.r, x.l)'
            /\ worktree' # NoFence => WasHeld(worktree.v, worktree.r, worktree.l)'
        BY <1>2, <2>4 DEF Inv, Held, NoFence, Fence
      <3> QED
        BY <1>2, <2>1, <2>5, <3>1, <3>2, <3>3, <3>4 DEF Inv, Held, NoFence, Fence
    <2>7. Started' /\ PriorHeldTicket'
      BY <1>2, <2>1 DEF Inv, Started, PriorHeldTicket, Rows, Recovered
    <2>8. Controlled'
      BY <1>2, <2>1, <2>4 DEF Inv, Controlled, Speaks
    <2>9. Ordered'
      BY <1>2, <2>2 DEF Inv, Ordered
    <2>10. Counted'
      BY <1>2, <2>1 DEF Inv, Counted, Where, Accepted, Unresolved, Decisions
    <2>11. CompletedIsNotRerun'
      BY <2>2 DEF Inv, CompletedIsNotRerun
    <2> QED
      BY <2>3, <2>6, <2>7, <2>8, <2>9, <2>10, <2>11 DEF Inv
  <1>5. CASE p # 0 /\ Fenced
    <2>1. HeldBy(p)
      BY <1>1, <1>5, PriorIsHeld
    <2>2. p \in Nat
      <3>1. PICK w \in 1 .. ticket.version : owner[w] = [r |-> ticket.runner, l |-> p]
        BY <2>1 DEF HeldBy
      <3>2. owner[w] \in OwnerSet
        BY <3>1 DEF Inv, Typed
      <3> QED
        BY <3>1, <3>2 DEF OwnerSet
    <2>3. PICK e \in EventSet :
              /\ e.trig = "recovered" /\ e.r = ticket.runner + 1 /\ e.pl = p /\ e.l = leader
              /\ e = [Event("recovered", ticket.state, ticket.state) EXCEPT
                         !.r = ticket.runner + 1, !.pl = p, !.l = leader]
      <3>1. PICK st \in States : st = ticket.state
        BY DEF Inv, Typed
      <3>2. PICK n \in Nat : n = ticket.runner + 1
        BY DEF Inv, Typed
      <3>3. PICK m \in Nat : m = leader
        BY DEF Inv, Typed
      <3> DEFINE e == [Event("recovered", st, st) EXCEPT !.r = n, !.pl = p, !.l = m]
      <3>4. e \in EventSet
        BY <2>2 DEF Event, EventSet, Codes, Triggers
      <3>5. e.trig = "recovered" /\ e.r = n /\ e.pl = p /\ e.l = m
        BY DEF Event
      <3> QED
        BY <3>1, <3>2, <3>3, <3>4, <3>5
    <2>4. PICK r \in Nat, st \in States, rs \in Phases \union {"none"}, c \in Codes :
              r = ticket.runner + 1 /\ st = ticket.state /\ rs = ticket.resume /\ c = ticket.code
      BY DEF Inv, Typed
    <2>5. Step(e, st, rs, r, c)
      BY <1>1, <1>5, <2>3, <2>4
    <2>6. /\ Transits /\ New = e /\ ticket'.state = ticket.state
          /\ ticket'.resume = ticket.resume /\ ticket'.runner = ticket.runner + 1
      BY <1>2, <2>4, <2>5, StepIs DEF Inv
    <2>7. Bears /\ claims' = Retired
      BY <1>1, <1>2, <1>5 DEF Bears
    <2>8. Controls
      BY <1>2, <2>6, ControlsIs
    <2>9. Returns'
      BY <2>6 DEF Returns, Inv, Typed
    <2>10. Starts
      BY <1>2, <1>5, <2>6 DEF Starts, Fenced, Phases
    <2>11. Counted'
      <3>1. Where' = Where
        BY <2>6 DEF Where
      <3>2. New.trig \notin Decided
        BY <2>3, <2>6 DEF Decided
      <3> QED
        BY <1>2, <2>6, <3>1, <3>2, CountedStep DEF Inv
    <2>12. \E w \in 1 .. ticket.version : owner[w] = [r |-> New.r - 1, l |-> New.pl]
      <3>1. New.r - 1 = ticket.runner
        BY <2>3, <2>6 DEF Inv, Typed
      <3> QED
        BY <2>1, <2>3, <2>6, <3>1 DEF HeldBy
    <2> QED
      BY <2>3, <2>6, <2>7, <2>8, <2>9, <2>10, <2>11, <2>12, MoveInv DEF Inv
  <1> QED
    BY <1>3, <1>4, <1>5

-----------------------------------------------------------------------------
(* The invariant *)

LEMMA NextInv ==
    ASSUME Inv, [Next]_vars
    PROVE  Inv'
  <1>1. CASE StartOrAdopt
    BY <1>1, StartStep
  <1>2. CASE RegisterWorktree
    BY <1>2, QuietStep
  <1>3. ASSUME NEW ph \in Phases, BeginProviderAttempt(ph) \/ TransitionProviderExhausted(ph)
        PROVE  Inv'
    BY <1>3, BeginStep, ExhaustStep
  <1>4. ASSUME NEW i \in DOMAIN claims, CompleteAttempt(i) \/ FailAttempt(i)
        PROVE  Inv'
    BY <1>4, SettleStep
  <1>5. ASSUME NEW i \in DOMAIN claims, RecordPlan(i) \/ RecordCandidate(i)
        PROVE  Inv'
    BY <1>5, QuietStep
  <1>6. ASSUME NEW i \in DOMAIN claims, RecordVerification(i)
        PROVE  Inv'
    BY <1>6, RevisionStep
  <1>7. ASSUME NEW i \in DOMAIN claims,
               TransitionPlan(i) \/ TransitionVerification(i) \/ TransitionCandidate(i)
        PROVE  Inv'
    BY <1>7, PassStep
  <1>8. ASSUME NEW i \in DOMAIN claims, TransitionVerificationAmendmentRequest(i)
        PROVE  Inv'
    BY <1>8, RequestStep
  <1>9. ASSUME NEW i \in DOMAIN claims,
               \/ TransitionVerificationAmendmentAccepted(i)
               \/ TransitionVerificationAmendmentRejected(i)
        PROVE  Inv'
    BY <1>9, DecideStep
  <1>10. CASE \/ \E code \in {"recoverable", "terminal"} : Block(code)
              \/ \E i \in DOMAIN claims : BlockInvalidVerificationAmendment(i)
    BY <1>10, BlockStep
  <1>11. CASE SealRuntimeControl \/ Rearm
    BY <1>11, ControlStep
  <1>12. CASE TransitionProviderRetry \/ Resume
    BY <1>12, ResumeStep
  <1>13. CASE RecoverBlocked
    BY <1>13, RecoverBlockedStep
  <1>14. CASE Pause \/ Cancel
    BY <1>14, StopStep
  <1>15. CASE Drain
    BY <1>15, DrainStep
  <1>16. CASE Crash \/ AcquireLeader
    BY <1>16, DaemonStep
  <1>17. CASE FenceRecoveredRunners
    BY <1>17, FenceStep
  <1>18. CASE UNCHANGED vars
    <2>1. /\ UNCHANGED <<leader, ticket, hist, owner, requests, epochs, entries, claims, revs,
                         control, worktree, pc>>
      BY <1>18 DEF vars, ledger
    <2>2. claims' \in Seq(ClaimSet)
      BY <2>1 DEF Inv, Typed
    <2> QED
      BY <2>1, <2>2, QuietInv DEF Inv
  <1> QED
    BY <1>1, <1>2, <1>3, <1>4, <1>5, <1>6, <1>7, <1>8, <1>9, <1>10, <1>11, <1>12, <1>13, <1>14,
       <1>15, <1>16, <1>17, <1>18 DEF Next

LEMMA InitInv ==
    ASSUME Init
    PROVE  Inv
  <1> DEFINE e == Event("submit_valid", "none", "queued")
  <1>1. e \in EventSet /\ e.trig = "submit_valid"
    BY DEF Event, EventSet, Codes, Triggers, States
  <1> HIDE DEF e
  <1>2. hist = <<e>> /\ owner = <<[r |-> 1, l |-> 1]>> /\ [r |-> 1, l |-> 1] \in OwnerSet
    BY DEF Init, OwnerSet, e
  <1>3. /\ ticket = [state |-> "queued", resume |-> "none", version |-> 1, runner |-> 1,
                     code |-> "none"]
        /\ leader = 1 /\ entries = <<>> /\ epochs = {} /\ claims = <<>> /\ requests = {}
        /\ revs = <<>> /\ control = NoControl /\ worktree = NoFence
    BY DEF Init
  <1>4. Typed
    BY <1>1, <1>2, <1>3 DEF Typed, Returns, Halted, States, Codes, Phases
  <1>5. \A v \in DOMAIN hist : v = 1 /\ hist[v].trig = "submit_valid"
    BY <1>1, <1>2
  <1>6. Held
    BY <1>2, <1>3, <1>5 DEF Held, Fenceable, Phases
  <1>7. Started
    BY <1>3 DEF Started, Halted, Phases
  <1>8. Controlled
    BY <1>3 DEF Controlled, ControlSet, NoControl, NoFence, Fence, Points
  <1>9. Ordered /\ CompletedIsNotRerun
    BY <1>3 DEF Ordered, CompletedIsNotRerun
  <1>10. Counted
    <2>1. Where = "queued" /\ Accepted = {}
      BY <1>3, <1>5 DEF Where, Halted, Accepted
    <2> QED
      BY <1>3, <2>1 DEF Counted
  <1>11. PriorHeldTicket
    BY <1>5 DEF PriorHeldTicket, Rows, Recovered
  <1> QED
    BY <1>4, <1>6, <1>7, <1>8, <1>9, <1>10, <1>11 DEF Inv

-----------------------------------------------------------------------------
(* The refinement of the normative machine *)

\* A row with its own target.
LEMMA FiresPlain ==
    ASSUME NEW F, NEW b \in Normative!AllStates, NEW res,
           Normative!Row(F, b, res) \in Normative!ForwardRows \union Normative!ControlRows,
           b \notin {"$same", "$resume_state"},
           ticket.state \in F, ticket'.state = b,
           \/ res \notin {"$from", "$stored"} /\ ticket'.resume = res
           \/ res = "$from" /\ ticket'.resume = ticket.state
           \/ res = "$stored" /\ ticket'.resume = ticket.resume
    PROVE  Normative!Next
  <1> DEFINE row == Normative!Row(F, b, res)
  <1>1. row.from = F /\ row.to = b /\ row.res = res
    BY DEF Normative!Row
  <1> HIDE DEF row
  <1>2. Normative!Fire(row)
    BY <1>1 DEF Normative!Fire, Normative!ResolveTarget, Normative!ResolveResume
  <1> QED
    BY <1>2 DEF Normative!Next, row

\* A row that returns to the stored state.
LEMMA FiresBack ==
    ASSUME NEW F,
           Normative!Row(F, "$resume_state", "none") \in Normative!ControlRows,
           ticket.state \in F, ticket.resume \in Phases,
           ticket'.state = ticket.resume, ticket'.resume = "none"
    PROVE  Normative!Next
  <1> DEFINE row == Normative!Row(F, "$resume_state", "none")
  <1>1. row.from = F /\ row.to = "$resume_state" /\ row.res = "none"
    BY DEF Normative!Row
  <1>2. ticket.resume \in Normative!AllStates
    BY DEF Normative!AllStates, Normative!Active, Normative!Working, Phases
  <1> HIDE DEF row
  <1>3. Normative!Fire(row)
    BY <1>1, <1>2 DEF Normative!Fire, Normative!ResolveTarget, Normative!ResolveResume
  <1> QED
    BY <1>3 DEF Normative!Next, row

\* Every step of the model is a row of the table, or leaves the state alone.
LEMMA NormativeStep ==
    ASSUME Inv, [Next]_vars
    PROVE  [Normative!Next]_(Normative!machine)
  <1> USE DEF Move, Step
  <1> DEFINE same == ticket'.state = ticket.state /\ ticket'.resume = ticket.resume
  <1>1. /\ Phases \subseteq Normative!Working /\ Phases \subseteq Normative!Active
        /\ {"planning", "verifying", "building", "publishing", "paused", "stopping", "blocked",
            "cancelling", "cancelled"} \subseteq Normative!AllStates
    BY DEF Normative!AllStates, Normative!Active, Normative!Working, Normative!Stopped,
           Normative!Terminal, Phases
  <1>2. ticket.state \in Halted => ticket.resume \in Phases
    BY DEF Inv, Typed, Returns
  <1>3. CASE StartOrAdopt
    <2>1. ticket.state = "queued" /\ ticket'.state = "planning" /\ ticket'.resume = "none"
      BY <1>3 DEF StartOrAdopt, At0
    <2>2. Normative!Row({"queued"}, "planning", "none") \in Normative!ForwardRows
      BY DEF Normative!ForwardRows
    <2> QED
      BY <1>1, <2>1, <2>2, FiresPlain
  <1>4. ASSUME NEW i \in DOMAIN claims,
               TransitionPlan(i) \/ TransitionVerification(i) \/ TransitionCandidate(i)
        PROVE  Normative!Next
    <2>1. /\ \/ ticket.state = "planning" /\ ticket'.state = "verifying"
             \/ ticket.state = "verifying" /\ ticket'.state = "building"
             \/ ticket.state = "building" /\ ticket'.state = "publishing"
          /\ ticket'.resume = "none"
      BY <1>4 DEF TransitionPlan, TransitionVerification, TransitionCandidate, Pass, At0
    <2>2. /\ Normative!Row({"planning"}, "verifying", "none") \in Normative!ForwardRows
          /\ Normative!Row({"verifying"}, "building", "none") \in Normative!ForwardRows
          /\ Normative!Row({"building"}, "publishing", "none") \in Normative!ForwardRows
      BY DEF Normative!ForwardRows
    <2> QED
      BY <1>1, <2>1, <2>2, FiresPlain
  <1>5. ASSUME NEW i \in DOMAIN claims,
               \/ TransitionVerificationAmendmentRequest(i)
               \/ TransitionVerificationAmendmentAccepted(i)
               \/ TransitionVerificationAmendmentRejected(i)
        PROVE  Normative!Next
    <2>1. /\ \/ ticket.state = "building" /\ ticket'.state = "verifying"
             \/ ticket.state = "verifying" /\ ticket'.state = "building"
          /\ ticket'.resume = "none"
      BY <1>5 DEF TransitionVerificationAmendmentRequest, TransitionVerificationAmendmentAccepted,
                  TransitionVerificationAmendmentRejected, Decide, DecidedBy, At0
    <2>2. /\ Normative!Row({"building"}, "verifying", "none") \in Normative!ForwardRows
          /\ Normative!Row({"verifying"}, "building", "none") \in Normative!ForwardRows
      BY DEF Normative!ForwardRows
    <2> QED
      BY <1>1, <2>1, <2>2, FiresPlain
  <1>6. ASSUME NEW ph \in Phases, TransitionProviderExhausted(ph)
        PROVE  Normative!Next
    <2> DEFINE F == Normative!Working \union {"waiting_ci", "merging"}
    <2>1. ticket.state = ph /\ ticket'.state = "paused" /\ ticket'.resume = ph
      BY <1>6 DEF TransitionProviderExhausted, At0
    <2>2. Normative!Row(F, "paused", "$from") \in Normative!ControlRows
      BY DEF Normative!ControlRows
    <2>3. ticket.state \in F
      BY <1>1, <2>1
    <2> HIDE DEF F
    <2> QED
      BY <1>1, <2>1, <2>2, <2>3, FiresPlain
  <1>7. CASE TransitionProviderRetry \/ Resume \/ RecoverBlocked
    <2>1. /\ ticket.state \in {"paused", "blocked"}
          /\ ticket'.state = ticket.resume /\ ticket'.resume = "none"
      <3>1. CASE TransitionProviderRetry
        BY <3>1 DEF TransitionProviderRetry, At0
      <3>2. CASE Resume
        BY <3>2 DEF Resume, At0
      <3>3. CASE RecoverBlocked
        <4>1. PICK p, e : /\ p \in validateProviderBlockedRecoveryPrefix
                          /\ Step(e, ticket.resume, "none", ticket.runner, "none")
          BY <3>3 DEF RecoverBlocked
        <4> QED
          BY <3>3, <4>1 DEF RecoverBlocked, At0
      <3> QED
        BY <1>7, <3>1, <3>2, <3>3
    <2>2. /\ Normative!Row({"paused"}, "$resume_state", "none") \in Normative!ControlRows
          /\ Normative!Row({"blocked"}, "$resume_state", "none") \in Normative!ControlRows
      BY DEF Normative!ControlRows
    <2>3. ticket.resume \in Phases
      BY <1>2, <2>1 DEF Halted
    <2> QED
      BY <2>1, <2>2, <2>3, FiresBack
  <1>8. CASE \/ \E code \in {"recoverable", "terminal"} : Block(code)
             \/ \E i \in DOMAIN claims : BlockInvalidVerificationAmendment(i)
    <2> DEFINE F == Normative!Active \union {"queued", "stopping", "cancelling"}
    <2>1. /\ ticket.state \in Phases
          /\ ticket'.state = "blocked" /\ ticket'.resume = ticket.state
      BY <1>8 DEF Block, BlockInvalidVerificationAmendment, At0, Phases
    <2>2. Normative!Row(F, "blocked", "$from") \in Normative!ControlRows
      BY DEF Normative!ControlRows
    <2>3. ticket.state \in F
      BY <1>1, <2>1
    <2> HIDE DEF F
    <2> QED
      BY <1>1, <2>1, <2>2, <2>3, FiresPlain
  <1>9. CASE Pause
    <2>1. /\ ticket.state \in Phases
          /\ ticket'.state = "stopping" /\ ticket'.resume = ticket.state
      BY <1>9 DEF Pause, StopInto
    <2>2. Normative!Row(Normative!Active, "stopping", "$from") \in Normative!ControlRows
      BY DEF Normative!ControlRows
    <2> QED
      BY <1>1, <2>1, <2>2, FiresPlain
  <1>10. CASE Cancel
    <2> DEFINE F == Normative!Active \union {"queued", "paused", "blocked", "stopping"}
    <2>1. /\ ticket.state \in Phases \union {"queued", "stopping", "paused", "blocked"}
          /\ ticket'.state = "cancelling" /\ ticket'.resume = "none"
      BY <1>10 DEF Cancel, StopInto
    <2>2. Normative!Row(F, "cancelling", "none") \in Normative!ControlRows
      BY DEF Normative!ControlRows
    <2>3. ticket.state \in F
      BY <1>1, <2>1
    <2> HIDE DEF F
    <2> QED
      BY <1>1, <2>1, <2>2, <2>3, FiresPlain
  <1>11. CASE Drain
    <2>1. \/ /\ ticket.state = "stopping" /\ ticket'.state = "paused"
             /\ ticket'.resume = ticket.resume
          \/ /\ ticket.state = "cancelling" /\ ticket'.state = "cancelled"
             /\ ticket'.resume = "none"
      BY <1>11 DEF Drain
    <2>2. /\ Normative!Row({"stopping"}, "paused", "$stored") \in Normative!ControlRows
          /\ Normative!Row({"cancelling"}, "cancelled", "none") \in Normative!ControlRows
      BY DEF Normative!ControlRows
    <2> QED
      BY <1>1, <2>1, <2>2, FiresPlain
  <1>12. CASE FenceRecoveredRunners
    <2>1. same
      BY <1>12 DEF FenceRecoveredRunners
    <2> QED
      BY <2>1 DEF Normative!machine
  <1>13. ASSUME UNCHANGED ticket
         PROVE  UNCHANGED Normative!machine
    BY <1>13 DEF Normative!machine
  <1>14. CASE \/ RegisterWorktree \/ SealRuntimeControl \/ Rearm \/ Crash \/ AcquireLeader
              \/ UNCHANGED vars
    BY <1>13, <1>14 DEF RegisterWorktree, SealRuntimeControl, Rearm, Crash, AcquireLeader, vars,
                        ledger
  <1>15. ASSUME NEW ph \in Phases, BeginProviderAttempt(ph)
         PROVE  UNCHANGED Normative!machine
    BY <1>13, <1>15 DEF BeginProviderAttempt
  <1>16. ASSUME NEW i \in DOMAIN claims,
                \/ CompleteAttempt(i) \/ FailAttempt(i)
                \/ RecordPlan(i) \/ RecordVerification(i) \/ RecordCandidate(i)
         PROVE  UNCHANGED Normative!machine
    BY <1>13, <1>16 DEF CompleteAttempt, FailAttempt, Settle, RecordPlan, RecordVerification,
                        RecordCandidate, Bind
  <1> QED
    BY <1>3, <1>4, <1>5, <1>6, <1>7, <1>8, <1>9, <1>10, <1>11, <1>12, <1>14, <1>15, <1>16
       DEF Next

-----------------------------------------------------------------------------
(* Theorems *)

LEMMA BuildInv == Spec => []Inv
  <1>1. Init => Inv
    BY InitInv
  <1>2. Inv /\ [Next]_vars => Inv'
    BY NextInv
  <1> QED
    BY <1>1, <1>2, PTL DEF Spec

\* Every version, table and fence keeps its type, a stopped ticket knows the
\* phase it returns to, and every fence that a table cites was really held by
\* the daemon it names.
THEOREM BuildFencesAreReal == Spec => [](Typed /\ Held)
  <1>1. Inv => Typed /\ Held
    BY DEF Inv
  <1> QED
    BY <1>1, BuildInv, PTL

\* The startup fence never names a leader that did not hold the ticket with the
\* runner it replaces, over any number of starts, pauses, blocks, retries and
\* amendments (FenceRecoveredRunners; lease.go).
THEOREM BuildPriorHeldTicket == Spec => []PriorHeldTicket
  <1>1. Inv => PriorHeldTicket
    BY DEF Inv
  <1> QED
    BY <1>1, BuildInv, PTL

\* A provider that has answered is never run again for the same phase entry
\* (LatestReusableProviderAttempt and the worker's phases).
THEOREM BuildCompletedIsNotRerun == Spec => []CompletedIsNotRerun
  <1>1. Inv => CompletedIsNotRerun
    BY DEF Inv
  <1> QED
    BY <1>1, BuildInv, PTL

\* The Builder works on exactly the revision that the decisions established.
THEOREM BuildRevisionsMatch == Spec => []RevisionsMatchDecisions
  <1>1. Inv => RevisionsMatchDecisions
    <2> SUFFICES ASSUME Inv, ticket.state \in {"building", "publishing"}
                 PROVE  Len(revs) = 1 + Count({"amendment_accepted"})
      BY DEF RevisionsMatchDecisions
    <2>1. Where \in {"building", "publishing"}
      BY DEF Where, Halted
    <2>2. Count({"amendment_accepted"}) = Cardinality(Accepted)
      BY DEF Count, Accepted
    <2> QED
      BY <2>1, <2>2 DEF Inv, Counted
  <1> QED
    BY <1>1, BuildInv, PTL

\* The Store moves the ticket only as the normative table of the engine allows.
THEOREM BuildIsNormative == Spec => NormativeSpec
  <1>1. Init => Normative!Init
    BY DEF Init, Normative!Init
  <1>2. Inv /\ [Next]_vars => [Normative!Next]_(Normative!machine)
    BY NormativeStep
  <1> QED
    BY <1>1, <1>2, BuildInv, PTL DEF Spec, NormativeSpec, Normative!Spec
=============================================================================
