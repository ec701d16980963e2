----------------------------- MODULE SlotProofs -----------------------------
(***************************************************************************)
(* Theorems of Slots and SlotViews, for any number of packages, add-ons,   *)
(* slots, assignments, releases and sweeps at a time.                      *)
(***************************************************************************)
EXTENDS SlotViews, FiniteSetTheorems, SequenceTheorems, WellFoundedInduction, TLAPS

(* An assignment holds a package and, once it has the lock, a source.       *)
Assigning(a) ==
    /\ asg[a].pc # "idle" =>
          asg[a].package \in Packages /\ status[asg[a].package] # "NONE" /\ asg[a].ref \in Refs
    /\ asg[a].pc = "assigning" => asg[a].source \in Subs

(* An add-on on hold since yesterday is given no slot any more.             *)
NotGiven(s) == \A a \in Assigners : asg[a].pc = "assigning" => asg[a].source # s

(* What a sweep has read stays true of the add-on until it commits.         *)
Sweeping(w) ==
    /\ swp[w].pc # "idle" => swp[w].addon \in Addons
    /\ swp[w].pc \in {"revoking", "reconciling"} =>
          /\ status[swp[w].addon] \notin {"NONE", "ACTIVE"}
          /\ NotGiven(swp[w].addon)
          /\ swp[w].package \in Packages
          /\ {ref[x] : x \in SlotsOf(swp[w].addon)} \subseteq swp[w].refs
    /\ swp[w].pc = "reconciling" =>
          /\ swp[w].slots = SlotsOf(swp[w].addon)
          /\ \A r \in Releasers :
                rel[r].pc = "releasing" => rel[r].slots \cap swp[w].slots = {}

BoughtAddons == {a \in Addons : status[a] # "NONE"}

IInv ==
    /\ TypeOK
    /\ IsFiniteSet(live) /\ IsFiniteSet(BoughtAddons)
    /\ \A x \in live : ref[x] \in Refs
    /\ \A a \in Assigners : Assigning(a)
    /\ \A r \in Releasers : rel[r].pc # "idle" => rel[r].package \in Packages
    /\ \A s \in Addons : status[s] = "ON_HOLD" /\ s \notin held => NotGiven(s)
    /\ \A w \in Sweepers : Sweeping(w)
    /\ \A v, w \in Sweepers :
          swp[v].pc = "reconciling" /\ swp[w].pc = "reconciling" /\ v # w =>
              swp[v].addon # swp[w].addon

-----------------------------------------------------------------------------
(* Sums of capacities.  What some sources provide is a set of units, and a  *)
(* sum of capacities is the number of units: the facts about finite sets    *)
(* then do for sums what they do for slots.                                 *)
Units(f, S) == UNION {{s} \X (1..f[s]) : s \in S}

(* Induction over the subsets of a finite set: what is not true of all of   *)
(* them is not true of a least one.                                         *)
LEMMA LeastSubset ==
  ASSUME NEW S, IsFiniteSet(S), NEW T \in SUBSET (SUBSET S), T # {}
  PROVE  \E t \in T : \A u \in T : u \subseteq t => u = t
  <1>1. PICK t \in T : \A u \in T : ~ (<<u, t>> \in StrictSubsetOrdering(S))
    BY FS_StrictSubsetOrderingWellFounded, FS_FiniteSubsetsOfFinite, WFMin
  <1> QED
    BY <1>1 DEF StrictSubsetOrdering

LEMMA UnitsOfOne ==
  ASSUME NEW f \in [Subs -> Nat], NEW s \in Subs
  PROVE  IsFiniteSet(Units(f, {s})) /\ Cardinality(Units(f, {s})) = f[s]
  <1>1. PICK n \in Nat : n = f[s]
    OBVIOUS
  <1>2. Units(f, {s}) = {s} \X (1..n)
    BY <1>1 DEF Units
  <1>3. IsFiniteSet(1..n) /\ Cardinality(1..n) = n
    BY FS_Interval
  <1>4. IsFiniteSet({s}) /\ Cardinality({s}) = 1
    BY FS_Singleton
  <1>5. IsFiniteSet({s} \X (1..n)) /\ Cardinality({s} \X (1..n)) = 1 * n
    BY <1>3, <1>4, FS_Product
  <1>6. 1 * n = n
    OBVIOUS
  <1> QED
    BY <1>1, <1>2, <1>5, <1>6, Zenon

LEMMA UnitsFinite ==
  ASSUME NEW f \in [Subs -> Nat], NEW S \in SUBSET Subs, IsFiniteSet(S)
  PROVE  IsFiniteSet(Units(f, S))
  <1> DEFINE T == {s \in SUBSET S : ~ IsFiniteSet(Units(f, s))}
  <1> SUFFICES ASSUME T # {} PROVE FALSE
    OBVIOUS
  <1>1. PICK t \in T : \A u \in T : u \subseteq t => u = t
    <2>1. T \in SUBSET (SUBSET S)
      OBVIOUS
    <2> HIDE DEF T
    <2> QED
      BY <2>1, LeastSubset
  <1>2. CASE t = {}
    <2>1. Units(f, t) = {}
      BY <1>2 DEF Units
    <2> QED
      BY <2>1, FS_EmptySet
  <1>3. ASSUME NEW c \in t PROVE FALSE
    <2>1. Units(f, t) = Units(f, t \ {c}) \cup Units(f, {c})
      BY DEF Units
    <2>2. IsFiniteSet(Units(f, t \ {c}))
      BY <1>1
    <2>3. IsFiniteSet(Units(f, {c}))
      BY UnitsOfOne
    <2>4. IsFiniteSet(Units(f, t))
      BY <2>1, <2>2, <2>3, FS_Union
    <2> QED
      BY <2>4
  <1> QED
    BY <1>2, <1>3

(* One source more.                                                         *)
LEMMA UnitsOfMore ==
  ASSUME NEW f \in [Subs -> Nat], NEW S \in SUBSET Subs, IsFiniteSet(S), NEW c \in Subs \ S
  PROVE  Cardinality(Units(f, S \cup {c})) = f[c] + Cardinality(Units(f, S))
  <1>1. Units(f, S \cup {c}) = Units(f, S) \cup Units(f, {c}) /\ Units(f, S) \cap Units(f, {c}) = {}
    BY DEF Units
  <1>2. IsFiniteSet(Units(f, S)) /\ IsFiniteSet(Units(f, {c}))
    BY UnitsFinite, UnitsOfOne
  <1>3. Cardinality(Units(f, S)) \in Nat /\ Cardinality(Units(f, {c})) = f[c] /\ f[c] \in Nat
    BY <1>2, UnitsOfOne, FS_CardinalityType
  <1>4. Cardinality(Units(f, S) \cup Units(f, {c})) =
            Cardinality(Units(f, S)) + Cardinality(Units(f, {c})) - Cardinality(Units(f, S) \cap Units(f, {c}))
    BY <1>2, FS_Union
  <1>5. Cardinality(Units(f, S) \cap Units(f, {c})) = 0
    BY <1>1, FS_EmptySet
  <1>6. Cardinality(Units(f, S \cup {c})) =
            Cardinality(Units(f, S)) + Cardinality(Units(f, {c})) - Cardinality(Units(f, S) \cap Units(f, {c}))
    BY <1>1, <1>4, Zenon
  <1> QED
    BY <1>3, <1>5, <1>6

(* MapThenSumSet is a CHOOSE of a function that adds up: counting units is  *)
(* one, and there is no other.                                              *)
LEMMA SumIsCount ==
  ASSUME NEW f \in [Subs -> Nat], NEW S \in SUBSET Subs, IsFiniteSet(S)
  PROVE  MapThenSumSet(LAMBDA s : f[s], S) = Cardinality(Units(f, S))
  <1> DEFINE pick(s) == CHOOSE x \in s : TRUE
             adds(g) == g = [s \in SUBSET S |->
                                IF s = {} THEN 0 ELSE f[pick(s)] + g[s \ {pick(s)}]]
             count == [s \in SUBSET S |-> Cardinality(Units(f, s))]
  <1>1. MapThenSumSet(LAMBDA s : f[s], S) = (CHOOSE g : adds(g))[S]
    BY DEF MapThenSumSet, MapThenFoldSet
  <1>2. adds(count)
    <2>1. ASSUME NEW s \in SUBSET S
          PROVE  count[s] = IF s = {} THEN 0 ELSE f[pick(s)] + count[s \ {pick(s)}]
      <3>1. CASE s = {}
        <4>1. Units(f, {}) = {}
          BY DEF Units
        <4> QED
          BY <3>1, <4>1, FS_EmptySet
      <3>2. CASE s # {}
        <4>1. pick(s) \in s
          BY <3>2
        <4> DEFINE c == pick(s)
                   r == s \ {c}
        <4>2. r \in SUBSET Subs /\ IsFiniteSet(r) /\ c \in Subs \ r /\ s = r \cup {c}
          BY <4>1, FS_Subset
        <4> HIDE DEF c
        <4>3. Cardinality(Units(f, s)) = f[c] + Cardinality(Units(f, r))
          BY <4>2, UnitsOfMore
        <4> QED
          BY <3>2, <4>3 DEF c
      <3> QED
        BY <3>1, <3>2
    <2> HIDE DEF count
    <2>2. count = [s \in SUBSET S |->
                      IF s = {} THEN 0 ELSE f[pick(s)] + count[s \ {pick(s)}]]
      <3>1. count = [s \in SUBSET S |-> count[s]]
        BY DEF count
      <3> QED
        BY <2>1, <3>1
    <2> QED
      BY <2>2
  <1>3. ASSUME NEW g, adds(g) PROVE g[S] = count[S]
    <2> DEFINE T == {s \in SUBSET S : g[s] # count[s]}
    <2> SUFFICES ASSUME T # {} PROVE FALSE
      OBVIOUS
    <2>1. PICK t \in T : \A u \in T : u \subseteq t => u = t
      <3>1. T \in SUBSET (SUBSET S)
        OBVIOUS
      <3> HIDE DEF T
      <3> QED
        BY <3>1, LeastSubset
    <2> HIDE DEF count
    <2>2. CASE t = {}
      BY <1>2, <1>3, <2>2
    <2>3. CASE t # {}
      <3>1. pick(t) \in t
        BY <2>3
      <3>2. g[t \ {pick(t)}] = count[t \ {pick(t)}]
        BY <2>1, <3>1
      <3>3. g[t] = f[pick(t)] + g[t \ {pick(t)}]
        BY <1>3, <2>3
      <3>4. count[t] = f[pick(t)] + count[t \ {pick(t)}]
        BY <1>2, <2>3
      <3> QED
        BY <3>2, <3>3, <3>4
    <2> QED
      BY <2>2, <2>3
  <1> HIDE DEF adds, count
  <1>4. (CHOOSE g : adds(g))[S] = count[S]
    BY <1>2, <1>3
  <1> QED
    BY <1>1, <1>4 DEF count

LEMMA TotalIsCount ==
  ASSUME NEW S \in SUBSET Subs, IsFiniteSet(S), S \cap Unlimited = {},
         capacity = Capacity, unlimited = Unlimited
  PROVE  TotalOf(S) = Cardinality(Units(Capacity, S))
  <1>1. capacity \in [Subs -> Nat]
    BY CapacityAssumption
  <1>2. MapThenSumSet(LAMBDA s : capacity[s], S) = Cardinality(Units(capacity, S))
    BY <1>1, SumIsCount
  <1> QED
    BY <1>2 DEF TotalOf

LEMMA TotalIsNatural ==
  ASSUME NEW S \in SUBSET Subs, IsFiniteSet(S), TypeOK PROVE TotalOf(S) \in Nat
  <1>1. CASE S \cap unlimited # {}
    BY <1>1 DEF TotalOf
  <1>2. CASE S \cap unlimited = {}
    <2>1. capacity \in [Subs -> Nat]
      BY DEF TypeOK
    <2>2. TotalOf(S) = Cardinality(Units(capacity, S))
      BY <1>2, <2>1, SumIsCount DEF TotalOf
    <2> QED
      BY <2>1, <2>2, UnitsFinite, FS_CardinalityType
  <1> QED
    BY <1>1, <1>2

-----------------------------------------------------------------------------
(* Sets of numbers have a least element.                                    *)
LEMMA MinIsLeast ==
  ASSUME NEW S \in SUBSET Nat, S # {}
  PROVE  Min(S) \in S /\ \A y \in S : Min(S) <= y
  <1>1. PICK x \in S : \A y \in S : ~ (<<y, x>> \in OpToRel(<, Nat))
    BY NatLessThanWellFounded, WFMin
  <1>2. ASSUME NEW y \in S PROVE x <= y
    <2>1. <<y, x>> \notin OpToRel(<, Nat)
      BY <1>1
    <2>2. <<y, x>> \in Nat \X Nat
      OBVIOUS
    <2>3. ~ (y < x)
      BY <2>1, <2>2 DEF OpToRel
    <2> QED
      BY <2>2, <2>3
  <1> QED
    BY <1>2 DEF Min

(* slotAssign attributes a slot to the package, or to an active add-on with *)
(* room for it.                                                             *)
LEMMA AttributedHasRoom ==
  ASSUME NEW p \in Packages
  PROVE  \/ Attributed(p) = p
         \/ Attributed(p) \in ActiveAddons /\ HasRoom(Attributed(p))
  <1> DEFINE open == {s \in Sources(p) : HasRoom(s)}
  <1>1. CASE p \in open \/ open = {}
    BY <1>1 DEF Attributed
  <1>2. CASE ~ (p \in open \/ open = {})
    <2>1. Attributed(p) = Min(open)
      BY <1>2 DEF Attributed
    <2>2. open \in SUBSET Nat
      BY SubsAssumption DEF Sources, ActiveAddons, Subs
    <2>3. Min(open) \in open
      <3> HIDE DEF open
      <3> QED
        BY <1>2, <2>2, MinIsLeast
    <2> QED
      BY <1>2, <2>1, <2>3 DEF Sources
  <1> QED
    BY <1>1, <1>2

LEMMA NoAssignType == NoAssign \in AssignStates
  BY DEF NoAssign, AssignStates

LEMMA NoReleaseType == NoRelease \in ReleaseStates
  BY DEF NoRelease, ReleaseStates

LEMMA NoSweepType == NoSweep \in SweepStates
  BY DEF NoSweep, SweepStates

LEMMA InitIInv == Init => IInv
  <1> SUFFICES ASSUME Init PROVE IInv
    OBVIOUS
  <1>1. TypeOK
    BY NoAssignType, NoReleaseType, NoSweepType, CapacityAssumption, SubsAssumption
       DEF Init, TypeOK, Statuses
  <1>2. IsFiniteSet(live) /\ IsFiniteSet(BoughtAddons) /\ \A x \in live : ref[x] \in Refs
    <2>1. BoughtAddons = {} /\ live = {}
      BY DEF Init, BoughtAddons, Subs
    <2> QED
      BY <2>1, FS_EmptySet
  <1>3. \A a \in Assigners : Assigning(a)
    BY DEF Init, Assigning, NoAssign
  <1>4. \A r \in Releasers : rel[r].pc = "idle"
    BY DEF Init, NoRelease
  <1>5. \A w \in Sweepers : swp[w].pc = "idle"
    BY DEF Init, NoSweep
  <1>6. \A s \in Subs : status[s] # "ON_HOLD"
    BY DEF Init
  <1> QED
    BY <1>1, <1>2, <1>3, <1>4, <1>5, <1>6 DEF IInv, Sweeping, Subs

-----------------------------------------------------------------------------
(* Purchases, cancellations and the days that pass: only the statuses (and  *)
(* quota rows) change, and nothing comes back to life.                      *)
LEMMA StatusStep ==
  ASSUME IInv, TypeOK', UNCHANGED <<slotVars, asg, rel, swp>>,
         \A s \in Subs : status[s] # "NONE" => status'[s] # "NONE",
         \A s \in Subs : status[s] \notin {"NONE", "ACTIVE"} =>
                           status'[s] \notin {"NONE", "ACTIVE"},
         NEW c, \A s \in Addons : status'[s] # "NONE" => status[s] # "NONE" \/ s = c,
         \A s \in Addons : status'[s] = "ON_HOLD" /\ s \notin held' => NotGiven(s)
  PROVE  IInv'
  <1> USE DEF IInv, planVars, slotVars
  <1>1. IsFiniteSet(live)' /\ IsFiniteSet(BoughtAddons') /\ (\A x \in live : ref[x] \in Refs)'
    <2>1. BoughtAddons' \subseteq BoughtAddons \cup {c}
      BY DEF BoughtAddons
    <2> QED
      BY <2>1, FS_AddElement, FS_Subset
  <1>2. ASSUME NEW a \in Assigners PROVE Assigning(a)'
    BY SubsAssumption DEF Assigning, Subs
  <1>3. ASSUME NEW t \in Subs PROVE NotGiven(t)' <=> NotGiven(t)
    BY DEF NotGiven
  <1> Addons \subseteq Subs
    BY DEF Subs
  <1>4. ASSUME NEW w \in Sweepers PROVE Sweeping(w)'
    <2>1. Sweeping(w)
      OBVIOUS
    <2>2. swp[w].addon \in Addons => swp[w].addon \in Subs
      BY DEF Subs
    <2>3. SlotsOf(swp[w].addon)' = SlotsOf(swp[w].addon)
      BY DEF SlotsOf
    <2> QED
      BY <1>3, <2>1, <2>2, <2>3 DEF Sweeping
  <1> QED
    BY <1>1, <1>2, <1>3, <1>4

(* The catalogue is only edited.                                            *)
LEMMA EditsOnly ==
  ASSUME [Next]_vars
  PROVE  UNCHANGED planVars \/ \E s \in Subs : EditPlan(s)
  BY DEF Next, vars, BuyPackage, BuyAddon, Cancel, Hold, GracePasses, EnforceGrace,
      Assign, Release, Sweep, BeginAssign, LockQuota, CommitAssign, RollBackAssign, BeginRelease,
      DeleteSlot, CommitRelease, RollBackRelease, ReadExpired, Revoke, Reconcile, EmitExpired,
      LoseSweep

LEMMA EditPlanInv == ASSUME IInv, NEW s \in Subs, EditPlan(s) PROVE IInv'
  <1>1. PICK row \in Edits[s] :
          /\ capacity' = [capacity EXCEPT ![s] = row.capacity]
          /\ unlimited' = Marked(unlimited, s, row)
          /\ \E parts \in {row, WithRemoved(s, row)} :
                /\ shown' = [shown EXCEPT ![s] = parts.capacity]
                /\ shownUnlimited' = Marked(shownUnlimited, s, parts)
    BY DEF EditPlan
  <1>2. row \in Rows /\ shown[s] \in Nat
    BY EditsAssumption DEF IInv, TypeOK
  <1>3. WithRemoved(s, row) \in Rows
    BY <1>2 DEF WithRemoved, Rows
  <1>4. PICK parts \in Rows :
          /\ shown' = [shown EXCEPT ![s] = parts.capacity]
          /\ shownUnlimited' = Marked(shownUnlimited, s, parts)
    BY <1>1, <1>2, <1>3
  <1>5. row.capacity \in Nat /\ parts.capacity \in Nat
    BY <1>2, <1>4 DEF Rows
  <1>6. /\ capacity' \in [Subs -> Nat] /\ shown' \in [Subs -> Nat]
        /\ unlimited' \subseteq Subs /\ shownUnlimited' \subseteq Subs
    BY <1>1, <1>4, <1>5 DEF IInv, TypeOK, Marked
  <1>7. /\ edited' = edited \cup {s}
        /\ UNCHANGED <<status, quotaVars, slotVars, held, asg, rel, swp, suspended, recount, twice>>
    BY DEF EditPlan
  <1>8. TypeOK'
    BY <1>6, <1>7 DEF IInv, TypeOK, quotaVars, slotVars
  <1> QED
    BY <1>7, <1>8, StatusStep DEF IInv, Subs

LEMMA BuyPackageInv == ASSUME IInv, NEW p \in Packages, BuyPackage(p) PROVE IInv'
  <1>1. TypeOK'
    <2>1. TotalOf({p}) \in Nat
      BY FS_Singleton, TotalIsNatural DEF IInv, Subs
    <2> QED
      BY <2>1 DEF IInv, BuyPackage, TypeOK, Statuses, planVars, slotVars
  <1>2. \A s \in Subs : status'[s] = status[s] \/ status'[s] = "ACTIVE" \/ status[s] = "ACTIVE"
    BY DEF BuyPackage
  <1>3. \A s \in Subs : status'[s] = "ON_HOLD" => status[s] = "ON_HOLD"
    BY DEF BuyPackage
  <1>4. \A s \in Subs : status'[s] # status[s] => status[s] \in {"NONE", "ACTIVE"} /\ status'[s] # "NONE"
    BY DEF BuyPackage
  <1>5. UNCHANGED <<slotVars, asg, rel, swp, held>>
    BY DEF BuyPackage
  <1>6. \A s \in Addons : status'[s] # "NONE" => status[s] # "NONE" \/ s = p
    BY DEF BuyPackage, Subs
  <1> QED
    BY <1>1, <1>3, <1>4, <1>5, <1>6, StatusStep DEF IInv, Subs

LEMMA BuyAddonInv == ASSUME IInv, NEW a \in Addons, BuyAddon(a) PROVE IInv'
  <1>1. /\ status \in [Subs -> Statuses] /\ a \in Subs /\ total \in [Packages -> Nat]
        /\ capacity[a] \in Nat
    BY DEF IInv, TypeOK, Subs
  <1>2. total' \in [Packages -> Nat] /\ uncapped' \subseteq Packages
    BY <1>1 DEF BuyAddon, IInv, TypeOK
  <1>3. status' \in [Subs -> Statuses]
    BY <1>1 DEF BuyAddon, Statuses
  <1>4. UNCHANGED <<planVars, used, slotVars, held, asg, rel, swp, suspended, recount, twice>>
    BY DEF BuyAddon
  <1>5. TypeOK'
    BY <1>2, <1>3, <1>4 DEF IInv, TypeOK, planVars, slotVars
  <1>6. \A s \in Subs : status'[s] # status[s] => s = a /\ status[s] = "NONE" /\ status'[s] = "ACTIVE"
    BY <1>1 DEF BuyAddon
  <1> QED
    BY <1>4, <1>5, <1>6, StatusStep DEF IInv, Subs

LEMMA CancelInv == ASSUME IInv, NEW s \in Subs, Cancel(s) PROVE IInv'
  <1>1. TypeOK'
    BY DEF IInv, Cancel, TypeOK, Statuses, planVars, slotVars, quotaVars
  <1>2. \A t \in Subs : status'[t] # status[t] => status'[t] = "CANCELLED" /\ t = s
    BY DEF IInv, TypeOK, Cancel
  <1>3. UNCHANGED <<slotVars, asg, rel, swp, held>>
    BY DEF Cancel
  <1> QED
    BY <1>1, <1>2, <1>3, StatusStep DEF IInv, Subs

LEMMA HoldInv == ASSUME IInv, NEW s \in Subs, Hold(s) PROVE IInv'
  <1>1. TypeOK'
    BY DEF IInv, Hold, TypeOK, Statuses, planVars, slotVars, quotaVars
  <1>2. \A t \in Subs : status'[t] # status[t] => status'[t] = "ON_HOLD" /\ t \in held' /\ t = s
    BY DEF IInv, TypeOK, Hold
  <1>3. UNCHANGED <<slotVars, asg, rel, swp>> /\ held \subseteq held'
    BY DEF Hold
  <1> QED
    BY <1>1, <1>2, <1>3, StatusStep DEF IInv, Subs

LEMMA GracePassesInv == ASSUME IInv, GracePasses PROVE IInv'
  <1>1. TypeOK'
    BY DEF IInv, GracePasses, TypeOK, planVars, slotVars, quotaVars
  <1>2. \A t \in Subs : NotGiven(t)
    BY DEF GracePasses, NotGiven
  <1>3. UNCHANGED <<slotVars, asg, rel, swp, status>>
    BY DEF GracePasses
  <1> QED
    BY <1>1, <1>2, <1>3, StatusStep DEF IInv, Subs

LEMMA EnforceGraceInv == ASSUME IInv, NEW p \in Packages, EnforceGrace(p) PROVE IInv'
  <1> DEFINE children == {a \in Addons : status[a] = "ON_HOLD"}
             gone == {<<a, {ref[x] : x \in SlotsOf(a)}>> : a \in {c \in children : SlotsOf(c) # {}}}
  <1>1. /\ status' = [s \in Subs |-> IF s \in children \cup {p} THEN "EXPIRED" ELSE status[s]]
        /\ suspended' = suspended \cup gone
        /\ UNCHANGED <<planVars, quotaVars, slotVars, held, asg, rel, swp, recount, twice>>
    BY DEF EnforceGrace
  <1>2. gone \subseteq Addons \X SUBSET Refs
    BY DEF IInv, SlotsOf
  <1> HIDE DEF gone
  <1>3. TypeOK'
    BY <1>1, <1>2 DEF IInv, TypeOK, Statuses, planVars, slotVars, quotaVars
  <1>4. \A t \in Subs : status'[t] # status[t] => status'[t] = "EXPIRED"
    BY <1>1
  <1>5. \A t \in Addons : status'[t] # "NONE" => status[t] # "NONE" \/ t = p
    BY <1>1 DEF Subs
  <1> QED
    BY <1>1, <1>3, <1>4, <1>5, StatusStep DEF IInv, Subs

-----------------------------------------------------------------------------
(* slotAssign: one transaction changes.                                     *)
LEMMA AssignStep ==
  ASSUME IInv, NEW a \in Assigners, NEW q \in AssignStates, asg' = [asg EXCEPT ![a] = q],
         UNCHANGED <<planVars, status, quotaVars, slotVars, held, rel, swp, suspended, recount, twice>>,
         q.pc # "idle" =>
            q.package \in Packages /\ status[q.package] # "NONE" /\ q.ref \in Refs,
         q.pc = "assigning" => q.source \in Packages \cup ActiveAddons
  PROVE  IInv'
  <1> USE DEF IInv
  <1>1. asg'[a] = q /\ \A b \in Assigners \ {a} : asg'[b] = asg[b]
    BY DEF TypeOK
  <1>2. TypeOK'
    BY DEF TypeOK, planVars, slotVars, quotaVars
  <1>3. ASSUME NEW b \in Assigners PROVE Assigning(b)'
    <2>1. CASE b = a
      BY <1>1, <2>1 DEF Assigning, Subs, ActiveAddons
    <2>2. CASE b # a
      BY <1>1, <2>2 DEF Assigning
    <2> QED
      BY <2>1, <2>2
  <1>4. ASSUME NEW t \in Addons, status[t] # "ACTIVE", NotGiven(t) PROVE NotGiven(t)'
    BY <1>1, <1>4, SubsAssumption DEF NotGiven, ActiveAddons
  <1>5. ASSUME NEW w \in Sweepers PROVE Sweeping(w)'
    <2>1. Sweeping(w) /\ SlotsOf(swp[w].addon)' = SlotsOf(swp[w].addon)
      BY DEF SlotsOf, slotVars
    <2> QED
      BY <1>4, <2>1 DEF Sweeping, slotVars
  <1> QED
    BY <1>2, <1>3, <1>4, <1>5 DEF slotVars, BoughtAddons

LEMMA BeginAssignInv ==
  ASSUME IInv, NEW a \in Assigners, NEW p \in Packages, NEW c \in Refs, BeginAssign(a, p, c)
  PROVE  IInv'
  <1> DEFINE q == [NoAssign EXCEPT !.pc = "locking", !.package = p, !.ref = c]
  <1>1. q \in AssignStates /\ q.pc = "locking" /\ q.package = p /\ q.ref = c
    BY NoAssignType DEF AssignStates, NoAssign
  <1>2. /\ asg' = [asg EXCEPT ![a] = q] /\ status[p] # "NONE"
        /\ UNCHANGED <<planVars, status, quotaVars, slotVars, held, rel, swp, suspended, recount, twice>>
    BY DEF BeginAssign
  <1> HIDE DEF q
  <1> QED
    BY <1>1, <1>2, AssignStep

LEMMA LockQuotaInv == ASSUME IInv, NEW a \in Assigners, LockQuota(a) PROVE IInv'
  <1>1. PICK p \in Packages : p = asg[a].package /\ status[p] # "NONE" /\ asg[a].ref \in Refs
    BY DEF LockQuota, IInv, Assigning
  <1>2. Attributed(p) \in Packages \cup ActiveAddons
    BY AttributedHasRoom
  <1> DEFINE q == [pc |-> "assigning", package |-> p, ref |-> asg[a].ref, source |-> Attributed(p)]
  <1>3. q \in AssignStates
    BY <1>1, <1>2 DEF AssignStates, Subs, ActiveAddons
  <1>4. /\ asg' = [asg EXCEPT ![a] = q]
        /\ UNCHANGED <<planVars, status, quotaVars, slotVars, held, rel, swp, suspended, recount, twice>>
    BY <1>1 DEF LockQuota
  <1>5. q.pc = "assigning" /\ q.package = p /\ q.ref \in Refs /\ q.source = Attributed(p)
    BY <1>1
  <1> HIDE DEF q
  <1> QED
    BY <1>1, <1>2, <1>3, <1>4, <1>5, AssignStep

LEMMA RollBackAssignInv == ASSUME IInv, NEW a \in Assigners, RollBackAssign(a) PROVE IInv'
  <1>1. NoAssign.pc = "idle" /\ NoAssign \in AssignStates
    BY NoAssignType DEF NoAssign
  <1> QED
    BY <1>1, AssignStep DEF RollBackAssign

(* The commit gives the slot to a source that no sweep is about to revoke.  *)
LEMMA CommitAssignInv == ASSUME IInv, NEW a \in Assigners, CommitAssign(a) PROVE IInv'
  <1> USE DEF IInv
  <1>1. PICK p \in Packages, c \in Refs, s \in Subs :
          p = asg[a].package /\ c = asg[a].ref /\ s = asg[a].source
    BY DEF CommitAssign, Assigning
  <1>2. PICK x \in SlotIds :
          /\ ref[x] = NoRef
          /\ live' = live \cup {x}
          /\ ref' = [ref EXCEPT ![x] = c]
          /\ source' = [source EXCEPT ![x] = s]
    BY <1>1 DEF CommitAssign
  <1>3. /\ used' = [used EXCEPT ![p] = used[p] + 1]
        /\ asg' = [asg EXCEPT ![a] = NoAssign]
        /\ asg[a].pc = "assigning"
        /\ UNCHANGED <<planVars, status, total, uncapped, held, rel, swp, suspended, recount, twice>>
    BY <1>1 DEF CommitAssign
  <1>4. asg'[a].pc = "idle" /\ \A b \in Assigners \ {a} : asg'[b] = asg[b]
    BY <1>3 DEF TypeOK, NoAssign
  <1>5. TypeOK'
    BY <1>2, <1>3, NoAssignType DEF TypeOK, planVars
  <1>6. x \notin live /\ IsFiniteSet(live') /\ \A y \in live' : ref'[y] \in Refs
    BY <1>2, NoRefAssumption, FS_AddElement DEF TypeOK
  <1>7. ASSUME NEW b \in Assigners PROVE Assigning(b)'
    BY <1>3, <1>4 DEF Assigning
  <1>8. ASSUME NEW t, NotGiven(t) PROVE NotGiven(t)' /\ SlotsOf(t)' = SlotsOf(t)
    <2>1. NotGiven(t)'
      BY <1>4, <1>8 DEF NotGiven
    <2>2. s # t
      BY <1>1, <1>3, <1>8 DEF NotGiven
    <2> QED
      BY <1>2, <1>6, <2>1, <2>2 DEF SlotsOf, TypeOK
  <1>9. ASSUME NEW w \in Sweepers PROVE Sweeping(w)'
    <2>1. CASE swp[w].pc \in {"revoking", "reconciling"}
      <3>1. Sweeping(w) /\ NotGiven(swp[w].addon)
        BY <2>1 DEF Sweeping
      <3>2. NotGiven(swp[w].addon)' /\ SlotsOf(swp[w].addon)' = SlotsOf(swp[w].addon)
        BY <1>3, <1>8, <3>1
      <3>3. \A y \in SlotsOf(swp[w].addon) : ref'[y] = ref[y]
        BY <1>2, <1>6 DEF SlotsOf, TypeOK
      <3>4. {ref[y] : y \in SlotsOf(swp[w].addon)}' = {ref[y] : y \in SlotsOf(swp[w].addon)}
        BY <3>2, <3>3
      <3> QED
        BY <1>3, <3>1, <3>2, <3>4 DEF Sweeping
    <2>2. CASE swp[w].pc \notin {"revoking", "reconciling"}
      BY <1>3, <2>2 DEF Sweeping
    <2> QED
      BY <2>1, <2>2
  <1> QED
    BY <1>3, <1>5, <1>6, <1>7, <1>8, <1>9 DEF BoughtAddons

-----------------------------------------------------------------------------
(* slotRelease: one transaction changes; it deletes no slot that a sweep is *)
(* revoking.                                                                *)
LEMMA ReleaseStep ==
  ASSUME IInv, NEW r \in Releasers, NEW q \in ReleaseStates, rel' = [rel EXCEPT ![r] = q],
         UNCHANGED <<planVars, status, total, uncapped, ref, source, held, asg, swp, suspended, recount>>,
         used' \in [Packages -> Int], twice' \subseteq Packages,
         q.pc # "idle" => q.package \in Packages,
         live' \subseteq live,
         \A w \in Sweepers :
            swp[w].pc = "reconciling" => \A x \in live : x \in swp[w].slots => x \in live',
         q.pc = "releasing" =>
            \A w \in Sweepers : swp[w].pc = "reconciling" => q.slots \cap swp[w].slots = {}
  PROVE  IInv'
  <1> USE DEF IInv
  <1>0. PICK gone \in SUBSET SlotIds : gone = live \ live'
    BY DEF TypeOK
  <1>1. rel'[r] = q /\ \A o \in Releasers \ {r} : rel'[o] = rel[o]
    BY DEF TypeOK
  <1>2. TypeOK'
    BY DEF TypeOK, planVars
  <1>3. IsFiniteSet(live')
    BY FS_Subset
  <1>4. ASSUME NEW a \in Assigners PROVE Assigning(a)'
    BY DEF Assigning
  <1>5. ASSUME NEW t PROVE (NotGiven(t)' <=> NotGiven(t)) /\ SlotsOf(t)' = SlotsOf(t) \ gone
    BY <1>0 DEF NotGiven, SlotsOf
  <1>6. ASSUME NEW w \in Sweepers PROVE Sweeping(w)'
    <2>1. Sweeping(w)
      OBVIOUS
    <2>2. {ref[x] : x \in SlotsOf(swp[w].addon) \ gone} \subseteq {ref[x] : x \in SlotsOf(swp[w].addon)}
      OBVIOUS
    <2>3. {ref[x] : x \in SlotsOf(swp[w].addon)}' = {ref[x] : x \in SlotsOf(swp[w].addon) \ gone}
      BY <1>5
    <2>4. ASSUME swp[w].pc = "reconciling"
          PROVE  SlotsOf(swp[w].addon)' = SlotsOf(swp[w].addon)
      <3>1. SlotsOf(swp[w].addon)' = SlotsOf(swp[w].addon) \ gone
        BY <1>5
      <3>2. SlotsOf(swp[w].addon) = swp[w].slots /\ gone \cap swp[w].slots = {}
        BY <1>0, <2>1, <2>4 DEF Sweeping, SlotsOf
      <3> QED
        BY <3>1, <3>2
    <2>5. ASSUME swp[w].pc = "reconciling", NEW o \in Releasers, rel'[o].pc = "releasing"
          PROVE  rel'[o].slots \cap swp[w].slots = {}
      BY <1>1, <2>1, <2>5 DEF Sweeping
    <2> QED
      BY <1>5, <2>1, <2>2, <2>3, <2>4, <2>5 DEF Sweeping
  <1> QED
    BY <1>1, <1>2, <1>3, <1>4, <1>5, <1>6 DEF BoughtAddons

LEMMA RowsStay ==
  ASSUME IInv, NEW r \in Releasers, NEW q \in ReleaseStates, rel' = [rel EXCEPT ![r] = q],
         UNCHANGED <<planVars, status, total, uncapped, ref, source, held, asg, swp, suspended, recount>>,
         used' \in [Packages -> Int], twice' \subseteq Packages,
         q.pc # "idle" => q.package \in Packages,
         live' = live,
         q.pc = "releasing" =>
            \A w \in Sweepers : swp[w].pc = "reconciling" => q.slots \cap swp[w].slots = {}
  PROVE  IInv'
  <1>1. live' \subseteq live /\ \A x \in live : x \in live'
    OBVIOUS
  <1> QED
    BY <1>1, ReleaseStep

LEMMA BeginReleaseInv ==
  ASSUME IInv, NEW r \in Releasers, NEW p \in Packages, BeginRelease(r, p) PROVE IInv'
  <1>1. PICK x \in live :
          /\ rel' = [rel EXCEPT ![r] =
                [NoRelease EXCEPT !.pc = "deleting", !.package = p, !.slots = {x}]]
          /\ twice' = IF \E q \in Releasers : x \in rel[q].slots THEN twice \cup {p} ELSE twice
    BY DEF BeginRelease
  <1> DEFINE q == [NoRelease EXCEPT !.pc = "deleting", !.package = p, !.slots = {x}]
  <1>2. q \in ReleaseStates /\ q.pc = "deleting" /\ q.package = p
    BY NoReleaseType DEF ReleaseStates, NoRelease, IInv, TypeOK
  <1>3. /\ rel' = [rel EXCEPT ![r] = q]
        /\ UNCHANGED <<planVars, status, total, uncapped, ref, source, held, asg, swp, suspended, recount>>
        /\ used' \in [Packages -> Int] /\ live' = live /\ twice' \subseteq Packages
    BY <1>1 DEF BeginRelease, quotaVars, slotVars, IInv, TypeOK
  <1> HIDE DEF q
  <1> QED
    BY <1>2, <1>3, RowsStay

LEMMA DeleteSlotInv == ASSUME IInv, NEW r \in Releasers, DeleteSlot(r) PROVE IInv'
  <1> DEFINE q == [pc |-> "releasing", package |-> rel[r].package, slots |-> rel[r].slots,
                   decrement |-> used[rel[r].package] > 0]
  <1>1. rel[r] \in ReleaseStates /\ rel[r].package \in Packages
    BY DEF IInv, TypeOK, DeleteSlot
  <1>2. q \in ReleaseStates /\ q.pc = "releasing" /\ q.package \in Packages /\ q.slots = rel[r].slots
    BY <1>1 DEF ReleaseStates
  <1>3. /\ rel' = [rel EXCEPT ![r] = q]
        /\ UNCHANGED <<planVars, status, total, uncapped, ref, source, held, asg, swp, suspended, recount>>
        /\ used' \in [Packages -> Int] /\ live' = live /\ twice' \subseteq Packages
    BY DEF DeleteSlot, quotaVars, slotVars, IInv, TypeOK
  <1>4. \A w \in Sweepers : swp[w].pc = "reconciling" => q.slots \cap swp[w].slots = {}
    BY <1>2 DEF DeleteSlot, Deleting
  <1> HIDE DEF q
  <1> QED
    BY <1>2, <1>3, <1>4, RowsStay

LEMMA CommitReleaseInv == ASSUME IInv, NEW r \in Releasers, CommitRelease(r) PROVE IInv'
  <1>1. /\ rel[r] \in ReleaseStates /\ rel[r].package \in Packages
        /\ rel[r].slots \in SUBSET SlotIds
    BY DEF IInv, TypeOK, CommitRelease, ReleaseStates
  <1>2. used' \in [Packages -> Int] /\ twice' \subseteq Packages
    BY <1>1 DEF CommitRelease, DecrementUsed, IInv, TypeOK
  <1>3. /\ rel' = [rel EXCEPT ![r] = NoRelease]
        /\ UNCHANGED <<planVars, status, total, uncapped, ref, source, held, asg, swp, suspended, recount>>
        /\ live' = live \ rel[r].slots
    BY DEF CommitRelease
  <1>4. \A w \in Sweepers :
            swp[w].pc = "reconciling" => \A x \in live : x \in swp[w].slots => x \in live'
    BY <1>3 DEF CommitRelease, IInv, Sweeping
  <1>5. NoRelease.pc = "idle"
    BY DEF NoRelease
  <1> QED
    BY <1>1, <1>2, <1>3, <1>4, <1>5, NoReleaseType, ReleaseStep

LEMMA RollBackReleaseInv == ASSUME IInv, NEW r \in Releasers, RollBackRelease(r) PROVE IInv'
  <1>1. /\ rel' = [rel EXCEPT ![r] = NoRelease]
        /\ UNCHANGED <<planVars, status, total, uncapped, ref, source, held, asg, swp, suspended, recount>>
        /\ used' \in [Packages -> Int] /\ live' = live /\ twice' \subseteq Packages
    BY DEF RollBackRelease, quotaVars, slotVars, IInv, TypeOK
  <1>2. NoRelease.pc = "idle"
    BY DEF NoRelease
  <1> QED
    BY <1>1, <1>2, NoReleaseType, RowsStay

-----------------------------------------------------------------------------
(* The sweep: one run changes, and the rows do not.                         *)
LEMMA SweepStep ==
  ASSUME IInv, NEW w \in Sweepers, NEW q \in SweepStates, swp' = [swp EXCEPT ![w] = q],
         UNCHANGED <<planVars, status, quotaVars, slotVars, held, asg, rel, recount, twice>>,
         suspended' \subseteq Addons \X SUBSET Refs,
         Sweeping(w)',
         q.pc = "reconciling" =>
            \A v \in Sweepers \ {w} : swp[v].pc = "reconciling" => swp[v].addon # q.addon
  PROVE  IInv'
  <1> USE DEF IInv, planVars, slotVars, quotaVars
  <1>1. swp'[w] = q /\ \A v \in Sweepers \ {w} : swp'[v] = swp[v]
    BY DEF TypeOK
  <1>2. TypeOK'
    BY DEF TypeOK
  <1>3. ASSUME NEW a \in Assigners PROVE Assigning(a)'
    BY DEF Assigning
  <1>4. ASSUME NEW t PROVE (NotGiven(t)' <=> NotGiven(t)) /\ SlotsOf(t)' = SlotsOf(t)
    BY DEF NotGiven, SlotsOf
  <1>5. ASSUME NEW v \in Sweepers PROVE Sweeping(v)'
    <2>1. CASE v # w
      <3>1. Sweeping(v) /\ swp'[v] = swp[v]
        BY <1>1, <2>1
      <3> QED
        BY <1>4, <3>1 DEF Sweeping
    <2> QED
      BY <2>1
  <1>6. IsFiniteSet(live)' /\ (\A x \in live : ref[x] \in Refs)'
    OBVIOUS
  <1> QED
    BY <1>1, <1>2, <1>3, <1>4, <1>5, <1>6 DEF BoughtAddons

LEMMA ReadExpiredInv ==
  ASSUME IInv, NEW w \in Sweepers, NEW a \in Addons, ReadExpired(w, a) PROVE IInv'
  <1>1. PICK p \in Packages :
          swp' = [swp EXCEPT ![w] =
                [NoSweep EXCEPT !.pc = "revoking", !.addon = a, !.package = p,
                                !.refs = {ref[x] : x \in SlotsOf(a)}]]
    BY DEF ReadExpired
  <1> DEFINE refs == {ref[x] : x \in SlotsOf(a)}
             q == [NoSweep EXCEPT !.pc = "revoking", !.addon = a, !.package = p, !.refs = refs]
  <1>2. refs \in SUBSET Refs
    BY DEF IInv, SlotsOf
  <1>3. /\ q \in SweepStates
        /\ q.pc = "revoking" /\ q.addon = a /\ q.package = p /\ q.refs = refs
    <2> HIDE DEF refs
    <2> QED
      BY <1>2, NoSweepType DEF SweepStates, NoSweep
  <1>4. /\ swp' = [swp EXCEPT ![w] = q]
        /\ UNCHANGED <<planVars, status, quotaVars, slotVars, held, asg, rel, recount, suspended, twice>>
        /\ status[a] = "ON_HOLD" /\ a \notin held
    BY <1>1 DEF ReadExpired
  <1> HIDE DEF q
  <1>5. NotGiven(a)' /\ SlotsOf(a)' = SlotsOf(a) /\ ref' = ref /\ status'[a] = "ON_HOLD"
    BY <1>4 DEF IInv, NotGiven, SlotsOf, slotVars
  <1>6. swp'[w] = q
    BY <1>4 DEF IInv, TypeOK
  <1>7. refs' = refs
    BY <1>5
  <1>8. Sweeping(w)'
    BY <1>3, <1>5, <1>6, <1>7 DEF Sweeping
  <1> QED
    BY <1>3, <1>4, <1>8, SweepStep DEF IInv, TypeOK

LEMMA RevokeInv == ASSUME IInv, NEW w \in Sweepers, Revoke(w) PROVE IInv'
  <1>1. PICK a \in Addons, p \in Packages :
          /\ a = swp[w].addon /\ p = swp[w].package
          /\ status[a] \notin {"NONE", "ACTIVE"} /\ NotGiven(a)
          /\ {ref[x] : x \in SlotsOf(a)} \subseteq swp[w].refs
    BY DEF Revoke, IInv, Sweeping
  <1>2. PICK gone \in SUBSET SlotIds : gone = SlotsOf(a)
    BY DEF IInv, TypeOK, SlotsOf
  <1>3. PICK left \in SUBSET Subs : left = Sources(p) \ {a}
    BY DEF Sources, ActiveAddons, Subs
  <1> DEFINE n == Cardinality(live \ gone)
             q == [pc |-> "reconciling", addon |-> a, package |-> p, refs |-> swp[w].refs,
                   slots |-> gone, uncapped |-> left \cap unlimited # {},
                   total |-> TotalOf(left), used |-> n]
  <1>4. /\ \A v \in Sweepers : swp[v].pc = "reconciling" => swp[v].addon # a
        /\ \A x \in gone : ~ Deleting(x)
        /\ swp' = [swp EXCEPT ![w] = q]
        /\ UNCHANGED <<planVars, status, quotaVars, slotVars, held, asg, rel, suspended, recount, twice>>
    BY <1>1, <1>2, <1>3 DEF Revoke, Revoked
  <1>5. n \in Nat
    BY FS_Subset, FS_CardinalityType DEF IInv
  <1>6. TotalOf(left) \in Nat
    <2>1. left \subseteq BoughtAddons \cup {p}
      BY <1>3 DEF Sources, ActiveAddons, BoughtAddons
    <2>2. IsFiniteSet(BoughtAddons \cup {p})
      BY FS_AddElement DEF IInv
    <2> QED
      BY <2>1, <2>2, FS_Subset, TotalIsNatural DEF IInv
  <1>7. swp[w].refs \in SUBSET Refs
    BY DEF IInv, TypeOK, SweepStates
  <1>8. /\ q \in SweepStates /\ q.pc = "reconciling" /\ q.addon = a /\ q.package = p
        /\ q.refs = swp[w].refs /\ q.slots = gone
    <2> HIDE DEF n
    <2> QED
      BY <1>5, <1>6, <1>7 DEF SweepStates
  <1> HIDE DEF q
  <1>9. swp'[w] = q
    BY <1>4 DEF IInv, TypeOK
  <1>10. NotGiven(a)' /\ SlotsOf(a)' = SlotsOf(a) /\ ref' = ref /\ status' = status /\ rel' = rel
    BY <1>1, <1>4 DEF NotGiven, SlotsOf, slotVars
  <1>11. ASSUME NEW r \in Releasers, rel[r].pc = "releasing" PROVE rel[r].slots \cap gone = {}
    BY <1>4, <1>11 DEF Deleting
  <1>12. Sweeping(w)'
    BY <1>1, <1>2, <1>8, <1>9, <1>10, <1>11 DEF Sweeping
  <1> QED
    BY <1>4, <1>8, <1>12, SweepStep DEF IInv, TypeOK

(* The sweep commits: the slots go that the add-on has, and no other.       *)
LEMMA ReconcileInv == ASSUME IInv, NEW w \in Sweepers, Reconcile(w) PROVE IInv'
  <1> USE DEF IInv
  <1>1. PICK a \in Addons, p \in Packages :
          /\ a = swp[w].addon /\ p = swp[w].package
          /\ swp[w].slots = SlotsOf(a)
    BY DEF Reconcile, Sweeping
  <1> DEFINE q == [NoSweep EXCEPT !.pc = "emitting", !.addon = a, !.refs = swp[w].refs]
  <1>2. swp[w] \in SweepStates
    BY DEF TypeOK
  <1>3. q \in SweepStates /\ q.pc = "emitting" /\ q.addon = a
    BY <1>2, NoSweepType DEF SweepStates, NoSweep
  <1>4. /\ swp[w].pc = "reconciling"
        /\ status' = [status EXCEPT ![a] = "EXPIRED"]
        /\ live' = live \ SlotsOf(a)
        /\ swp' = [swp EXCEPT ![w] = q]
        /\ UNCHANGED <<planVars, ref, source, held, asg, rel, suspended>>
    BY <1>1 DEF Reconcile
  <1> HIDE DEF q
  <1>5. /\ swp'[w] = q /\ \A v \in Sweepers \ {w} : swp'[v] = swp[v]
        /\ status'[a] = "EXPIRED" /\ \A s \in Subs \ {a} : status'[s] = status[s]
    BY <1>4 DEF TypeOK, Subs
  <1>6. TypeOK'
    <2>1. total' \in [Packages -> Nat]
      <3>1. swp[w].total \in Nat
        BY <1>2 DEF SweepStates
      <3>2. total' = [total EXCEPT ![p] = swp[w].total]
        BY <1>1 DEF Reconcile
      <3> QED
        BY <3>1, <3>2 DEF TypeOK
    <2>2. used' \in [Packages -> Int]
      <3>1. swp[w].used \in Int
        BY <1>2 DEF SweepStates
      <3>2. used' = [used EXCEPT ![p] = swp[w].used]
        BY <1>1 DEF Reconcile
      <3> QED
        BY <3>1, <3>2 DEF TypeOK
    <2>3. uncapped' \subseteq Packages
      BY <1>1 DEF Reconcile, TypeOK
    <2>4. recount' \in [Packages -> {"none", "exact", "stale"}]
      <3> HIDE DEF q
      <3> QED
        BY DEF Reconcile, TypeOK
    <2>6. twice' \subseteq Packages
      BY DEF Reconcile, TypeOK
    <2>5. status' \in [Subs -> Statuses] /\ live' \subseteq SlotIds
          /\ swp' \in [Sweepers -> SweepStates]
      BY <1>3, <1>4 DEF TypeOK, Statuses, Subs
    <2> QED
      BY <1>4, <2>1, <2>2, <2>3, <2>4, <2>5, <2>6 DEF TypeOK, planVars
  <1>7. IsFiniteSet(live') /\ IsFiniteSet(BoughtAddons') /\ \A x \in live' : ref'[x] \in Refs
    <2>1. BoughtAddons' \subseteq BoughtAddons \cup {a}
      BY <1>5 DEF BoughtAddons, Subs
    <2> QED
      BY <1>4, <2>1, FS_AddElement, FS_Subset
  <1>8. ASSUME NEW b \in Assigners PROVE Assigning(b)'
    BY <1>4, <1>5 DEF Assigning, Subs
  <1>9. ASSUME NEW t PROVE (NotGiven(t)' <=> NotGiven(t)) /\ SlotsOf(t)' = SlotsOf(t) \ SlotsOf(a)
    BY <1>4 DEF NotGiven, SlotsOf
  <1>10. ASSUME NEW t, t # a PROVE SlotsOf(t)' = SlotsOf(t)
    BY <1>4, <1>10 DEF SlotsOf
  <1>11. ASSUME NEW v \in Sweepers \ {w} PROVE Sweeping(v)'
    <2>1. Sweeping(v) /\ swp'[v] = swp[v]
      BY <1>5
    <2>2. CASE swp[v].pc \in {"revoking", "reconciling"}
      <3>1. PICK b \in Addons : b = swp[v].addon
        BY <2>1, <2>2 DEF Sweeping
      <3>2. status'[b] \notin {"NONE", "ACTIVE"}
        BY <1>5, <2>1, <2>2, <3>1 DEF Sweeping, Subs
      <3>3. SlotsOf(b)' \subseteq SlotsOf(b) /\ (NotGiven(b)' <=> NotGiven(b))
        BY <1>9
      <3>4. {ref[x] : x \in SlotsOf(b)}' \subseteq {ref[x] : x \in SlotsOf(b)}
        BY <1>4, <3>3
      <3>5. swp[v].pc = "reconciling" => SlotsOf(b)' = SlotsOf(b)
        BY <1>1, <1>4, <1>10, <3>1
      <3>6. SlotsOf(swp[v].addon)' = SlotsOf(b)'
        BY <2>1, <3>1
      <3> QED
        BY <1>4, <2>1, <3>1, <3>2, <3>3, <3>4, <3>5, <3>6 DEF Sweeping
    <2>3. CASE swp[v].pc \notin {"revoking", "reconciling"}
      BY <2>1, <2>3 DEF Sweeping
    <2> QED
      BY <2>2, <2>3
  <1>12. Sweeping(w)'
    BY <1>3, <1>5 DEF Sweeping
  <1>13. ASSUME NEW s \in Addons, status'[s] = "ON_HOLD", s \notin held' PROVE NotGiven(s)'
    BY <1>4, <1>5, <1>9, <1>13 DEF Subs
  <1>14. \A v, u \in Sweepers :
            swp'[v].pc = "reconciling" /\ swp'[u].pc = "reconciling" /\ v # u =>
                swp'[v].addon # swp'[u].addon
    BY <1>3, <1>5
  <1> QED
    BY <1>4, <1>6, <1>7, <1>8, <1>11, <1>12, <1>13, <1>14

LEMMA EmitExpiredInv == ASSUME IInv, NEW w \in Sweepers, EmitExpired(w) PROVE IInv'
  <1>1. swp[w].addon \in Addons /\ swp[w].refs \in SUBSET Refs
    BY DEF IInv, TypeOK, Sweeping, SweepStates, EmitExpired
  <1>2. suspended' \subseteq Addons \X SUBSET Refs
    BY <1>1 DEF EmitExpired, IInv, TypeOK
  <1>3. /\ swp' = [swp EXCEPT ![w] = NoSweep]
        /\ UNCHANGED <<planVars, status, quotaVars, slotVars, held, asg, rel, recount, twice>>
    BY DEF EmitExpired
  <1>4. NoSweep.pc = "idle"
    BY DEF NoSweep
  <1>5. swp'[w] = NoSweep
    BY <1>3 DEF IInv, TypeOK
  <1>6. Sweeping(w)'
    BY <1>4, <1>5 DEF Sweeping
  <1> QED
    BY <1>2, <1>3, <1>4, <1>6, NoSweepType, SweepStep

LEMMA LoseSweepInv == ASSUME IInv, NEW w \in Sweepers, LoseSweep(w) PROVE IInv'
  <1>1. /\ swp' = [swp EXCEPT ![w] = NoSweep]
        /\ UNCHANGED <<planVars, status, quotaVars, slotVars, held, asg, rel, recount, suspended, twice>>
    BY DEF LoseSweep
  <1>2. NoSweep.pc = "idle"
    BY DEF NoSweep
  <1>3. swp'[w] = NoSweep
    BY <1>1 DEF IInv, TypeOK
  <1>4. Sweeping(w)'
    BY <1>2, <1>3 DEF Sweeping
  <1> QED
    BY <1>1, <1>2, <1>4, NoSweepType, SweepStep DEF IInv, TypeOK

-----------------------------------------------------------------------------
LEMMA NextIInv == IInv /\ [Next]_vars => IInv'
  <1> SUFFICES ASSUME IInv, [Next]_vars PROVE IInv'
    OBVIOUS
  <1>1. ASSUME NEW a \in Assigners, Assign(a) PROVE IInv'
    BY <1>1, BeginAssignInv, LockQuotaInv, CommitAssignInv, RollBackAssignInv DEF Assign
  <1>2. ASSUME NEW r \in Releasers, Release(r) PROVE IInv'
    BY <1>2, BeginReleaseInv, DeleteSlotInv, CommitReleaseInv, RollBackReleaseInv DEF Release
  <1>3. ASSUME NEW w \in Sweepers, Sweep(w) PROVE IInv'
    BY <1>3, ReadExpiredInv, RevokeInv, ReconcileInv, EmitExpiredInv, LoseSweepInv DEF Sweep
  <1>4. CASE UNCHANGED vars
    BY <1>4 DEF vars, planVars, slotVars, quotaVars, IInv, TypeOK, Assigning, Sweeping, NotGiven, SlotsOf,
       BoughtAddons
  <1> QED
    BY <1>1, <1>2, <1>3, <1>4, EditPlanInv, BuyPackageInv, BuyAddonInv, CancelInv, HoldInv, GracePassesInv,
       EnforceGraceInv DEF Next

LEMMA Invariance == Spec => []IInv
  BY InitIInv, NextIInv, PTL DEF Spec

(* The tables and the local variables of the handlers keep their types.     *)
THEOREM TypeCorrect == Spec => []TypeOK
  BY Invariance, PTL DEF IInv

(* Nobody whose slot is revoked is missing from the list of those to        *)
(* suspend, which was read before.                                          *)
THEOREM Suspended == Spec => []RevokedAreSuspended
  <1>1. IInv => RevokedAreSuspended
    BY DEF IInv, Sweeping, RevokedAreSuspended
  <1> QED
    BY <1>1, Invariance, PTL

(* An add-on that expires on its own loses exactly its own slots.           *)
THEOREM Exactly == Spec => RevokesExactly
  <1>1. IInv /\ [Next]_vars =>
            [\A a \in Addons :
               /\ status[a] # "EXPIRED"
               /\ status'[a] = "EXPIRED"
               /\ \A p \in Packages : status'[p] = status[p]
               => live' = live \ SlotsOf(a)]_vars
    <2> SUFFICES ASSUME IInv, Next, NEW a \in Addons,
                        status[a] # "EXPIRED", status'[a] = "EXPIRED",
                        \A p \in Packages : status'[p] = status[p]
                 PROVE  live' = live \ SlotsOf(a)
      OBVIOUS
    <2>1. status' # status /\ a \in Subs /\ status \in [Subs -> Statuses]
      BY DEF IInv, TypeOK, Subs
    <2>0. ASSUME NEW s \in Subs, EditPlan(s) PROVE FALSE
      BY <2>0, <2>1 DEF EditPlan
    <2>2. ASSUME NEW p \in Packages, BuyPackage(p) PROVE FALSE
      BY <2>1, <2>2 DEF BuyPackage
    <2>3. ASSUME NEW b \in Addons, BuyAddon(b) PROVE FALSE
      BY <2>1, <2>3 DEF BuyAddon
    <2>4. ASSUME NEW s \in Subs, Cancel(s) \/ Hold(s) PROVE FALSE
      BY <2>1, <2>4 DEF Cancel, Hold
    <2>5. ASSUME NEW p \in Packages, EnforceGrace(p) PROVE FALSE
      BY <2>5 DEF EnforceGrace, Subs
    <2>6. ASSUME NEW w \in Sweepers, Reconcile(w) PROVE live' = live \ SlotsOf(a)
      <3>1. swp[w].slots = SlotsOf(swp[w].addon) /\ swp[w].addon \in Addons
        BY <2>6 DEF Reconcile, IInv, Sweeping
      <3>2. swp[w].addon = a
        BY <2>1, <2>6, <3>1 DEF Reconcile
      <3> QED
        BY <2>6, <3>1, <3>2 DEF Reconcile
    <2>7. CASE \E w \in Sweepers : Reconcile(w)
      BY <2>6, <2>7
    <2>8. CASE status' = status
      BY <2>1, <2>8
    <2> QED
      BY <2>0, <2>2, <2>3, <2>4, <2>5, <2>7, <2>8 DEF Next, Assign, Release, Sweep, GracePasses,
          BeginAssign, LockQuota, CommitAssign, RollBackAssign, BeginRelease, DeleteSlot,
          CommitRelease, RollBackRelease, ReadExpired, Revoke, EmitExpired, LoseSweep
  <1> QED
    BY <1>1, Invariance, PTL DEF Spec, RevokesExactly

-----------------------------------------------------------------------------
(* A plan gives what it gave until it is edited.                            *)
Unedited ==
    /\ \A s \in Subs \ edited :
          capacity[s] = Capacity[s] /\ (s \in unlimited <=> s \in Unlimited)
    /\ edited = {} =>
          /\ capacity = Capacity /\ unlimited = Unlimited
          /\ shown = Capacity /\ shownUnlimited = Unlimited

LEMMA NextUnedited ==
  ASSUME IInv, Unedited, [Next]_vars PROVE Unedited' /\ edited \subseteq edited'
  <1>1. CASE UNCHANGED planVars
    BY <1>1 DEF planVars, Unedited
  <1>2. ASSUME NEW s \in Subs, EditPlan(s) PROVE Unedited' /\ edited \subseteq edited'
    <2>1. PICK row : /\ edited' = edited \cup {s}
                     /\ capacity' = [capacity EXCEPT ![s] = row.capacity]
                     /\ unlimited' = Marked(unlimited, s, row)
      BY <1>2 DEF EditPlan
    <2>2. \A t \in Subs \ {s} : capacity'[t] = capacity[t] /\ (t \in unlimited' <=> t \in unlimited)
      BY <2>1 DEF IInv, TypeOK, Marked
    <2> QED
      BY <2>1, <2>2 DEF Unedited
  <1> QED
    BY <1>1, <1>2, EditsOnly

(* Until the package is replaced, one assignment at a time attributes a     *)
(* slot, and the add-on it chose still has room, but for an edited plan.    *)
RoomAsBought(s) ==
    s \in edited \/ s \in Unlimited \/ Cardinality(SlotsOf(s)) < Capacity[s]

Room ==
    NeverSwitched =>
        /\ \A a, b \in Assigners :
              asg[a].pc = "assigning" /\ asg[b].pc = "assigning" => a = b
        /\ \A a \in Assigners :
              asg[a].pc = "assigning" /\ asg[a].source \in Addons => RoomAsBought(asg[a].source)

CInv == IInv /\ Unedited /\ Room /\ AddonWithinCapacity

(* A package, once bought, is never again one that was not.                 *)
LEMMA Bought ==
  ASSUME IInv, [Next]_vars, NEW s \in Subs, status[s] # "NONE" PROVE status'[s] # "NONE"
  <1>1. status \in [Subs -> Statuses]
    BY DEF IInv, TypeOK
  <1>2. CASE \E p \in Packages : BuyPackage(p)
    BY <1>2 DEF BuyPackage
  <1>3. CASE \E a \in Addons : BuyAddon(a)
    BY <1>1, <1>3 DEF BuyAddon
  <1>4. CASE \E t \in Subs : Cancel(t) \/ Hold(t)
    BY <1>1, <1>4 DEF Cancel, Hold
  <1>5. CASE \E p \in Packages : EnforceGrace(p)
    BY <1>5 DEF EnforceGrace
  <1>6. CASE \E w \in Sweepers : Reconcile(w)
    BY <1>1, <1>6 DEF Reconcile
  <1>7. CASE status' = status
    BY <1>7
  <1> QED
    BY <1>2, <1>3, <1>4, <1>5, <1>6, <1>7 DEF Next, vars, EditPlan, Assign, Release, Sweep, GracePasses,
       BeginAssign, LockQuota, CommitAssign, RollBackAssign, BeginRelease, DeleteSlot,
       CommitRelease, RollBackRelease, ReadExpired, Revoke, EmitExpired, LoseSweep

LEMMA Unswitched == ASSUME IInv, [Next]_vars, NeverSwitched' PROVE NeverSwitched
  BY Bought DEF NeverSwitched, Subs

(* Fewer slots leave an add-on with more room.                              *)
LEMMA FewerSlots ==
  ASSUME IInv, live' \subseteq live, source' = source, NEW s
  PROVE  /\ Cardinality(SlotsOf(s)) \in Nat
         /\ Cardinality(SlotsOf(s)') \in Nat
         /\ Cardinality(SlotsOf(s)') <= Cardinality(SlotsOf(s))
  <1>1. SlotsOf(s)' \subseteq SlotsOf(s) /\ SlotsOf(s) \subseteq live
    BY DEF SlotsOf
  <1>2. IsFiniteSet(SlotsOf(s)) /\ IsFiniteSet(SlotsOf(s)')
    BY <1>1, FS_Subset DEF IInv
  <1> QED
    BY <1>1, <1>2, FS_Subset, FS_CardinalityType

(* Nothing is attributed, and nothing begins to be.                         *)
LEMMA QuietStep ==
  ASSUME CInv, NeverSwitched' => NeverSwitched, live' \subseteq live, source' = source,
         edited \subseteq edited',
         \A b \in Assigners : asg'[b].pc = "assigning" => asg'[b] = asg[b]
  PROVE  Room' /\ AddonWithinCapacity'
  <1> SUFFICES ASSUME NeverSwitched'
               PROVE  /\ \A a, b \in Assigners :
                            asg'[a].pc = "assigning" /\ asg'[b].pc = "assigning" => a = b
                      /\ \A a \in Assigners :
                            asg'[a].pc = "assigning" /\ asg'[a].source \in Addons =>
                                RoomAsBought(asg[a].source)'
                      /\ \A a \in Addons \ (Unlimited \cup edited') : Cardinality(SlotsOf(a)') <= Capacity[a]
    BY DEF Room, AddonWithinCapacity
  <1>1. IInv /\ NeverSwitched
    BY DEF CInv
  <1>2. \A a, b \in Assigners :
            asg'[a].pc = "assigning" /\ asg'[b].pc = "assigning" => a = b
    BY <1>1 DEF CInv, Room
  <1>3. ASSUME NEW a \in Assigners, asg'[a].pc = "assigning", asg'[a].source \in Addons
        PROVE  RoomAsBought(asg[a].source)'
    <2>1. PICK s \in Addons : s = asg[a].source /\ s = asg'[a].source
      BY <1>3
    <2>2. RoomAsBought(s)
      BY <1>1, <1>3, <2>1 DEF CInv, Room
    <2>3. Capacity[s] \in Nat
      BY CapacityAssumption DEF Subs
    <2>4. RoomAsBought(s)'
      BY <1>1, <2>2, <2>3, FewerSlots DEF RoomAsBought
    <2> QED
      BY <2>1, <2>4 DEF RoomAsBought, SlotsOf
  <1>4. ASSUME NEW a \in Addons \ (Unlimited \cup edited') PROVE Cardinality(SlotsOf(a)') <= Capacity[a]
    <2>1. Cardinality(SlotsOf(a)) <= Capacity[a] /\ Capacity[a] \in Nat
      BY <1>1, CapacityAssumption DEF CInv, AddonWithinCapacity, Subs
    <2> QED
      BY <1>1, <2>1, FewerSlots
  <1> QED
    BY <1>2, <1>3, <1>4

LEMMA LockQuotaRoom ==
  ASSUME CInv, NeverSwitched' => NeverSwitched, NEW a \in Assigners, LockQuota(a)
  PROVE  Room' /\ AddonWithinCapacity'
  <1> DEFINE p == asg[a].package
  <1>1. /\ live' = live /\ source' = source /\ status' = status /\ edited' = edited
        /\ asg[a].pc = "locking" /\ ~ Locked(p)
        /\ \A b \in Assigners \ {a} : asg'[b] = asg[b]
        /\ asg'[a].source = Attributed(p)
    BY DEF LockQuota, planVars, slotVars, CInv, IInv, TypeOK
  <1>2. p \in Packages /\ status[p] # "NONE"
    BY <1>1 DEF CInv, IInv, Assigning
  <1>3. AddonWithinCapacity'
    BY <1>1 DEF CInv, AddonWithinCapacity, SlotsOf
  <1>4. ASSUME NeverSwitched', NEW b \in Assigners, asg[b].pc = "assigning" PROVE FALSE
    <2>1. asg[b].package \in Packages /\ status[asg[b].package] # "NONE"
      BY <1>4 DEF CInv, IInv, Assigning
    <2>2. asg[b].package = p
      BY <1>2, <1>4, <2>1 DEF NeverSwitched
    <2> QED
      BY <1>1, <1>4, <2>2 DEF Locked
  <1>5. ASSUME Attributed(p) \in Addons PROVE RoomAsBought(Attributed(p))
    <2>1. HasRoom(Attributed(p))
      BY <1>2, <1>5, AttributedHasRoom, SubsAssumption
    <2> QED
      BY <1>5, <2>1 DEF HasRoom, RoomAsBought, CInv, Unedited, Subs
  <1>6. RoomAsBought(Attributed(p)) => RoomAsBought(asg[a].source)'
    BY <1>1 DEF RoomAsBought, SlotsOf
  <1>7. Room'
    <2> SUFFICES ASSUME NeverSwitched'
                 PROVE  /\ \A b, c \in Assigners :
                              asg'[b].pc = "assigning" /\ asg'[c].pc = "assigning" => b = c
                        /\ \A b \in Assigners :
                              asg'[b].pc = "assigning" /\ asg'[b].source \in Addons =>
                                  RoomAsBought(asg[b].source)'
      BY DEF Room
    <2>1. \A b \in Assigners : asg'[b].pc = "assigning" => b = a
      BY <1>1, <1>4
    <2> HIDE DEF p
    <2> QED
      BY <1>1, <1>5, <1>6, <2>1
  <1> QED
    BY <1>3, <1>7

LEMMA CommitAssignRoom ==
  ASSUME CInv, NeverSwitched' => NeverSwitched, NEW a \in Assigners, CommitAssign(a)
  PROVE  Room' /\ AddonWithinCapacity'
  <1>1. PICK s \in Subs : s = asg[a].source
    BY DEF CommitAssign, CInv, IInv, Assigning
  <1>2. PICK x \in SlotIds : /\ ref[x] = NoRef
                             /\ live' = live \cup {x}
                             /\ source' = [source EXCEPT ![x] = s]
    BY <1>1 DEF CommitAssign
  <1>3. asg[a].pc = "assigning" /\ asg' = [asg EXCEPT ![a] = NoAssign] /\ edited' = edited
    BY DEF CommitAssign, planVars
  <1>4. asg'[a].pc = "idle" /\ \A b \in Assigners \ {a} : asg'[b] = asg[b]
    BY <1>3 DEF CInv, IInv, TypeOK, NoAssign
  <1>5. x \notin live
    BY <1>2, NoRefAssumption DEF CInv, IInv
  <1> SUFFICES ASSUME NeverSwitched'
               PROVE  /\ \A b \in Assigners : asg'[b].pc # "assigning"
                      /\ \A t \in Addons \ (Unlimited \cup edited') : Cardinality(SlotsOf(t)') <= Capacity[t]
    BY DEF Room, AddonWithinCapacity
  <1>6. \A b \in Assigners : asg'[b].pc # "assigning"
    BY <1>3, <1>4 DEF CInv, Room
  <1>7. ASSUME NEW t \in Addons \ (Unlimited \cup edited') PROVE Cardinality(SlotsOf(t)') <= Capacity[t]
    <2>1. Cardinality(SlotsOf(t)) <= Capacity[t]
      BY <1>3 DEF CInv, AddonWithinCapacity
    <2>2. CASE t # s
      <3>1. SlotsOf(t)' = SlotsOf(t)
        BY <1>2, <1>5, <2>2 DEF SlotsOf, CInv, IInv, TypeOK
      <3> QED
        BY <2>1, <3>1
    <2>3. CASE t = s
      <3>1. SlotsOf(t)' = SlotsOf(t) \cup {x} /\ x \notin SlotsOf(t)
        BY <1>2, <1>5, <2>3 DEF SlotsOf, CInv, IInv, TypeOK
      <3>2. RoomAsBought(t)
        BY <1>1, <1>3, <2>3 DEF CInv, Room
      <3>3. Cardinality(SlotsOf(t)) < Capacity[t]
        BY <1>3, <3>2 DEF RoomAsBought
      <3>4. IsFiniteSet(SlotsOf(t)) /\ Capacity[t] \in Nat
        BY FS_Subset, CapacityAssumption DEF SlotsOf, CInv, IInv, Subs
      <3>5. Cardinality(SlotsOf(t)) \in Nat
            /\ Cardinality(SlotsOf(t)') = Cardinality(SlotsOf(t)) + 1
        BY <3>1, <3>4, FS_AddElement, FS_CardinalityType
      <3> QED
        BY <3>3, <3>4, <3>5
    <2> QED
      BY <2>2, <2>3
  <1> QED
    BY <1>6, <1>7

(* A call that begins or ends attributes nothing.                           *)
LEMMA QuietAssign ==
  ASSUME IInv, NEW a \in Assigners,
         \/ RollBackAssign(a)
         \/ \E p \in Packages, r \in Refs : BeginAssign(a, p, r)
  PROVE  /\ live' = live /\ source' = source
         /\ \A b \in Assigners : asg'[b].pc = "assigning" => asg'[b] = asg[b]
  <1>1. live' = live /\ source' = source
    BY DEF RollBackAssign, BeginAssign, slotVars
  <1>2. PICK q \in AssignStates : asg' = [asg EXCEPT ![a] = q] /\ q.pc # "assigning"
    <2>1. CASE RollBackAssign(a)
      <3>1. NoAssign.pc # "assigning"
        BY DEF NoAssign
      <3> QED
        BY <2>1, <3>1, NoAssignType DEF RollBackAssign
    <2>2. ASSUME NEW p \in Packages, NEW r \in Refs, BeginAssign(a, p, r)
          PROVE  \E q \in AssignStates : asg' = [asg EXCEPT ![a] = q] /\ q.pc # "assigning"
      <3> DEFINE q == [NoAssign EXCEPT !.pc = "locking", !.package = p, !.ref = r]
      <3>1. q \in AssignStates /\ q.pc = "locking"
        BY NoAssignType DEF AssignStates, NoAssign
      <3>2. asg' = [asg EXCEPT ![a] = q]
        BY <2>2 DEF BeginAssign
      <3> HIDE DEF q
      <3> QED
        BY <3>1, <3>2
    <2> QED
      BY <2>1, <2>2
  <1> QED
    BY <1>1, <1>2 DEF IInv, TypeOK

LEMMA NextCInv == CInv /\ [Next]_vars => CInv'
  <1> SUFFICES ASSUME CInv, [Next]_vars PROVE Room' /\ AddonWithinCapacity'
    BY NextIInv, NextUnedited DEF CInv
  <1>0. edited \subseteq edited'
    BY NextUnedited DEF CInv
  <1>1. NeverSwitched' => NeverSwitched
    BY Unswitched DEF CInv
  <1>3. CASE \E a \in Assigners : LockQuota(a)
    BY <1>1, <1>3, LockQuotaRoom
  <1>4. CASE \E a \in Assigners : CommitAssign(a)
    BY <1>1, <1>4, CommitAssignRoom
  <1>5. CASE \E a \in Assigners :
               \/ RollBackAssign(a)
               \/ \E p \in Packages, r \in Refs : BeginAssign(a, p, r)
    BY <1>0, <1>1, <1>5, QuietAssign, QuietStep DEF CInv
  <1>6. CASE live' \subseteq live /\ source' = source /\ asg' = asg
    BY <1>0, <1>1, <1>6, QuietStep
  <1> QED
    BY <1>3, <1>4, <1>5, <1>6 DEF Next, vars, slotVars, EditPlan, Assign, Release, Sweep, GracePasses,
       BuyPackage, BuyAddon, Cancel, Hold, EnforceGrace, BeginRelease, DeleteSlot,
       CommitRelease, RollBackRelease, ReadExpired, Revoke, Reconcile, EmitExpired, LoseSweep

LEMMA InitCInv == Init => CInv
  <1> SUFFICES ASSUME Init PROVE Room /\ AddonWithinCapacity
    BY InitIInv DEF CInv, Init, Unedited
  <1>1. \A a \in Assigners : asg[a].pc = "idle"
    BY DEF Init, NoAssign
  <1>2. \A t \in Addons : SlotsOf(t) = {} /\ Capacity[t] \in Nat
    BY CapacityAssumption DEF Init, SlotsOf, Subs
  <1> QED
    BY <1>1, <1>2, FS_EmptySet DEF Room, AddonWithinCapacity

(* Until the package is replaced, an add-on never holds more slots than it  *)
(* provides, whatever overlaps.                                             *)
THEOREM AddonsHoldTheirOwn == Spec => []AddonWithinCapacity
  <1>1. CInv => AddonWithinCapacity
    BY DEF CInv
  <1> QED
    BY <1>1, InitCInv, NextCInv, PTL DEF Spec

-----------------------------------------------------------------------------
(* The quota and the slots.                                                 *)

(* A handler works on a package that was bought, and a package that was not *)
(* has a fresh quota row.                                                   *)
Begun ==
    /\ \A r \in Releasers : rel[r].pc # "idle" => status[rel[r].package] # "NONE"
    /\ \A w \in Sweepers :
          swp[w].pc \in {"revoking", "reconciling"} => status[swp[w].package] # "NONE"
    /\ \A p \in Packages : status[p] = "NONE" => used[p] = 0 /\ recount[p] = "none"
    /\ live # {} => \E p \in Packages : status[p] # "NONE"

(* Unless a slot was released twice at once: used_quota is the number of    *)
(* live slots, and a release under way deletes one of them, which no other  *)
(* deletes, and is going to count it down.                                  *)
Apart(r) == \A s \in Releasers \ {r} : rel[s].pc # "idle" => rel[r].slots \cap rel[s].slots = {}

Counted ==
    \A p \in Packages : OnlyPackage(p) /\ recount[p] # "stale" /\ p \notin twice =>
        /\ used[p] = Cardinality(live)
        /\ \A r \in Releasers : rel[r].pc # "idle" =>
              /\ \E x \in live : rel[r].slots = {x}
              /\ rel[r].pc = "releasing" => rel[r].decrement
              /\ Apart(r)

(* An assignment that passed the check still has its slot.                  *)
Guarded ==
    \A p \in Packages :
        OnlyPackage(p) /\ recount[p] = "none" /\ p \notin twice /\ p \notin uncapped =>
        /\ used[p] <= total[p]
        /\ \A a \in Assigners : asg[a].pc = "assigning" => used[p] < total[p]

QInv == CInv /\ Begun /\ Counted /\ Guarded

(* The package that was the only one stays the only one, or is bought now.  *)
LEMMA OnlyBefore ==
  ASSUME IInv, [Next]_vars, NEW p \in Packages, OnlyPackage(p)',
         ~ \E q \in Packages : BuyPackage(q)
  PROVE  OnlyPackage(p)
  <1>1. \A q \in Packages : status[q] # "NONE" => status'[q] # "NONE"
    BY Bought DEF Subs
  <1>2. status'[p] = "ACTIVE" /\ p \in Subs /\ p \notin Addons /\ status \in [Subs -> Statuses]
    BY SubsAssumption DEF OnlyPackage, IInv, TypeOK, Subs
  <1>3. status[p] = "ACTIVE"
    <2>1. CASE \E a \in Addons : BuyAddon(a)
      BY <1>2, <2>1 DEF BuyAddon
    <2>2. CASE \E s \in Subs : Cancel(s) \/ Hold(s)
      BY <1>2, <2>2 DEF Cancel, Hold
    <2>3. CASE \E q \in Packages : EnforceGrace(q)
      BY <1>2, <2>3 DEF EnforceGrace
    <2>4. CASE \E w \in Sweepers : Reconcile(w)
      BY <1>2, <2>4 DEF Reconcile
    <2>5. CASE status' = status
      BY <1>2, <2>5
    <2> QED
      BY <2>1, <2>2, <2>3, <2>4, <2>5 DEF Next, vars, EditPlan, Assign, Release, Sweep, GracePasses,
         BeginAssign, LockQuota, CommitAssign, RollBackAssign, BeginRelease, DeleteSlot,
         CommitRelease, RollBackRelease, ReadExpired, Revoke, EmitExpired, LoseSweep
  <1> QED
    BY <1>1, <1>3 DEF OnlyPackage

(* What a handler is at work on.                                            *)
LEMMA OnlyOne ==
  ASSUME QInv, NEW p \in Packages, OnlyPackage(p)
  PROVE  /\ \A a \in Assigners : asg[a].pc # "idle" => asg[a].package = p
         /\ \A r \in Releasers : rel[r].pc # "idle" => rel[r].package = p
         /\ \A w \in Sweepers : swp[w].pc \in {"revoking", "reconciling"} => swp[w].package = p
         /\ \A a, b \in Assigners :
               asg[a].pc = "assigning" /\ asg[b].pc = "assigning" => a = b
  <1>1. NeverSwitched
    BY DEF OnlyPackage, NeverSwitched
  <1> QED
    BY <1>1 DEF QInv, CInv, IInv, Begun, Assigning, Sweeping, Room, OnlyPackage

LEMMA InitQuota == Init => Begun /\ Counted /\ Guarded
  <1> SUFFICES ASSUME Init PROVE Begun /\ Counted /\ Guarded
    OBVIOUS
  <1>1. \A r \in Releasers : rel[r].pc = "idle"
    BY DEF Init, NoRelease
  <1>2. \A w \in Sweepers : swp[w].pc = "idle"
    BY DEF Init, NoSweep
  <1>3. \A p \in Packages : status[p] = "NONE" /\ ~ OnlyPackage(p)
    BY DEF Init, OnlyPackage, Subs
  <1>4. \A p \in Packages : used[p] = 0 /\ recount[p] = "none" /\ total[p] = 0
    BY DEF Init
  <1>5. live = {}
    BY DEF Init
  <1> QED
    BY <1>1, <1>2, <1>3, <1>4, <1>5 DEF Begun, Counted, Guarded

-----------------------------------------------------------------------------
(* One lemma per kind of step.                                              *)
LEMMA BuyPackageQuota ==
  ASSUME QInv, NEW b \in Packages, BuyPackage(b)
  PROVE  Begun' /\ Counted' /\ Guarded'
  <1> USE DEF QInv, CInv, IInv
  <1>1. /\ UNCHANGED <<used, slotVars, held, asg, rel, swp, recount>>
        /\ status[b] = "NONE" /\ status'[b] = "ACTIVE"
        /\ total' = [total EXCEPT ![b] = TotalOf({b})]
        /\ \A q \in Packages : status[q] # "NONE" => status'[q] # "NONE"
    BY DEF BuyPackage, Subs
  <1>2. total'[b] \in Nat /\ \A q \in Packages \ {b} : total'[q] = total[q]
    BY <1>1, FS_Singleton, TotalIsNatural DEF TypeOK, Subs
  <1>3. Begun'
    <2>1. \A r \in Releasers : rel'[r].pc # "idle" => status'[rel'[r].package] # "NONE"
      BY <1>1 DEF Begun
    <2>2. \A w \in Sweepers :
              swp'[w].pc \in {"revoking", "reconciling"} => status'[swp'[w].package] # "NONE"
      BY <1>1 DEF Begun, Sweeping
    <2>3. \A p \in Packages : status'[p] = "NONE" => used'[p] = 0 /\ recount'[p] = "none"
      BY <1>1 DEF Begun
    <2>4. \E p \in Packages : status'[p] # "NONE"
      BY <1>1
    <2> QED
      BY <2>1, <2>2, <2>3, <2>4 DEF Begun
  <1>4. ASSUME NEW p \in Packages, OnlyPackage(p)'
        PROVE  /\ used'[p] = 0 /\ live' = {} /\ total'[p] \in Nat
               /\ \A r \in Releasers : rel'[r].pc = "idle"
               /\ \A a \in Assigners : asg'[a].pc = "idle"
    <2>1. p = b
      BY <1>1, <1>4 DEF OnlyPackage
    <2>2. \A q \in Packages : status[q] = "NONE"
      BY <1>1, <1>4, <2>1 DEF OnlyPackage
    <2>3. used[p] = 0 /\ live = {}
      BY <2>2 DEF Begun
    <2>4. \A r \in Releasers : rel[r].pc = "idle"
      BY <2>2 DEF Begun
    <2>5. \A a \in Assigners : asg[a].pc = "idle"
      BY <2>2 DEF Assigning
    <2> QED
      BY <1>1, <1>2, <2>1, <2>3, <2>4, <2>5 DEF slotVars
  <1>5. Counted'
    BY <1>4, FS_EmptySet DEF Counted
  <1>6. Guarded'
    BY <1>4 DEF Guarded
  <1> QED
    BY <1>3, <1>5, <1>6

(* Steps that leave the slots and the quota rows, and take no slot.         *)
LEMMA QuietQuota ==
  ASSUME QInv, UNCHANGED <<quotaVars, live, recount, rel, twice>>,
         \A p \in Packages : status'[p] = "NONE" <=> status[p] = "NONE",
         \A p \in Packages : OnlyPackage(p)' => OnlyPackage(p),
         \A a \in Assigners : asg'[a].pc = "assigning" => asg[a].pc = "assigning",
         \A w \in Sweepers : swp'[w].pc \in {"revoking", "reconciling"} =>
            \/ status[swp'[w].package] # "NONE" /\ swp'[w].package \in Packages
            \/ swp[w].pc \in {"revoking", "reconciling"} /\ swp'[w].package = swp[w].package
  PROVE  Begun' /\ Counted' /\ Guarded'
  <1> USE DEF QInv, CInv, IInv, quotaVars
  <1>1. Begun'
    <2>1. \A r \in Releasers : rel'[r].pc # "idle" => status'[rel'[r].package] # "NONE"
      BY DEF Begun
    <2>2. ASSUME NEW w \in Sweepers, swp'[w].pc \in {"revoking", "reconciling"}
          PROVE  status'[swp'[w].package] # "NONE"
      BY <2>2 DEF Begun, Sweeping
    <2> QED
      BY <2>1, <2>2 DEF Begun
  <1>2. Counted'
    BY DEF Counted, Apart
  <1>3. Guarded'
    BY DEF Guarded
  <1> QED
    BY <1>1, <1>2, <1>3

LEMMA BuyAddonQuota ==
  ASSUME QInv, NEW c \in Addons, BuyAddon(c),
         \A p \in Packages : OnlyPackage(p)' => OnlyPackage(p)
  PROVE  Begun' /\ Counted' /\ Guarded'
  <1> USE DEF QInv, CInv, IInv
  <1>1. /\ UNCHANGED <<used, slotVars, held, asg, rel, swp, recount, twice>>
        /\ \A p \in Packages : status'[p] = status[p]
    BY SubsAssumption DEF BuyAddon, TypeOK, Subs
  <1>2. uncapped \subseteq uncapped'
    BY DEF BuyAddon
  <1>3. ASSUME NEW p \in Packages
        PROVE  total'[p] \in Nat /\ total[p] \in Nat /\ total[p] <= total'[p]
    <2>1. total \in [Packages -> Nat] /\ capacity[c] \in Nat
      BY DEF TypeOK, Subs
    <2>2. total' = total \/ \E q \in Packages : total' = [total EXCEPT ![q] = @ + capacity[c]]
      BY DEF BuyAddon
    <2>3. total'[p] = total[p] \/ total'[p] = total[p] + capacity[c]
      BY <2>1, <2>2
    <2> QED
      BY <2>1, <2>3
  <1>4. Begun'
    <2>1. \A w \in Sweepers :
              swp'[w].pc \in {"revoking", "reconciling"} => status'[swp'[w].package] # "NONE"
      BY <1>1 DEF Begun, Sweeping
    <2>2. \A r \in Releasers : rel'[r].pc # "idle" => status'[rel'[r].package] # "NONE"
      BY <1>1 DEF Begun
    <2> QED
      BY <1>1, <2>1, <2>2 DEF Begun, slotVars
  <1>5. Counted'
    BY <1>1 DEF Counted, Apart, slotVars
  <1>6. Guarded'
    <2> SUFFICES ASSUME NEW p \in Packages, OnlyPackage(p)', recount'[p] = "none", p \notin twice',
                        p \notin uncapped'
                 PROVE  /\ used'[p] <= total'[p]
                        /\ \A a \in Assigners : asg'[a].pc = "assigning" => used'[p] < total'[p]
      BY DEF Guarded
    <2>1. OnlyPackage(p) /\ recount[p] = "none" /\ p \notin twice /\ p \notin uncapped
      BY <1>1, <1>2
    <2>2. used[p] \in Int /\ used'[p] = used[p] /\ asg' = asg
      BY <1>1 DEF TypeOK
    <2> QED
      BY <1>3, <2>1, <2>2 DEF Guarded
  <1> QED
    BY <1>4, <1>5, <1>6

(* The check under the lock is that of Guarded.                             *)
LEMMA LockQuotaQuota ==
  ASSUME QInv, NEW a \in Assigners, LockQuota(a)
  PROVE  Begun' /\ Counted' /\ Guarded'
  <1> USE DEF QInv, CInv, IInv
  <1>1. /\ UNCHANGED <<status, used, total, uncapped, live, recount, rel, swp, twice>>
        /\ asg[a].package \in uncapped \/ used[asg[a].package] < total[asg[a].package]
        /\ asg[a].pc # "idle"
    BY DEF LockQuota, quotaVars, slotVars
  <1>2. Begun' /\ Counted'
    BY <1>1 DEF Begun, Counted, Apart, OnlyPackage
  <1>3. ASSUME NEW p \in Packages, OnlyPackage(p), p \notin uncapped, recount[p] = "none", p \notin twice
        PROVE  used[p] < total[p] /\ used[p] <= total[p]
    <2>1. asg[a].package = p
      BY <1>1, <1>3, OnlyOne
    <2> QED
      BY <1>1, <1>3, <2>1 DEF Guarded
  <1>4. Guarded'
    BY <1>1, <1>3 DEF Guarded, OnlyPackage
  <1> QED
    BY <1>2, <1>4

LEMMA CommitAssignQuota ==
  ASSUME QInv, NEW a \in Assigners, CommitAssign(a)
  PROVE  Begun' /\ Counted' /\ Guarded'
  <1> USE DEF QInv, CInv, IInv
  <1>1. PICK q \in Packages : q = asg[a].package /\ status[q] # "NONE"
    BY DEF CommitAssign, Assigning
  <1>2. PICK x \in SlotIds : ref[x] = NoRef /\ live' = live \cup {x}
    BY DEF CommitAssign
  <1>3. /\ asg[a].pc = "assigning" /\ asg' = [asg EXCEPT ![a] = NoAssign]
        /\ used' = [used EXCEPT ![q] = used[q] + 1]
        /\ UNCHANGED <<status, total, uncapped, held, rel, swp, recount, twice>>
    BY <1>1 DEF CommitAssign
  <1>4. x \notin live /\ Cardinality(live) \in Nat /\ Cardinality(live') = Cardinality(live) + 1
    BY <1>2, NoRefAssumption, FS_AddElement, FS_CardinalityType
  <1>5. \A p \in Packages : status[p] = "NONE" => used'[p] = used[p]
    BY <1>1, <1>3 DEF TypeOK
  <1>6. Begun'
    BY <1>1, <1>3, <1>5 DEF Begun
  <1>7. ASSUME NEW p \in Packages, OnlyPackage(p)
        PROVE  /\ used'[p] = used[p] + 1
               /\ \A b \in Assigners : asg'[b].pc # "assigning"
    <2>1. p = q
      BY <1>1, <1>3, <1>7, OnlyOne
    <2>2. asg'[a].pc = "idle" /\ \A b \in Assigners \ {a} : asg'[b] = asg[b]
      BY <1>3 DEF TypeOK, NoAssign
    <2>3. \A b \in Assigners : asg[b].pc = "assigning" => b = a
      BY <1>3, <1>7, OnlyOne
    <2> QED
      BY <1>3, <2>1, <2>2, <2>3 DEF TypeOK
  <1>8. \A p \in Packages : OnlyPackage(p)' <=> OnlyPackage(p)
    BY <1>3 DEF OnlyPackage
  <1>9. Counted'
    <2> SUFFICES ASSUME NEW p \in Packages, OnlyPackage(p), recount[p] # "stale", p \notin twice
                 PROVE  /\ used'[p] = Cardinality(live')
                        /\ \A r \in Releasers : rel[r].pc # "idle" =>
                              /\ \E y \in live' : rel[r].slots = {y}
                              /\ rel[r].pc = "releasing" => rel[r].decrement
                              /\ Apart(r)
      BY <1>3, <1>8 DEF Counted, Apart
    <2>1. used'[p] = Cardinality(live')
      BY <1>4, <1>7 DEF Counted
    <2>2. \A r \in Releasers : rel[r].pc # "idle" =>
             /\ \E y \in live : rel[r].slots = {y}
             /\ rel[r].pc = "releasing" => rel[r].decrement
             /\ Apart(r)
      BY DEF Counted
    <2> QED
      BY <1>2, <2>1, <2>2
  <1>10. Guarded'
    <2> SUFFICES ASSUME NEW p \in Packages, OnlyPackage(p), recount[p] = "none", p \notin twice,
                        p \notin uncapped
                 PROVE  used'[p] <= total[p]
      BY <1>3, <1>7, <1>8 DEF Guarded
    <2>1. used[p] < total[p]
      BY <1>3 DEF Guarded
    <2>2. used[p] \in Int /\ total[p] \in Nat
      BY DEF TypeOK
    <2> QED
      BY <1>7, <2>1, <2>2
  <1> QED
    BY <1>6, <1>9, <1>10

(* A release that has not committed holds one live slot, and counts it.     *)
LEMMA ReleaseQuota ==
  ASSUME QInv, NEW r \in Releasers, NEW q \in ReleaseStates,
         rel' = [rel EXCEPT ![r] = q], twice \subseteq twice',
         UNCHANGED <<status, quotaVars, slotVars, held, asg, swp, suspended, recount>>,
         q.pc # "idle" =>
            /\ q.package \in Packages /\ status[q.package] # "NONE"
            /\ \/ rel[r].pc # "idle" /\ q.slots = rel[r].slots
               \/ /\ \E x \in live : q.slots = {x}
                  /\ \A p \in Packages : OnlyPackage(p) /\ p \notin twice' =>
                        \A s \in Releasers \ {r} : q.slots \cap rel[s].slots = {},
         q.pc = "releasing" => rel[r].pc # "idle" /\ q.package = rel[r].package
                                /\ q.decrement = (used[q.package] > 0)
  PROVE  Begun' /\ Counted' /\ Guarded'
  <1> USE DEF QInv, CInv, IInv, quotaVars, slotVars
  <1>1. rel'[r] = q /\ \A s \in Releasers \ {r} : rel'[s] = rel[s]
    BY DEF TypeOK
  <1>2. Begun'
    BY <1>1 DEF Begun
  <1>3. Counted'
    <2> SUFFICES ASSUME NEW p \in Packages, OnlyPackage(p), recount[p] # "stale", p \notin twice'
                 PROVE  /\ used[p] = Cardinality(live)
                        /\ \A s \in Releasers : rel'[s].pc # "idle" =>
                              /\ \E x \in live : rel'[s].slots = {x}
                              /\ rel'[s].pc = "releasing" => rel'[s].decrement
                              /\ Apart(s)'
      BY DEF Counted, OnlyPackage
    <2>1. /\ used[p] = Cardinality(live)
          /\ \A s \in Releasers : rel[s].pc # "idle" =>
                /\ \E x \in live : rel[s].slots = {x}
                /\ rel[s].pc = "releasing" => rel[s].decrement
                /\ \A v \in Releasers \ {s} :
                      rel[v].pc # "idle" => rel[s].slots \cap rel[v].slots = {}
      BY DEF Counted, Apart
    <2>2. q.pc # "idle" => /\ \E x \in live : q.slots = {x}
                           /\ \A v \in Releasers \ {r} :
                                 rel[v].pc # "idle" => q.slots \cap rel[v].slots = {}
      BY <2>1
    <2>3. ASSUME q.pc = "releasing" PROVE q.decrement
      <3>1. q.package = p
        BY <2>3, OnlyOne
      <3>2. live # {} /\ Cardinality(live) \in Nat
        BY <2>2, <2>3, FS_CardinalityType
      <3>3. Cardinality(live) # 0
        BY <3>2, FS_EmptySet
      <3>4. used[q.package] > 0
        BY <2>1, <3>1, <3>2, <3>3
      <3>5. q.decrement = (used[q.package] > 0)
        BY <2>3
      <3> QED
        BY <3>4, <3>5, Zenon
    <2>4. ASSUME NEW s \in Releasers, rel'[s].pc # "idle" PROVE Apart(s)'
      BY <1>1, <2>1, <2>2, <2>4 DEF Apart
    <2> QED
      BY <1>1, <2>1, <2>2, <2>3, <2>4
  <1>4. Guarded'
    BY DEF Guarded, OnlyPackage
  <1> QED
    BY <1>2, <1>3, <1>4

LEMMA BeginReleaseQuota ==
  ASSUME QInv, NEW r \in Releasers, NEW p \in Packages, BeginRelease(r, p)
  PROVE  Begun' /\ Counted' /\ Guarded'
  <1>1. PICK x \in live :
          /\ rel' = [rel EXCEPT ![r] = [NoRelease EXCEPT !.pc = "deleting", !.package = p, !.slots = {x}]]
          /\ twice' = IF \E s \in Releasers : x \in rel[s].slots THEN twice \cup {p} ELSE twice
    BY DEF BeginRelease
  <1> DEFINE q == [NoRelease EXCEPT !.pc = "deleting", !.package = p, !.slots = {x}]
  <1>2. q \in ReleaseStates /\ q.pc = "deleting" /\ q.package = p /\ q.slots = {x}
    BY NoReleaseType DEF ReleaseStates, NoRelease, QInv, CInv, IInv, TypeOK
  <1>3. /\ rel' = [rel EXCEPT ![r] = q] /\ status[p] # "NONE"
        /\ UNCHANGED <<status, quotaVars, slotVars, held, asg, swp, suspended, recount>>
    BY <1>1 DEF BeginRelease
  <1> HIDE DEF q
  <1>4. ASSUME NEW o \in Packages, OnlyPackage(o), o \notin twice'
        PROVE  \A s \in Releasers \ {r} : q.slots \cap rel[s].slots = {}
    <2>1. o = p
      BY <1>3, <1>4 DEF OnlyPackage
    <2> QED
      BY <1>1, <1>2, <1>4, <2>1
  <1>5. twice \subseteq twice'
    BY <1>1
  <1> QED
    BY <1>2, <1>3, <1>4, <1>5, ReleaseQuota

LEMMA DeleteSlotQuota ==
  ASSUME QInv, NEW r \in Releasers, DeleteSlot(r)
  PROVE  Begun' /\ Counted' /\ Guarded'
  <1> DEFINE q == [pc |-> "releasing", package |-> rel[r].package, slots |-> rel[r].slots,
                   decrement |-> used[rel[r].package] > 0]
  <1>1. /\ rel[r].pc = "deleting" /\ rel[r].package \in Packages /\ rel[r] \in ReleaseStates
        /\ status[rel[r].package] # "NONE"
    BY DEF QInv, CInv, IInv, TypeOK, Begun, DeleteSlot
  <1>2. /\ q \in ReleaseStates /\ q.pc = "releasing" /\ q.package = rel[r].package
        /\ q.slots = rel[r].slots /\ q.decrement = (used[q.package] > 0)
    BY <1>1 DEF ReleaseStates
  <1>3. /\ rel' = [rel EXCEPT ![r] = q]
        /\ UNCHANGED <<status, quotaVars, slotVars, held, asg, swp, suspended, recount, twice>>
    BY DEF DeleteSlot
  <1> HIDE DEF q
  <1> QED
    BY <1>1, <1>2, <1>3, ReleaseQuota

LEMMA RollBackReleaseQuota ==
  ASSUME QInv, NEW r \in Releasers, RollBackRelease(r)
  PROVE  Begun' /\ Counted' /\ Guarded'
  <1>1. NoRelease.pc = "idle"
    BY DEF NoRelease
  <1> QED
    BY <1>1, NoReleaseType, ReleaseQuota DEF RollBackRelease

LEMMA CommitReleaseQuota ==
  ASSUME QInv, NEW r \in Releasers, CommitRelease(r)
  PROVE  Begun' /\ Counted' /\ Guarded'
  <1> USE DEF QInv, CInv, IInv
  <1>1. PICK q \in Packages : q = rel[r].package /\ status[q] # "NONE"
    BY DEF CommitRelease, Begun
  <1>2. /\ UNCHANGED <<status, total, uncapped, asg, swp, recount, twice>>
        /\ rel[r].pc = "releasing"
        /\ live' = live \ rel[r].slots
        /\ used' = IF rel[r].decrement THEN [used EXCEPT ![q] = used[q] - 1] ELSE used
    BY <1>1 DEF CommitRelease, DecrementUsed
  <1>3. \A s \in Releasers : rel'[s].pc # "idle" => s # r /\ rel'[s] = rel[s]
    BY DEF CommitRelease, TypeOK, NoRelease
  <1>4. \A p \in Packages : status[p] = "NONE" => used'[p] = used[p]
    BY <1>1, <1>2 DEF TypeOK
  <1>5. Begun'
    <2>1. \A s \in Releasers : rel'[s].pc # "idle" => status'[rel'[s].package] # "NONE"
      BY <1>2, <1>3 DEF Begun
    <2> QED
      BY <1>2, <1>4, <2>1 DEF Begun
  <1>6. ASSUME NEW p \in Packages, OnlyPackage(p), recount[p] # "stale", p \notin twice
        PROVE  used'[p] = Cardinality(live') /\ used'[p] = used[p] - 1 /\ used[p] \in Int
    <2>1. PICK x \in live : rel[r].slots = {x}
      BY <1>2, <1>6 DEF Counted
    <2>2. p = q /\ rel[r].decrement /\ used[p] = Cardinality(live)
      BY <1>1, <1>2, <1>6, OnlyOne DEF Counted
    <2>3. used'[p] = used[p] - 1 /\ used[p] \in Int
      BY <1>2, <2>2 DEF TypeOK
    <2>4. Cardinality(live') = Cardinality(live) - 1
      BY <1>2, <2>1, FS_RemoveElement
    <2> QED
      BY <2>2, <2>3, <2>4
  <1>7. Counted'
    <2>1. ASSUME NEW p \in Packages, OnlyPackage(p), recount[p] # "stale", p \notin twice,
                 NEW s \in Releasers, rel'[s].pc # "idle"
          PROVE  /\ \E x \in live' : rel'[s].slots = {x}
                 /\ rel'[s].pc = "releasing" => rel'[s].decrement
                 /\ Apart(s)'
      <3>1. s # r /\ rel'[s] = rel[s] /\ rel[s].pc # "idle"
        BY <1>3, <2>1
      <3>2. PICK x \in live : rel[s].slots = {x}
        BY <2>1, <3>1 DEF Counted
      <3>3. x \in live'
        <4>1. rel[s].slots \cap rel[r].slots = {}
          BY <1>2, <2>1, <3>1 DEF Counted, Apart
        <4> QED
          BY <1>2, <3>2, <4>1
      <3>4. Apart(s)'
        BY <1>3, <2>1, <3>1 DEF Counted, Apart
      <3> QED
        BY <2>1, <3>1, <3>2, <3>3, <3>4 DEF Counted
    <2> QED
      BY <1>2, <1>6, <2>1 DEF Counted, OnlyPackage
  <1>8. Guarded'
    <2> SUFFICES ASSUME NEW p \in Packages, OnlyPackage(p), recount[p] = "none", p \notin twice,
                        p \notin uncapped
                 PROVE  /\ used'[p] <= total[p]
                        /\ \A a \in Assigners : asg[a].pc = "assigning" => used'[p] < total[p]
      BY <1>2 DEF Guarded, OnlyPackage
    <2>1. /\ used[p] <= total[p] /\ total[p] \in Nat
          /\ \A a \in Assigners : asg[a].pc = "assigning" => used[p] < total[p]
      BY DEF Guarded, TypeOK
    <2>2. used'[p] = used[p] - 1 /\ used[p] \in Int
      BY <1>6
    <2> QED
      BY <2>1, <2>2
  <1> QED
    BY <1>5, <1>7, <1>8

(* The sweep writes what it has counted, or what it writes is stale.        *)
LEMMA ReconcileQuota ==
  ASSUME QInv, NEW w \in Sweepers, Reconcile(w),
         \A p \in Packages : OnlyPackage(p)' => OnlyPackage(p),
         \A s \in Subs : status[s] # "NONE" => status'[s] # "NONE"
  PROVE  Begun' /\ Counted' /\ Guarded'
  <1> USE DEF QInv, CInv, IInv
  <1>1. PICK q \in Packages, a \in Addons :
          q = swp[w].package /\ a = swp[w].addon /\ status[q] # "NONE"
    BY DEF Reconcile, Begun, Sweeping
  <1>2. /\ swp[w].pc = "reconciling"
        /\ live' = live \ swp[w].slots
        /\ total' = [total EXCEPT ![q] = swp[w].total]
        /\ used' = [used EXCEPT ![q] = swp[w].used]
        /\ recount' = [recount EXCEPT ![q] = IF Stale(w) THEN "stale" ELSE "exact"]
        /\ twice' = IF Stale(w) THEN twice ELSE twice \ {q}
        /\ UNCHANGED <<asg, rel>>
        /\ status' = [status EXCEPT ![a] = "EXPIRED"]
    BY <1>1 DEF Reconcile
  <1>3. /\ used'[q] = swp[w].used /\ recount'[q] = IF Stale(w) THEN "stale" ELSE "exact"
        /\ \A p \in Packages \ {q} :
              used'[p] = used[p] /\ recount'[p] = recount[p] /\ total'[p] = total[p]
    BY <1>2 DEF TypeOK
  <1>4. \A p \in Packages : status'[p] = status[p]
    BY <1>2, SubsAssumption DEF TypeOK, Subs
  <1>5. \A v \in Sweepers :
            swp'[v].pc \in {"revoking", "reconciling"} => v # w /\ swp'[v] = swp[v]
    BY DEF Reconcile, TypeOK, NoSweep
  <1>6. Begun'
    <2>1. \A r \in Releasers : rel'[r].pc # "idle" => status'[rel'[r].package] # "NONE"
      BY <1>2, <1>4 DEF Begun
    <2>2. ASSUME NEW v \in Sweepers, swp'[v].pc \in {"revoking", "reconciling"}
          PROVE  status'[swp'[v].package] # "NONE"
      BY <1>4, <1>5, <2>2 DEF Begun, Sweeping
    <2>3. \A p \in Packages : status'[p] = "NONE" => used'[p] = 0 /\ recount'[p] = "none"
      BY <1>1, <1>3, <1>4 DEF Begun
    <2>4. live' # {} => \E p \in Packages : status'[p] # "NONE"
      BY <1>1, <1>4
    <2> QED
      BY <2>1, <2>2, <2>3, <2>4 DEF Begun
  <1>7. ASSUME NEW p \in Packages, OnlyPackage(p)' PROVE p = q
    BY <1>1, <1>2, <1>7, OnlyOne
  <1>8. ~ Stale(w) =>
            swp[w].used = Cardinality(live') /\ \A r \in Releasers : rel'[r].pc = "idle"
    BY <1>2 DEF Stale
  <1>9. Counted'
    BY <1>3, <1>7, <1>8 DEF Counted
  <1>10. Guarded'
    BY <1>3, <1>7 DEF Guarded
  <1> QED
    BY <1>6, <1>9, <1>10

LEMMA NextQInv == QInv /\ [Next]_vars => QInv'
  <1> SUFFICES ASSUME QInv, [Next]_vars PROVE Begun' /\ Counted' /\ Guarded'
    BY NextCInv DEF QInv
  <1> IInv
    BY DEF QInv, CInv
  <1>1. \A s \in Subs : status[s] # "NONE" => status'[s] # "NONE"
    BY Bought
  <1>2. CASE \E p \in Packages : BuyPackage(p)
    BY <1>2, BuyPackageQuota
  <1>3. CASE ~ \E p \in Packages : BuyPackage(p)
    <2>1. \A p \in Packages : OnlyPackage(p)' => OnlyPackage(p)
      BY <1>3, OnlyBefore
    <2>2. CASE \E a \in Addons : BuyAddon(a)
      BY <2>1, <2>2, BuyAddonQuota
    <2>3. CASE \E a \in Assigners : LockQuota(a) \/ CommitAssign(a)
      BY <2>3, LockQuotaQuota, CommitAssignQuota
    <2>4. CASE \E r \in Releasers : Release(r)
      BY <2>4, BeginReleaseQuota, DeleteSlotQuota, CommitReleaseQuota, RollBackReleaseQuota
         DEF Release
    <2>5. CASE \E w \in Sweepers : Reconcile(w)
      BY <1>1, <2>1, <2>5, ReconcileQuota
    <2>6. CASE \/ \E s \in Subs : EditPlan(s) \/ Cancel(s) \/ Hold(s)
               \/ GracePasses
               \/ \E p \in Packages : EnforceGrace(p)
               \/ \E a \in Assigners :
                     RollBackAssign(a) \/ \E p \in Packages, c \in Refs : BeginAssign(a, p, c)
               \/ \E w \in Sweepers :
                     \/ \E a \in Addons : ReadExpired(w, a)
                     \/ Revoke(w) \/ EmitExpired(w) \/ LoseSweep(w)
               \/ UNCHANGED vars
      <3> USE DEF quotaVars, slotVars
      <3>1. UNCHANGED <<quotaVars, live, recount, rel, twice>>
        BY <2>6 DEF EditPlan, Cancel, Hold, GracePasses, EnforceGrace, RollBackAssign, BeginAssign,
           ReadExpired, Revoke, EmitExpired, LoseSweep, vars
      <3>2. \A p \in Packages : status'[p] = "NONE" <=> status[p] = "NONE"
        <4>1. \A p \in Packages : status[p] = "NONE" => status'[p] = "NONE"
          BY <2>6 DEF EditPlan, Cancel, Hold, GracePasses, EnforceGrace, RollBackAssign, BeginAssign,
             ReadExpired, Revoke, EmitExpired, LoseSweep, vars, IInv, TypeOK, Subs
        <4> QED
          BY <1>1, <4>1 DEF Subs
      <3>3. \A a \in Assigners : asg'[a].pc = "assigning" => asg[a].pc = "assigning"
        <4>1. CASE \E a \in Assigners :
                     RollBackAssign(a) \/ \E p \in Packages, c \in Refs : BeginAssign(a, p, c)
          BY <4>1, QuietAssign
        <4>2. CASE asg' = asg
          BY <4>2
        <4> QED
          BY <2>6, <4>1, <4>2 DEF EditPlan, Cancel, Hold, GracePasses, EnforceGrace,
             ReadExpired, Revoke, EmitExpired, LoseSweep, vars
      <3>4. \A w \in Sweepers : swp'[w].pc \in {"revoking", "reconciling"} =>
              \/ status[swp'[w].package] # "NONE" /\ swp'[w].package \in Packages
              \/ swp[w].pc \in {"revoking", "reconciling"} /\ swp'[w].package = swp[w].package
        <4>1. CASE swp' = swp
          BY <4>1
        <4>2. CASE \E w \in Sweepers : EmitExpired(w) \/ LoseSweep(w)
          BY <4>2 DEF EmitExpired, LoseSweep, IInv, TypeOK, NoSweep
        <4>3. CASE \E w \in Sweepers : Revoke(w)
          BY <4>3 DEF Revoke, IInv, TypeOK
        <4>4. CASE \E w \in Sweepers, a \in Addons : ReadExpired(w, a)
          BY <4>4 DEF ReadExpired, IInv, TypeOK, NoSweep
        <4> QED
          BY <2>6, <4>1, <4>2, <4>3, <4>4 DEF EditPlan, Cancel, Hold, GracePasses, EnforceGrace,
             RollBackAssign, BeginAssign, vars
      <3> QED
        BY <2>1, <3>1, <3>2, <3>3, <3>4, QuietQuota
    <2> QED
      BY <1>3, <2>2, <2>3, <2>4, <2>5, <2>6 DEF Next, Assign, Sweep
  <1> QED
    BY <1>2, <1>3

LEMMA QuotaInvariance == Spec => []QInv
  <1>1. Init => QInv
    BY InitCInv, InitQuota DEF QInv
  <1>2. QInv /\ [Next]_vars => QInv'
    BY NextQInv
  <1> QED
    BY <1>1, <1>2, PTL DEF Spec

(* However assignments, releases, purchases, edits, cancellations and sweeps *)
(* overlap, used_quota is the number of live slots, unless the last sweep    *)
(* wrote what was no longer true or, since the last exact one, two releases  *)
(* of one slot overlapped.                                                   *)
THEOREM UsedQuotaIsTrue == Spec => []UsedIsLive
  <1>1. QInv => UsedIsLive
    BY DEF QInv, Counted, UsedIsLive
  <1> QED
    BY <1>1, QuotaInvariance, PTL

(* Concurrent assignments never take more slots than the quota has, until a *)
(* sweep takes capacity away or two releases of one slot overlap.           *)
THEOREM QuotaIsKept == Spec => []WithinQuota
  <1>1. QInv => WithinQuota
    BY DEF QInv, Counted, Guarded, WithinQuota
  <1> QED
    BY <1>1, QuotaInvariance, PTL

-----------------------------------------------------------------------------
(* What others are shown, with any number of releases.  Started is what is  *)
(* known of the rows a handler is at work on, and of those not yet sold.    *)
Started ==
    /\ \A r \in Releasers : rel[r].pc # "idle" =>
          /\ status[rel[r].package] # "NONE"
          /\ \E x \in SlotIds : rel[r].slots = {x} /\ ref[x] # NoRef
    /\ \A w \in Sweepers :
          swp[w].pc \in {"revoking", "reconciling"} => status[swp[w].package] # "NONE"
    /\ \A p \in Packages : status[p] = "NONE" =>
          used[p] = 0 /\ recount[p] = "none" /\ p \notin uncapped
    /\ \/ \E p \in Packages : status[p] # "NONE"
       \/ BoughtAddons = {} /\ \A x \in SlotIds : ref[x] = NoRef
    /\ \A a \in BoughtAddons, b \in Addons : b < a => b \in BoughtAddons

LEMMA NewlyBought ==
  ASSUME IInv, [Next]_vars, NEW s \in Subs, status[s] = "NONE", status'[s] # "NONE"
  PROVE  \/ s \in Packages /\ BuyPackage(s)
         \/ s \in Addons /\ BuyAddon(s)
  <1>1. status \in [Subs -> Statuses]
    BY DEF IInv, TypeOK
  <1>2. ASSUME NEW p \in Packages, BuyPackage(p) PROVE s \in Packages /\ BuyPackage(s)
    BY <1>2 DEF BuyPackage
  <1>3. ASSUME NEW a \in Addons, BuyAddon(a) PROVE s \in Addons /\ BuyAddon(s)
    BY <1>1, <1>3 DEF BuyAddon
  <1>4. CASE \E t \in Subs : Cancel(t) \/ Hold(t)
    BY <1>1, <1>4 DEF Cancel, Hold
  <1>5. CASE \E p \in Packages : EnforceGrace(p)
    BY <1>5 DEF EnforceGrace
  <1>6. ASSUME NEW w \in Sweepers, Reconcile(w) PROVE FALSE
    BY <1>1, <1>6 DEF Reconcile, IInv, Sweeping
  <1>7. CASE status' = status
    BY <1>7
  <1> QED
    BY <1>2, <1>3, <1>4, <1>5, <1>6, <1>7 DEF Next, vars, EditPlan, Assign, Release, Sweep, GracePasses,
       BeginAssign, LockQuota, CommitAssign, RollBackAssign, BeginRelease, DeleteSlot,
       CommitRelease, RollBackRelease, ReadExpired, Revoke, EmitExpired, LoseSweep

(* A slot once inserted stays a row of its ref.                             *)
LEMMA Inserted ==
  ASSUME IInv, [Next]_vars, NEW x \in SlotIds, ref[x] # NoRef
  PROVE  ref'[x] # NoRef /\ (x \in live' => x \in live)
  <1>1. ASSUME NEW a \in Assigners, CommitAssign(a)
        PROVE  ref'[x] # NoRef /\ (x \in live' => x \in live)
    <2>1. PICK y \in SlotIds : ref[y] = NoRef /\ live' = live \cup {y}
                                  /\ ref' = [ref EXCEPT ![y] = asg[a].ref]
      BY <1>1 DEF CommitAssign
    <2>2. x # y
      BY <2>1
    <2> QED
      BY <2>1, <2>2 DEF IInv, TypeOK
  <1>2. CASE ref' = ref /\ live' \subseteq live
    BY <1>2
  <1> QED
    BY <1>1, <1>2 DEF Next, vars, EditPlan, slotVars, Assign, Release, Sweep, GracePasses,
       BuyPackage, BuyAddon, Cancel, Hold, EnforceGrace,
       BeginAssign, LockQuota, RollBackAssign, BeginRelease, DeleteSlot,
       CommitRelease, RollBackRelease, ReadExpired, Revoke, Reconcile, EmitExpired, LoseSweep

LEMMA StartedReleases ==
  ASSUME IInv, Started, [Next]_vars, NEW r \in Releasers, rel'[r].pc # "idle"
  PROVE  /\ status'[rel'[r].package] # "NONE"
         /\ \E x \in SlotIds : rel'[r].slots = {x} /\ ref'[x] # NoRef
  <1>1. \A p \in Packages : status[p] # "NONE" => status'[p] # "NONE"
    BY Bought DEF Subs
  <1>2. SUFFICES /\ rel'[r].package \in Packages /\ status[rel'[r].package] # "NONE"
                 /\ \E x \in SlotIds : rel'[r].slots = {x} /\ ref[x] # NoRef
    BY <1>1, Inserted
  <1>3. CASE rel'[r] = rel[r]
    BY <1>3 DEF IInv, Started
  <1>4. ASSUME NEW q \in Releasers, NEW p \in Packages, BeginRelease(q, p), rel'[r] # rel[r]
        PROVE  /\ rel'[r].package \in Packages /\ status[rel'[r].package] # "NONE"
               /\ \E x \in SlotIds : rel'[r].slots = {x} /\ ref[x] # NoRef
    <2>1. PICK x \in live :
            rel' = [rel EXCEPT ![q] = [NoRelease EXCEPT !.pc = "deleting", !.package = p, !.slots = {x}]]
      BY <1>4 DEF BeginRelease
    <2>2. q = r /\ rel'[r].package = p /\ rel'[r].slots = {x}
      BY <1>4, <2>1 DEF IInv, TypeOK, NoRelease
    <2>3. x \in SlotIds /\ ref[x] # NoRef
      BY NoRefAssumption DEF IInv, TypeOK
    <2> QED
      BY <1>4, <2>2, <2>3 DEF BeginRelease
  <1>5. ASSUME NEW q \in Releasers, DeleteSlot(q), rel'[r] # rel[r]
        PROVE  /\ rel'[r].package \in Packages /\ status[rel'[r].package] # "NONE"
               /\ \E x \in SlotIds : rel'[r].slots = {x} /\ ref[x] # NoRef
    <2>1. q = r /\ rel[r].pc = "deleting" /\ rel'[r].package = rel[r].package
             /\ rel'[r].slots = rel[r].slots
      BY <1>5 DEF DeleteSlot, IInv, TypeOK
    <2> QED
      BY <2>1 DEF IInv, Started
  <1>6. ASSUME NEW q \in Releasers, CommitRelease(q) \/ RollBackRelease(q), rel'[r] # rel[r]
        PROVE  FALSE
    BY <1>6 DEF CommitRelease, RollBackRelease, IInv, TypeOK, NoRelease
  <1>7. CASE rel' = rel
    BY <1>3, <1>7
  <1> QED
    BY <1>3, <1>4, <1>5, <1>6, <1>7 DEF Next, vars, EditPlan, Assign, Release, Sweep, GracePasses,
       BuyPackage, BuyAddon, Cancel, Hold, EnforceGrace,
       BeginAssign, LockQuota, CommitAssign, RollBackAssign,
       ReadExpired, Revoke, Reconcile, EmitExpired, LoseSweep

LEMMA StartedSweeps ==
  ASSUME IInv, Started, [Next]_vars, NEW w \in Sweepers,
         swp'[w].pc \in {"revoking", "reconciling"}
  PROVE  status'[swp'[w].package] # "NONE"
  <1>1. \A p \in Packages : status[p] # "NONE" => status'[p] # "NONE"
    BY Bought DEF Subs
  <1>2. SUFFICES swp'[w].package \in Packages /\ status[swp'[w].package] # "NONE"
    BY <1>1
  <1>3. CASE swp'[w] = swp[w]
    BY <1>3 DEF IInv, Sweeping, Started
  <1>4. ASSUME NEW v \in Sweepers, NEW a \in Addons, ReadExpired(v, a), swp'[w] # swp[w]
        PROVE  swp'[w].package \in Packages /\ status[swp'[w].package] # "NONE"
    BY <1>4 DEF ReadExpired, IInv, TypeOK, NoSweep
  <1>5. ASSUME NEW v \in Sweepers, Revoke(v), swp'[w] # swp[w]
        PROVE  swp'[w].package \in Packages /\ status[swp'[w].package] # "NONE"
    <2>1. v = w /\ swp[w].pc = "revoking" /\ swp'[w].package = swp[w].package
      BY <1>5 DEF Revoke, IInv, TypeOK
    <2> QED
      BY <2>1 DEF IInv, Sweeping, Started
  <1>6. ASSUME NEW v \in Sweepers, Reconcile(v) \/ EmitExpired(v) \/ LoseSweep(v),
               swp'[w] # swp[w]
        PROVE  FALSE
    <2>1. CASE Reconcile(v)
      BY <1>6, <2>1 DEF Reconcile, IInv, TypeOK, NoSweep
    <2>2. CASE EmitExpired(v) \/ LoseSweep(v)
      BY <1>6, <2>2 DEF EmitExpired, LoseSweep, IInv, TypeOK, NoSweep
    <2> QED
      BY <1>6, <2>1, <2>2
  <1>7. CASE swp' = swp
    BY <1>3, <1>7
  <1> QED
    BY <1>3, <1>4, <1>5, <1>6, <1>7 DEF Next, vars, EditPlan, Assign, Release, Sweep, GracePasses,
       BuyPackage, BuyAddon, Cancel, Hold, EnforceGrace,
       BeginAssign, LockQuota, CommitAssign, RollBackAssign,
       BeginRelease, DeleteSlot, CommitRelease, RollBackRelease

LEMMA NextStarted == ASSUME IInv, Started, [Next]_vars PROVE Started'
  <1>1. \A s \in Subs : status[s] # "NONE" => status'[s] # "NONE"
    BY Bought
  <1>2. ASSUME NEW s \in Subs, status[s] = "NONE", status'[s] # "NONE"
        PROVE  (s \in Packages /\ BuyPackage(s)) \/ (s \in Addons /\ BuyAddon(s))
    BY <1>2, NewlyBought
  <1>3. ASSUME NEW p \in Packages, status'[p] = "NONE"
        PROVE  used'[p] = 0 /\ recount'[p] = "none" /\ p \notin uncapped'
    <2>1. status[p] = "NONE" /\ used[p] = 0 /\ recount[p] = "none" /\ p \notin uncapped
      BY <1>1, <1>3 DEF Started, Subs
    <2>2. CASE \E q \in Packages : BuyPackage(q)
      BY <1>3, <2>1, <2>2 DEF BuyPackage, Subs
    <2>3. CASE \E a \in Addons : BuyAddon(a)
      BY <2>1, <2>3 DEF BuyAddon
    <2>4. CASE \E a \in Assigners : CommitAssign(a)
      BY <2>1, <2>4 DEF CommitAssign, IInv, TypeOK, Assigning
    <2>5. CASE \E r \in Releasers : CommitRelease(r)
      BY <2>1, <2>5 DEF CommitRelease, DecrementUsed, IInv, TypeOK, Started
    <2>6. CASE \E w \in Sweepers : Reconcile(w)
      BY <2>1, <2>6 DEF Reconcile, IInv, TypeOK, Started
    <2>7. CASE UNCHANGED <<used, recount, uncapped>>
      BY <2>1, <2>7
    <2> QED
      BY <2>2, <2>3, <2>4, <2>5, <2>6, <2>7 DEF Next, vars, EditPlan, quotaVars, Assign, Release, Sweep,
         GracePasses, Cancel, Hold, EnforceGrace, BeginAssign, LockQuota, RollBackAssign,
         BeginRelease, DeleteSlot, RollBackRelease, ReadExpired, Revoke, EmitExpired, LoseSweep
  <1>4. \/ \E p \in Packages : status'[p] # "NONE"
        \/ BoughtAddons' = {} /\ \A x \in SlotIds : ref'[x] = NoRef
    <2>1. CASE \E p \in Packages : status[p] # "NONE" \/ status'[p] # "NONE"
      BY <1>1, <2>1 DEF Subs
    <2>2. CASE \A p \in Packages : status[p] = "NONE" /\ status'[p] = "NONE"
      <3>1. BoughtAddons = {} /\ \A x \in SlotIds : ref[x] = NoRef
        BY <2>2 DEF Started
      <3>2. ~ \E a \in Addons : BuyAddon(a)
        BY <2>2 DEF BuyAddon
      <3>3. BoughtAddons' = {}
        BY <1>2, <3>1, <3>2, SubsAssumption DEF BoughtAddons, Subs
      <3>4. ~ \E a \in Assigners : CommitAssign(a)
        BY <2>2 DEF CommitAssign, IInv, Assigning
      <3>5. ref' = ref
        BY <3>4 DEF Next, vars, EditPlan, slotVars, Assign, Release, Sweep, GracePasses,
           BuyPackage, BuyAddon, Cancel, Hold, EnforceGrace,
           BeginAssign, LockQuota, RollBackAssign, BeginRelease, DeleteSlot,
           CommitRelease, RollBackRelease, ReadExpired, Revoke, Reconcile, EmitExpired, LoseSweep
      <3> QED
        BY <3>1, <3>3, <3>5
    <2> QED
      BY <2>1, <2>2
  <1>5. ASSUME NEW a \in BoughtAddons', NEW b \in Addons, b < a PROVE b \in BoughtAddons'
    <2>1. a \in Addons /\ status'[a] # "NONE"
      BY DEF BoughtAddons
    <2>2. status[b] # "NONE"
      <3>1. CASE status[a] # "NONE"
        BY <1>5, <2>1, <3>1 DEF Started, BoughtAddons
      <3>2. CASE status[a] = "NONE"
        BY <1>2, <1>5, <2>1, <3>2, SubsAssumption DEF BuyAddon, Subs
      <3> QED
        BY <3>1, <3>2
    <2> QED
      BY <1>1, <2>2 DEF BoughtAddons, Subs
  <1> QED
    BY <1>3, <1>4, <1>5, StartedReleases, StartedSweeps DEF Started

LEMMA InitStarted == Init => Started
  <1> SUFFICES ASSUME Init PROVE Started
    OBVIOUS
  <1>1. BoughtAddons = {}
    BY DEF Init, BoughtAddons, Subs
  <1>2. \A r \in Releasers : rel[r].pc = "idle"
    BY DEF Init, NoRelease
  <1>3. \A w \in Sweepers : swp[w].pc = "idle"
    BY DEF Init, NoSweep
  <1>4. \A p \in Packages : used[p] = 0 /\ recount[p] = "none" /\ p \notin uncapped
    BY DEF Init
  <1>5. \A x \in SlotIds : ref[x] = NoRef
    BY DEF Init
  <1> QED
    BY <1>1, <1>2, <1>3, <1>4, <1>5 DEF Started

(* The limit of a quota row is what the sources give, and the add-ons that  *)
(* gave and are no longer listed, as long as no plan is edited.             *)
Retained == {a \in Addons : status[a] \in {"ON_HOLD", "CANCELLED"}}

IsLimit(p, S) ==
    /\ p \in uncapped <=> S \cap Unlimited # {}
    /\ p \notin uncapped => total[p] = Cardinality(Units(Capacity, S))

LimitKnown ==
    \A p \in Packages : edited = {} /\ OnlyPackage(p) /\ recount[p] # "stale" =>
        \E H \in SUBSET Retained : IsLimit(p, Sources(p) \cup H)

LEMMA SourcesFinite ==
  ASSUME IInv, NEW p \in Packages, NEW H \in SUBSET Retained
  PROVE  Sources(p) \cup H \in SUBSET Subs /\ IsFiniteSet(Sources(p) \cup H)
  <1>1. /\ Sources(p) \cup H \subseteq BoughtAddons \cup {p}
        /\ BoughtAddons \cup {p} \subseteq Subs
    BY DEF Sources, ActiveAddons, Retained, BoughtAddons, Subs
  <1>2. IsFiniteSet(BoughtAddons \cup {p})
    BY FS_AddElement DEF IInv
  <1> QED
    BY <1>1, <1>2, FS_Subset

LEMMA LimitIs ==
  ASSUME NEW p \in Packages, NEW S, NEW H \in SUBSET Retained', Sources(p)' \cup H = S,
         p \in uncapped' <=> S \cap Unlimited # {},
         p \notin uncapped' => total'[p] = Cardinality(Units(Capacity, S))
  PROVE  \E G \in SUBSET Retained' : IsLimit(p, Sources(p) \cup G)'
  <1>1. IsLimit(p, Sources(p) \cup H)'
    BY DEF IsLimit, Units
  <1> QED
    BY <1>1

LEMMA BuyPackageLimit ==
  ASSUME CInv, Started, NEW b \in Packages, BuyPackage(b) PROVE LimitKnown'
  <1> SUFFICES ASSUME NEW p \in Packages, edited' = {}, OnlyPackage(p)'
               PROVE  \E H \in SUBSET Retained' : IsLimit(p, Sources(p) \cup H)'
    BY DEF LimitKnown
  <1>0. IInv /\ capacity = Capacity /\ unlimited = Unlimited
    BY DEF CInv, Unedited, BuyPackage, planVars
  <1>1. /\ status'[b] = "ACTIVE" /\ status[b] = "NONE"
        /\ \A q \in Packages : status[q] # "NONE" => status'[q] # "NONE"
        /\ \A a \in Addons : status'[a] = status[a]
    BY SubsAssumption DEF BuyPackage, Subs
  <1>2. p = b /\ \A q \in Packages : status[q] = "NONE"
    BY <1>1 DEF OnlyPackage
  <1>3. ActiveAddons' = {}
    BY <1>1, <1>2 DEF Started, BoughtAddons, ActiveAddons
  <1>4. Sources(p)' \cup {} = {p}
    BY <1>3 DEF Sources, ActiveAddons
  <1>5. total'[p] = TotalOf({p}) /\ (p \in uncapped' <=> p \in Unlimited)
    BY <1>0, <1>2 DEF BuyPackage, Started, IInv, TypeOK
  <1>6. {p} \in SUBSET Subs /\ IsFiniteSet({p})
    BY FS_Singleton DEF Subs
  <1>7. /\ p \in uncapped' <=> {p} \cap Unlimited # {}
        /\ p \notin uncapped' => total'[p] = Cardinality(Units(Capacity, {p}))
    BY <1>0, <1>5, <1>6, TotalIsCount
  <1> QED
    BY <1>4, <1>7, LimitIs

LEMMA BuyAddonLimit ==
  ASSUME CInv, Started, LimitKnown, NEW c \in Addons, BuyAddon(c),
         \A p \in Packages : OnlyPackage(p)' => OnlyPackage(p)
  PROVE  LimitKnown'
  <1> SUFFICES ASSUME NEW p \in Packages, edited' = {}, OnlyPackage(p), recount'[p] # "stale"
               PROVE  \E H \in SUBSET Retained' : IsLimit(p, Sources(p) \cup H)'
    BY DEF LimitKnown
  <1>0. IInv /\ edited = {} /\ capacity = Capacity /\ unlimited = Unlimited
    BY DEF CInv, Unedited, BuyAddon, planVars
  <1>1. recount[p] # "stale"
    BY DEF BuyAddon
  <1>2. PICK H \in SUBSET Retained : IsLimit(p, Sources(p) \cup H)
    BY <1>0, <1>1 DEF LimitKnown
  <1> PICK S : S = Sources(p) \cup H
    OBVIOUS
  <1>3. /\ status[c] = "NONE" /\ status'[c] = "ACTIVE"
        /\ \A a \in Addons \ {c} : status'[a] = status[a]
    BY <1>0 DEF BuyAddon, IInv, TypeOK, Subs
  <1>4. Retained' = Retained /\ Sources(p)' \cup H = S \cup {c} /\ c \notin S
    BY <1>3, SubsAssumption DEF Retained, Sources, ActiveAddons
  <1>5. IF p \in uncapped THEN total' = total /\ uncapped' = uncapped
        ELSE IF c \in Unlimited THEN uncapped' = uncapped \cup {p} /\ total' = total
        ELSE total'[p] = total[p] + Capacity[c] /\ uncapped' = uncapped
    <2>1. PICK q \in Packages :
            /\ status[q] # "NONE"
            /\ IF q \in uncapped THEN UNCHANGED <<total, uncapped>>
               ELSE IF c \in Unlimited
                    THEN uncapped' = uncapped \cup {q} /\ UNCHANGED total
                    ELSE total' = [total EXCEPT ![q] = @ + Capacity[c]] /\ UNCHANGED uncapped
      BY <1>0 DEF BuyAddon
    <2>2. q = p
      BY <2>1 DEF OnlyPackage
    <2> QED
      BY <1>0, <2>1, <2>2 DEF IInv, TypeOK
  <1>6. S \in SUBSET Subs /\ IsFiniteSet(S) /\ c \in Subs \ S /\ Capacity[c] \in Nat
    BY <1>0, <1>4, SourcesFinite, CapacityAssumption DEF Subs
  <1>7. Cardinality(Units(Capacity, S)) \in Nat
        /\ Cardinality(Units(Capacity, S \cup {c})) = Capacity[c] + Cardinality(Units(Capacity, S))
    BY <1>6, CapacityAssumption, UnitsOfMore, UnitsFinite, FS_CardinalityType
  <1>8. /\ p \in uncapped <=> S \cap Unlimited # {}
        /\ p \notin uncapped => total[p] = Cardinality(Units(Capacity, S))
    BY <1>2 DEF IsLimit
  <1>9. /\ p \in uncapped' <=> (S \cup {c}) \cap Unlimited # {}
        /\ p \notin uncapped' => total'[p] = Cardinality(Units(Capacity, S \cup {c}))
    <2>1. CASE p \in uncapped
      BY <1>5, <1>8, <2>1
    <2>2. CASE p \notin uncapped /\ c \in Unlimited
      BY <1>5, <2>2
    <2>3. CASE p \notin uncapped /\ c \notin Unlimited
      <3>1. total'[p] = Cardinality(Units(Capacity, S \cup {c}))
        BY <1>5, <1>6, <1>7, <1>8, <2>3
      <3> QED
        BY <1>5, <1>8, <2>3, <3>1
    <2> QED
      BY <2>1, <2>2, <2>3
  <1> QED
    BY <1>4, <1>9, LimitIs

LEMMA ReconcileLimit ==
  ASSUME CInv, Started, LimitKnown, NEW w \in Sweepers, Reconcile(w),
         \A p \in Packages : OnlyPackage(p)' => OnlyPackage(p)
  PROVE  LimitKnown'
  <1> SUFFICES ASSUME NEW p \in Packages, edited' = {}, OnlyPackage(p), recount'[p] # "stale"
               PROVE  \E H \in SUBSET Retained' : IsLimit(p, Sources(p) \cup H)'
    BY DEF LimitKnown
  <1>0. IInv /\ capacity = Capacity /\ unlimited = Unlimited
    BY DEF CInv, Unedited, Reconcile, planVars
  <1>1. PICK a \in Addons : a = swp[w].addon
    BY <1>0 DEF Reconcile, IInv, Sweeping
  <1>2. swp[w].package = p
    BY <1>0 DEF Reconcile, Started, OnlyPackage, IInv, Sweeping
  <1> PICK left : left = Sources(p) \ {a}
    OBVIOUS
  <1>3. /\ total'[p] = swp[w].total /\ recount'[p] = IF Stale(w) THEN "stale" ELSE "exact"
        /\ p \in uncapped' <=> swp[w].uncapped
    BY <1>0, <1>2 DEF Reconcile, IInv, TypeOK
  <1>4. TotalOf(left) = swp[w].total /\ swp[w].uncapped = (left \cap Unlimited # {})
    BY <1>0, <1>1, <1>2, <1>3 DEF Stale
  <1>5. status' = [status EXCEPT ![a] = "EXPIRED"]
    BY <1>1 DEF Reconcile
  <1>6. Sources(p)' \cup {} = left
    BY <1>0, <1>5, SubsAssumption DEF Sources, ActiveAddons, IInv, TypeOK, Subs
  <1>7. left \in SUBSET Subs /\ IsFiniteSet(left)
    <2>1. Sources(p) \cup {} \in SUBSET Subs /\ IsFiniteSet(Sources(p) \cup {})
      BY <1>0, SourcesFinite
    <2> QED
      BY <2>1, FS_Subset
  <1>8. /\ p \in uncapped' <=> left \cap Unlimited # {}
        /\ p \notin uncapped' => total'[p] = Cardinality(Units(Capacity, left))
    BY <1>0, <1>3, <1>4, <1>7, TotalIsCount
  <1> QED
    BY <1>6, <1>8, LimitIs

LEMMA QuietLimit ==
  ASSUME LimitKnown, edited \subseteq edited', UNCHANGED <<total, uncapped, recount>>,
         \A p \in Packages : OnlyPackage(p)' => OnlyPackage(p),
         Retained \subseteq Retained', ActiveAddons' \subseteq ActiveAddons,
         ActiveAddons \ ActiveAddons' \subseteq Retained'
  PROVE  LimitKnown'
  <1> SUFFICES ASSUME NEW p \in Packages, edited = {}, OnlyPackage(p), recount[p] # "stale"
               PROVE  \E H \in SUBSET Retained' : IsLimit(p, Sources(p) \cup H)'
    BY DEF LimitKnown
  <1>1. PICK H \in SUBSET Retained : IsLimit(p, Sources(p) \cup H)
    BY DEF LimitKnown
  <1> PICK G : G = H \cup (ActiveAddons \ ActiveAddons')
    OBVIOUS
  <1>2. G \in SUBSET Retained' /\ Sources(p)' \cup G = Sources(p) \cup H
    BY DEF Sources
  <1>3. PICK S : S = Sources(p) \cup H
    OBVIOUS
  <1>4. /\ p \in uncapped' <=> S \cap Unlimited # {}
        /\ p \notin uncapped' => total'[p] = Cardinality(Units(Capacity, S))
    BY <1>1, <1>3 DEF IsLimit
  <1> QED
    BY <1>2, <1>3, <1>4, LimitIs

LEMMA NextLimit == ASSUME CInv, Started, LimitKnown, [Next]_vars PROVE LimitKnown'
  <1>0. IInv /\ edited \subseteq edited'
    BY NextUnedited DEF CInv
  <1>1. CASE \E p \in Packages : BuyPackage(p)
    BY <1>1, BuyPackageLimit
  <1>2. CASE ~ \E p \in Packages : BuyPackage(p)
    <2>1. \A p \in Packages : OnlyPackage(p)' => OnlyPackage(p)
      BY <1>0, <1>2, OnlyBefore
    <2>2. CASE \E a \in Addons : BuyAddon(a)
      BY <2>1, <2>2, BuyAddonLimit
    <2>3. CASE \E w \in Sweepers : Reconcile(w)
      BY <2>1, <2>3, ReconcileLimit
    <2>4. CASE \E s \in Subs : Cancel(s) \/ Hold(s)
      <3>1. PICK s \in Subs : Cancel(s) \/ Hold(s)
        BY <2>4
      <3>2. status \in [Subs -> Statuses] /\ Addons \subseteq Subs
        BY <1>0 DEF IInv, TypeOK, Subs
      <3>3. /\ status'[s] \in {"ON_HOLD", "CANCELLED"}
            /\ \A t \in Subs \ {s} : status'[t] = status[t]
            /\ UNCHANGED <<total, uncapped, recount>>
        BY <3>1, <3>2 DEF Cancel, Hold, quotaVars
      <3>4. /\ Retained \subseteq Retained' /\ ActiveAddons' \subseteq ActiveAddons
            /\ ActiveAddons \ ActiveAddons' \subseteq Retained'
        BY <3>2, <3>3 DEF Retained, ActiveAddons
      <3> QED
        BY <1>0, <2>1, <3>3, <3>4, QuietLimit
    <2>5. CASE \E p \in Packages : EnforceGrace(p)
      <3>1. PICK e \in Packages : EnforceGrace(e)
        BY <2>5
      <3>2. \A p \in Packages : ~ OnlyPackage(p)
        BY <3>1 DEF EnforceGrace, OnlyPackage
      <3> QED
        BY <2>1, <3>2 DEF LimitKnown
    <2>6. CASE UNCHANGED <<status, total, uncapped, recount>>
      <3>1. Retained' = Retained /\ ActiveAddons' = ActiveAddons
        BY <2>6 DEF Retained, ActiveAddons
      <3> QED
        BY <1>0, <2>1, <2>6, <3>1, QuietLimit
    <2> QED
      BY <1>2, <2>2, <2>3, <2>4, <2>5, <2>6 DEF Next, vars, EditPlan, quotaVars, Assign, Release, Sweep,
         GracePasses, BeginAssign, LockQuota, CommitAssign, RollBackAssign, BeginRelease,
         DeleteSlot, CommitRelease, RollBackRelease, ReadExpired, Revoke, EmitExpired, LoseSweep
  <1> QED
    BY <1>1, <1>2

-----------------------------------------------------------------------------
(* The limit that is shown.                                                 *)

(* A finite set of ids can be listed oldest first.                          *)
Listed(S, q) ==
    /\ q \in [1..Cardinality(S) -> S]
    /\ Range(q) = S
    /\ \A i, j \in 1..Cardinality(S) : i < j => q[i] < q[j]

LEMMA OldestFirstLists ==
  ASSUME NEW S \in SUBSET Subs, IsFiniteSet(S) PROVE Listed(S, OldestFirst(S))
  <1> DEFINE T == {s \in SUBSET S : ~ \E q : Listed(s, q)}
  <1>1. T = {}
    <2> SUFFICES ASSUME T # {} PROVE FALSE
      OBVIOUS
    <2>1. PICK t \in T : \A u \in T : u \subseteq t => u = t
      <3>1. T \in SUBSET (SUBSET S)
        OBVIOUS
      <3> HIDE DEF T
      <3> QED
        BY <3>1, LeastSubset
    <2>2. t \in SUBSET Nat /\ IsFiniteSet(t) /\ ~ \E q : Listed(t, q)
      BY FS_Subset, SubsAssumption
    <2>3. CASE t = {}
      <3>1. Cardinality(t) = 0
        BY <2>3, FS_EmptySet
      <3>2. Listed(t, [i \in {} |-> 0])
        BY <2>3, <3>1 DEF Listed, Range
      <3> QED
        BY <2>2, <3>2
    <2>4. CASE t # {}
      <3>1. PICK m \in t : \A y \in t : m <= y
        BY <2>2, <2>4, MinIsLeast
      <3>2. PICK u : u = t \ {m}
        OBVIOUS
      <3>3. PICK r : Listed(u, r)
        BY <2>1, <3>1, <3>2
      <3>4. PICK n \in Nat : n = Cardinality(u) /\ Cardinality(t) = n + 1
        <4>1. IsFiniteSet(u) /\ Cardinality(u) = Cardinality(t) - 1
          BY <2>2, <3>1, <3>2, FS_RemoveElement
        <4>2. Cardinality(u) \in Nat /\ Cardinality(t) \in Nat
          BY <2>2, <4>1, FS_CardinalityType
        <4> QED
          BY <4>1, <4>2
      <3>5. /\ r \in [1..n -> u] /\ Range(r) = u
            /\ \A i, j \in 1..n : i < j => r[i] < r[j]
        BY <3>3, <3>4 DEF Listed
      <3>6. PICK q : q = [i \in 1..n + 1 |-> IF i = 1 THEN m ELSE r[i - 1]]
        OBVIOUS
      <3>7. q[1] = m /\ \A i \in 1..n : q[i + 1] = r[i]
        BY <3>6
      <3>8. q \in [1..n + 1 -> t]
        BY <3>1, <3>2, <3>5, <3>6
      <3>9. Range(q) = t
        <4>1. Range(q) \subseteq t
          BY <3>8 DEF Range
        <4>2. m \in Range(q)
          BY <3>7, <3>8 DEF Range
        <4>3. ASSUME NEW y \in u PROVE y \in Range(q)
          <5>1. PICK i \in 1..n : y = r[i]
            BY <3>5 DEF Range
          <5>2. i + 1 \in 1..n + 1 /\ q[i + 1] = y
            BY <3>7, <5>1
          <5> QED
            BY <3>8, <5>2 DEF Range
        <4> QED
          BY <3>2, <4>1, <4>2, <4>3
      <3>10. ASSUME NEW i \in 1..n + 1, NEW j \in 1..n + 1, i < j PROVE q[i] < q[j]
        <4>1. j - 1 \in 1..n /\ q[j] = r[j - 1] /\ r[j - 1] \in u
          BY <3>5, <3>6, <3>10
        <4>2. CASE i = 1
          <5>1. PICK y \in u : y = r[j - 1]
            BY <4>1
          <5>2. m <= y /\ m # y /\ m \in Nat /\ y \in Nat
            BY <2>2, <3>1, <3>2
          <5> QED
            BY <3>7, <4>1, <4>2, <5>1, <5>2
        <4>3. CASE i # 1
          <5>1. i - 1 \in 1..n /\ q[i] = r[i - 1] /\ i - 1 < j - 1
            BY <3>6, <3>10, <4>3
          <5> QED
            BY <3>5, <4>1, <5>1
        <4> QED
          BY <4>2, <4>3
      <3> QED
        BY <2>2, <3>4, <3>8, <3>9, <3>10 DEF Listed
    <2> QED
      BY <2>3, <2>4
  <1>2. \E q \in [1..Cardinality(S) -> S] : Listed(S, q)
    BY <1>1 DEF Listed
  <1> QED
    BY <1>2 DEF OldestFirst, Listed

(* The sources that are listed, in the order in which they are given slots. *)
Before(p, s, t) == t # p /\ (s = p \/ s < t)
Capacious == {a \in ActiveAddons : shown[a] > 0}

LEMMA ShownInOrder ==
  ASSUME IInv, NEW p \in Packages
  PROVE  /\ ShownSources(p) \in Seq(Subs)
         /\ Range(ShownSources(p)) = {p} \cup Capacious
         /\ \A i, j \in 1..Len(ShownSources(p)) :
               i < j => Before(p, ShownSources(p)[i], ShownSources(p)[j])
  <1>1. PICK A : A = Capacious
    OBVIOUS
  <1>2. A \in SUBSET Subs /\ IsFiniteSet(A) /\ p \notin A
    <2>1. A \subseteq BoughtAddons
      BY <1>1 DEF Capacious, ActiveAddons, BoughtAddons
    <2>2. A \subseteq Subs /\ p \notin A
      BY <2>1, SubsAssumption DEF BoughtAddons, Subs
    <2> QED
      BY <2>1, <2>2, FS_Subset DEF IInv
  <1>3. PICK n \in Nat : n = Cardinality(A)
    BY <1>2, FS_CardinalityType
  <1>4. PICK q : q = OldestFirst(A)
    OBVIOUS
  <1>5. /\ q \in [1..n -> A]
        /\ Range(q) = A
        /\ \A i, j \in 1..n : i < j => q[i] < q[j]
    BY <1>2, <1>3, <1>4, OldestFirstLists DEF Listed
  <1>6. q \in Seq(Subs) /\ Len(q) = n
    BY <1>2, <1>5, SeqDef
  <1>7. <<p>> \in Seq(Subs) /\ Len(<<p>>) = 1 /\ <<p>>[1] = p
    BY DEF Subs
  <1>8. PICK s : s = <<p>> \o q
    OBVIOUS
  <1>9. /\ s \in Seq(Subs)
        /\ Len(s) = n + 1
        /\ \A i \in 1..n + 1 : s[i] = IF i <= 1 THEN <<p>>[i] ELSE q[i - 1]
    BY <1>6, <1>7, <1>8, ConcatProperties
  <1>10. s[1] = p /\ \A i \in 1..n : s[i + 1] = q[i]
    BY <1>7, <1>9
  <1>11. Range(s) = {p} \cup A
    <2>1. DOMAIN s = 1..n + 1
      BY <1>9, LenProperties
    <2>2. ASSUME NEW i \in 1..n + 1 PROVE s[i] \in {p} \cup A
      BY <1>5, <1>7, <1>9
    <2>3. ASSUME NEW a \in A PROVE a \in Range(s)
      <3>1. PICK i \in 1..n : a = q[i]
        BY <1>5 DEF Range
      <3>2. i + 1 \in 1..n + 1 /\ s[i + 1] = a
        BY <1>10, <3>1
      <3> QED
        BY <2>1, <3>2 DEF Range
    <2>4. p \in Range(s)
      BY <1>10, <2>1 DEF Range
    <2> QED
      BY <2>1, <2>2, <2>3, <2>4 DEF Range
  <1>12. ASSUME NEW i \in 1..n + 1, NEW j \in 1..n + 1, i < j PROVE Before(p, s[i], s[j])
    <2>1. j - 1 \in 1..n /\ s[j] = q[j - 1] /\ s[j] \in A
      BY <1>5, <1>9, <1>12
    <2>2. CASE i = 1
      BY <1>2, <1>10, <2>1, <2>2 DEF Before
    <2>3. CASE i # 1
      <3>1. i - 1 \in 1..n /\ s[i] = q[i - 1] /\ i - 1 < j - 1
        BY <1>9, <1>12, <2>3
      <3> QED
        BY <1>2, <1>5, <2>1, <3>1 DEF Before
    <2> QED
      BY <2>2, <2>3
  <1>13. ShownSources(p) = s
    BY <1>1, <1>4, <1>8 DEF ShownSources, Capacious
  <1> QED
    BY <1>1, <1>9, <1>11, <1>12, <1>13

LEMMA MaxOfTwo == ASSUME NEW n \in Nat PROVE Max({0, n}) = n
  <1>1. \A y \in {0, n} : n >= y
    OBVIOUS
  <1>2. \A x \in {0, n} : (\A y \in {0, n} : x >= y) => x = n
    OBVIOUS
  <1> QED
    BY <1>1, <1>2 DEF Max

LEMMA LimitIsShown ==
  ASSUME QInv, LimitKnown PROVE ShownIsEnforced
  <1> SUFFICES ASSUME NEW p \in Packages, Regular(p)
               PROVE  LET d == getSlotDetails(p) IN
                      /\ getSubscriptionByCompany(p) = d.total_capacity
                      /\ getSlotBreakdown(p).totalSlots = d.total_capacity
                      /\ (~ d.is_unlimited /\ d.total_remaining <= 0)
                            <=> ~ (p \in uncapped \/ used[p] < total[p])
                      /\ recount[p] = "none" => (d.total_remaining < 0 <=> d.is_unlimited)
    BY DEF ShownIsEnforced
  <1>0. /\ IInv /\ edited = {}
        /\ unlimited = Unlimited /\ shown = Capacity /\ shownUnlimited = Unlimited
    BY DEF QInv, CInv, Unedited, Regular
  <1>1. Retained = {} /\ OnlyPackage(p) /\ recount[p] # "stale" /\ ActiveAddons \cap Unlimited = {}
    BY DEF Regular, Retained
  <1>2. PICK S : S = Sources(p)
    OBVIOUS
  <1>3. /\ p \in uncapped <=> S \cap Unlimited # {}
        /\ p \notin uncapped => total[p] = Cardinality(Units(Capacity, S))
    BY <1>0, <1>1, <1>2 DEF LimitKnown, IsLimit
  <1>4. S \in SUBSET Subs /\ IsFiniteSet(S)
    <2>1. Sources(p) \cup {} \in SUBSET Subs /\ IsFiniteSet(Sources(p) \cup {})
      BY <1>0, SourcesFinite
    <2> QED
      BY <1>2, <2>1
  <1>5. p \in uncapped <=> p \in Unlimited
    BY <1>1, <1>2, <1>3 DEF Sources
  <1>6. PICK c : c = FiniteCapacity(ShownSources(p))
    OBVIOUS
  <1>7. ASSUME p \notin Unlimited PROVE c = total[p] /\ total[p] \in Nat
    <2>1. PICK L : L = {p} \cup Capacious
      OBVIOUS
    <2>2. L \subseteq S /\ Range(ShownSources(p)) \ (Packages \cap Unlimited) = L
      BY <1>0, <1>2, <1>7, <2>1, ShownInOrder, SubsAssumption DEF Capacious, Sources, ActiveAddons
    <2>3. c = MapThenSumSet(LAMBDA s : Capacity[s], L)
      BY <1>0, <1>6, <2>2 DEF FiniteCapacity
    <2>4. L \in SUBSET Subs /\ IsFiniteSet(L)
      BY <1>4, <2>2, FS_Subset
    <2>5. Units(Capacity, L) = Units(Capacity, S)
      <3>1. ASSUME NEW s \in S \ L PROVE 1..Capacity[s] = {}
        <4>1. Capacity[s] \in Nat /\ ~ (Capacity[s] > 0)
          BY <1>0, <1>2, <1>4, <2>1, <3>1, CapacityAssumption DEF Sources, Capacious
        <4> QED
          BY <4>1
      <3> QED
        BY <2>2, <3>1 DEF Units
    <2>6. Cardinality(Units(Capacity, S)) \in Nat
      BY <1>4, CapacityAssumption, UnitsFinite, FS_CardinalityType
    <2> QED
      BY <1>3, <1>5, <1>7, <2>3, <2>4, <2>5, <2>6, CapacityAssumption, SumIsCount
  <1>8. PICK n \in Nat : n = used[p] /\ n = Max({0, used[p]})
    <2>1. used[p] = Cardinality(live) /\ used[p] \in Nat
      BY <1>0, <1>1, FS_CardinalityType DEF QInv, Counted, IInv, Regular
    <2> QED
      BY <2>1, MaxOfTwo
  <1>9. /\ getSlotDetails(p).is_unlimited = (p \in Unlimited)
        /\ getSlotDetails(p).total_capacity = IF p \in Unlimited THEN UNLIMITED_QUOTA ELSE c
        /\ getSlotDetails(p).total_remaining = IF p \in Unlimited THEN UNLIMITED_QUOTA ELSE c - n
    BY <1>0, <1>6, <1>8 DEF getSlotDetails
  <1>10. /\ getSubscriptionByCompany(p) = IF p \in uncapped THEN UNLIMITED_QUOTA ELSE total[p]
         /\ getSlotBreakdown(p).totalSlots = getSlotDetails(p).total_capacity
    BY DEF getSubscriptionByCompany, getQuotaDetails, getSlotBreakdown
  <1>11. CASE p \in Unlimited
    <2>1. getSlotDetails(p).total_remaining < 0
      BY <1>9, <1>11 DEF UNLIMITED_QUOTA
    <2> QED
      BY <1>5, <1>9, <1>10, <1>11, <2>1
  <1>12. CASE p \notin Unlimited
    <2>1. PICK m \in Nat : m = total[p] /\ c = m
      BY <1>7, <1>12
    <2>2. c - n <= 0 <=> ~ (n < m)
      BY <2>1
    <2>3. /\ getSlotDetails(p).total_remaining <= 0 <=> ~ (used[p] < total[p])
          /\ getSubscriptionByCompany(p) = getSlotDetails(p).total_capacity
      BY <1>5, <1>8, <1>9, <1>10, <1>12, <2>1, <2>2
    <2>4. ASSUME recount[p] = "none" PROVE ~ (getSlotDetails(p).total_remaining < 0)
      <3>1. used[p] <= total[p]
        BY <1>1, <1>5, <1>12, <2>4 DEF QInv, Guarded, Regular
      <3>2. ~ (c - n < 0)
        BY <1>8, <2>1, <3>1
      <3> QED
        BY <1>9, <1>12, <3>2
    <2> QED
      BY <1>5, <1>9, <1>10, <1>12, <2>3, <2>4, Zenon
  <1> QED
    BY <1>11, <1>12

-----------------------------------------------------------------------------
(* The attribution that is shown.  While every add-on bought is in force,   *)
(* and nothing was edited or released, the slots fill the sources one after the       *)
(* other: the package, then the add-ons oldest first.                       *)
Pristine(p) ==
    /\ edited = {}
    /\ OnlyPackage(p) /\ recount[p] = "none"
    /\ \A a \in Addons : status[a] \in {"NONE", "ACTIVE"}
    /\ ActiveAddons \cap Unlimited = {}
    /\ \A x \in SlotIds : ref[x] # NoRef => x \in live

InOrder(p) ==
    /\ used[p] = Cardinality(live)
    /\ \A x \in live : source[x] \in Sources(p)
    /\ p \notin Unlimited => Cardinality(SlotsOf(p)) <= Capacity[p]
    /\ \A s, t \in Sources(p) : Before(p, s, t) /\ SlotsOf(t) # {} => ~ HasRoom(s)

Chosen(p) ==
    \A a \in Assigners : asg[a].pc = "assigning" =>
        asg[a].source = Attributed(p) /\ HasRoom(Attributed(p))

FilledUp == \A p \in Packages : Pristine(p) => InOrder(p) /\ Chosen(p)

VInv == QInv /\ Started /\ LimitKnown /\ FilledUp

(* slotAssign attributes a slot to the first source with room, if any has.  *)
LEMMA AttributedFirst ==
  ASSUME NEW p \in Packages, NEW c \in Sources(p), HasRoom(c)
  PROVE  /\ Attributed(p) \in Sources(p) /\ HasRoom(Attributed(p))
         /\ \A s \in Sources(p) : Before(p, s, Attributed(p)) => ~ HasRoom(s)
  <1>1. PICK open : open = {s \in Sources(p) : HasRoom(s)}
    OBVIOUS
  <1>2. open \in SUBSET Nat /\ c \in open
    BY <1>1, SubsAssumption DEF Sources, ActiveAddons, Subs
  <1>3. Attributed(p) = IF p \in open THEN p ELSE Min(open)
    BY <1>1, <1>2 DEF Attributed
  <1>4. CASE p \in open
    BY <1>1, <1>3, <1>4 DEF Before
  <1>5. CASE p \notin open
    <2>1. Min(open) \in open /\ \A y \in open : Min(open) <= y
      BY <1>2, MinIsLeast
    <2>2. ASSUME NEW s \in open, Before(p, s, Min(open)) PROVE FALSE
      <3>1. PICK m \in open : m = Min(open)
        BY <2>1
      <3>2. s # p /\ m <= s /\ m \in Nat /\ s \in Nat
        BY <1>2, <1>5, <2>1, <3>1
      <3> QED
        BY <2>2, <3>1, <3>2 DEF Before
    <2> QED
      BY <1>1, <1>3, <1>5, <2>1, <2>2
  <1> QED
    BY <1>4, <1>5

(* Sources that are full hold as many slots as they give.                   *)
LEMMA FullHold ==
  ASSUME IsFiniteSet(live), NEW S \in SUBSET Subs, IsFiniteSet(S),
         \A s \in S : Capacity[s] <= Cardinality(SlotsOf(s))
  PROVE  Cardinality(Units(Capacity, S)) <= Cardinality({x \in live : source[x] \in S})
  <1> DEFINE Of(s) == {x \in live : source[x] \in s}
             T == {s \in SUBSET S : ~ (Cardinality(Units(Capacity, s)) <= Cardinality(Of(s)))}
  <1> SUFFICES ASSUME T # {} PROVE FALSE
    OBVIOUS
  <1>1. PICK t \in T : \A u \in T : u \subseteq t => u = t
    <2>1. T \in SUBSET (SUBSET S)
      OBVIOUS
    <2> HIDE DEF T
    <2> QED
      BY <2>1, LeastSubset
  <1>2. CASE t = {}
    <2>1. Units(Capacity, t) = {} /\ Of(t) = {}
      BY <1>2 DEF Units
    <2>2. Cardinality(Units(Capacity, t)) = 0 /\ Cardinality(Of(t)) = 0
      BY <2>1, FS_EmptySet
    <2> QED
      BY <2>2
  <1>3. ASSUME NEW c \in t PROVE FALSE
    <2>1. PICK u : u = t \ {c}
      OBVIOUS
    <2>2. u \in SUBSET Subs /\ IsFiniteSet(u) /\ c \in Subs \ u /\ t = u \cup {c}
      BY <2>1, FS_Subset
    <2>3. Cardinality(Units(Capacity, u)) <= Cardinality(Of(u))
      BY <1>1, <1>3, <2>1
    <2>4. Cardinality(Units(Capacity, t)) = Capacity[c] + Cardinality(Units(Capacity, u))
      BY <2>2, CapacityAssumption, UnitsOfMore
    <2>5. Of(t) = Of(u) \cup SlotsOf(c) /\ Of(u) \cap SlotsOf(c) = {}
      BY <2>2 DEF SlotsOf
    <2>6. IsFiniteSet(Of(u)) /\ IsFiniteSet(SlotsOf(c))
      BY FS_Subset DEF SlotsOf
    <2>7. Cardinality(Of(t)) = Cardinality(Of(u)) + Cardinality(SlotsOf(c))
      <3> HIDE DEF Of
      <3>1. Cardinality(Of(t)) =
              Cardinality(Of(u)) + Cardinality(SlotsOf(c)) - Cardinality(Of(u) \cap SlotsOf(c))
        BY <2>5, <2>6, FS_Union
      <3>2. Cardinality(Of(u) \cap SlotsOf(c)) = 0
        BY <2>5, FS_EmptySet
      <3>3. Cardinality(Of(u)) \in Nat /\ Cardinality(SlotsOf(c)) \in Nat
        BY <2>6, FS_CardinalityType
      <3> QED
        BY <3>1, <3>2, <3>3
    <2>8. /\ Cardinality(Of(u)) \in Nat /\ Cardinality(SlotsOf(c)) \in Nat
          /\ Cardinality(Units(Capacity, u)) \in Nat /\ Capacity[c] \in Nat
      BY <2>2, <2>6, UnitsFinite, FS_CardinalityType, CapacityAssumption
    <2>9. Capacity[c] <= Cardinality(SlotsOf(c)) /\ ~ (Cardinality(Units(Capacity, t)) <= Cardinality(Of(t)))
      BY <1>1, <1>3
    <2> HIDE DEF Of, T
    <2> QED
      BY <2>3, <2>4, <2>7, <2>8, <2>9
  <1> QED
    BY <1>2, <1>3

(* An account that slotAssign does not refuse has a source with room.       *)
LEMMA RoomLeft ==
  ASSUME VInv, NEW p \in Packages, Pristine(p), p \in uncapped \/ used[p] < total[p]
  PROVE  HasRoom(Attributed(p))
  <1>0. IInv /\ edited = {} /\ capacity = Capacity /\ unlimited = Unlimited
    BY DEF VInv, QInv, CInv, Unedited, Pristine
  <1>1. SUFFICES \E s \in Sources(p) : HasRoom(s)
    BY AttributedFirst
  <1>2. PICK S : S = Sources(p)
    OBVIOUS
  <1>3. /\ p \in uncapped <=> S \cap Unlimited # {}
        /\ p \notin uncapped => total[p] = Cardinality(Units(Capacity, S))
    <2>1. Retained = {} /\ OnlyPackage(p) /\ recount[p] # "stale"
      BY DEF Pristine, Retained
    <2> QED
      BY <1>0, <1>2, <2>1 DEF VInv, LimitKnown, IsLimit
  <1>4. CASE p \in uncapped
    BY <1>0, <1>2, <1>3, <1>4 DEF HasRoom
  <1>5. CASE p \notin uncapped
    <2> SUFFICES ASSUME \A s \in S : ~ HasRoom(s) PROVE FALSE
      BY <1>2
    <2>1. S \in SUBSET Subs /\ IsFiniteSet(S)
      <3>1. Sources(p) \cup {} \in SUBSET Subs /\ IsFiniteSet(Sources(p) \cup {})
        BY <1>0, SourcesFinite
      <3> QED
        BY <1>2, <3>1
    <2>2. IsFiniteSet(live) /\ used[p] = Cardinality(live) /\ \A x \in live : source[x] \in S
      BY <1>0, <1>2 DEF VInv, IInv, FilledUp, InOrder
    <2>3. ASSUME NEW s \in S PROVE Capacity[s] <= Cardinality(SlotsOf(s))
      <3>1. Cardinality(SlotsOf(s)) \in Nat /\ Capacity[s] \in Nat
        BY <2>1, <2>2, FS_Subset, FS_CardinalityType, CapacityAssumption DEF SlotsOf
      <3> QED
        BY <1>0, <3>1 DEF HasRoom
    <2>4. {x \in live : source[x] \in S} = live
      BY <2>2
    <2>5. Cardinality(Units(Capacity, S)) <= Cardinality(live)
      BY <2>1, <2>2, <2>3, <2>4, FullHold
    <2>6. Cardinality(Units(Capacity, S)) \in Nat /\ Cardinality(live) \in Nat
      BY <2>1, <2>2, CapacityAssumption, UnitsFinite, FS_CardinalityType
    <2> QED
      BY <1>3, <1>5, <2>2, <2>5, <2>6
  <1> QED
    BY <1>4, <1>5

(* One lemma per kind of step.                                              *)
LEMMA PristineBefore ==
  ASSUME IInv, [Next]_vars, ~ \E b \in Packages : BuyPackage(b),
         NEW p \in Packages, Pristine(p)'
  PROVE  /\ Pristine(p)
         /\ \A q \in Packages : status[q] # "NONE" => q = p
         /\ \A a \in Addons : status[a] # "NONE" => status'[a] = "ACTIVE"
  <1>0. edited = {}
    BY EditsOnly DEF Pristine, EditPlan, planVars
  <1>1. OnlyPackage(p)
    BY OnlyBefore DEF Pristine
  <1>2. recount[p] = "none"
    <2>1. CASE \E w \in Sweepers : Reconcile(w)
      BY <2>1 DEF Reconcile, Pristine, IInv, TypeOK
    <2>2. CASE recount' = recount
      BY <2>2 DEF Pristine
    <2> QED
      BY <2>1, <2>2 DEF Next, vars, EditPlan, Assign, Release, Sweep, GracePasses,
         BuyPackage, BuyAddon, Cancel, Hold, EnforceGrace,
         BeginAssign, LockQuota, CommitAssign, RollBackAssign, BeginRelease, DeleteSlot,
         CommitRelease, RollBackRelease, ReadExpired, Revoke, EmitExpired, LoseSweep
  <1>3. \A a \in Addons : status[a] # "NONE" => status'[a] = "ACTIVE"
    BY Bought DEF Pristine, Subs
  <1>4. ASSUME NEW a \in Addons, status[a] # "NONE" PROVE status[a] = "ACTIVE"
    <2>1. status'[a] = "ACTIVE" /\ a \in Subs /\ a \notin Packages /\ status \in [Subs -> Statuses]
      BY <1>3, <1>4, SubsAssumption DEF IInv, TypeOK, Subs
    <2>2. CASE \E b \in Addons : BuyAddon(b)
      BY <1>4, <2>1, <2>2 DEF BuyAddon
    <2>3. CASE \E s \in Subs : Cancel(s) \/ Hold(s)
      BY <2>1, <2>3 DEF Cancel, Hold
    <2>4. CASE \E q \in Packages : EnforceGrace(q)
      BY <2>1, <2>4 DEF EnforceGrace
    <2>5. CASE \E w \in Sweepers : Reconcile(w)
      BY <2>1, <2>5 DEF Reconcile
    <2>6. CASE status' = status
      BY <2>1, <2>6
    <2> QED
      BY <2>2, <2>3, <2>4, <2>5, <2>6 DEF Next, vars, EditPlan, Assign, Release, Sweep, GracePasses,
         BeginAssign, LockQuota, CommitAssign, RollBackAssign, BeginRelease, DeleteSlot,
         CommitRelease, RollBackRelease, ReadExpired, Revoke, EmitExpired, LoseSweep
  <1>5. ActiveAddons \cap Unlimited = {}
    BY <1>3 DEF Pristine, ActiveAddons
  <1>6. \A x \in SlotIds : ref[x] # NoRef => x \in live
    BY Inserted DEF Pristine
  <1>7. \A q \in Packages : status[q] # "NONE" => q = p
    BY <1>1 DEF OnlyPackage
  <1> QED
    BY <1>0, <1>1, <1>2, <1>3, <1>4, <1>5, <1>6, <1>7 DEF Pristine

(* A first package has no slot yet.                                         *)
LEMMA BuyPackageFills ==
  ASSUME VInv, NEW b \in Packages, BuyPackage(b), NEW p \in Packages, Pristine(p)'
  PROVE  InOrder(p)' /\ Chosen(p)'
  <1> USE DEF VInv, QInv, CInv, IInv
  <1>1. /\ status'[b] = "ACTIVE"
        /\ \A q \in Packages : status[q] # "NONE" => status'[q] # "NONE"
        /\ UNCHANGED <<used, slotVars, asg>>
    BY DEF BuyPackage, Subs
  <1>2. p = b /\ \A q \in Packages : status[q] = "NONE"
    BY <1>1 DEF OnlyPackage, Pristine, BuyPackage
  <1>3. live' = {} /\ used'[p] = 0
    BY <1>1, <1>2, NoRefAssumption DEF Started, slotVars, TypeOK
  <1>4. \A s : SlotsOf(s)' = {}
    BY <1>3 DEF SlotsOf
  <1>5. Capacity[p] \in Nat
    BY CapacityAssumption DEF Subs
  <1>6. InOrder(p)'
    <2>1. used'[p] = Cardinality(live') /\ \A x \in live' : source'[x] \in Sources(p)'
      BY <1>3, FS_EmptySet
    <2>2. Cardinality(SlotsOf(p)') <= Capacity[p]
      BY <1>4, <1>5, FS_EmptySet
    <2>3. \A t \in Sources(p)' : SlotsOf(t)' = {}
      BY <1>4
    <2> QED
      BY <2>1, <2>2, <2>3 DEF InOrder
  <1>7. \A a \in Assigners : asg'[a].pc = "idle"
    BY <1>1, <1>2 DEF Assigning
  <1> QED
    BY <1>6, <1>7 DEF Chosen

(* A new add-on comes last, and no assignment is under way.                 *)
LEMMA BuyAddonFills ==
  ASSUME VInv, NEW c \in Addons, BuyAddon(c), NEW p \in Packages, Pristine(p),
         \A q \in Packages : status[q] # "NONE" => q = p
  PROVE  InOrder(p)' /\ Chosen(p)'
  <1> USE DEF VInv, QInv, CInv, IInv
  <1>1. /\ status[c] = "NONE" /\ status'[c] = "ACTIVE"
        /\ \A a \in Addons \ {c} : status'[a] = status[a]
        /\ UNCHANGED <<capacity, unlimited, used, live, source, asg>>
    BY DEF BuyAddon, planVars, slotVars, TypeOK, Subs
  <1>2. Sources(p)' = Sources(p) \cup {c} /\ c \notin Sources(p)
    BY <1>1, SubsAssumption DEF Sources, ActiveAddons
  <1>3. InOrder(p)
    BY DEF FilledUp
  <1>4. SlotsOf(c) = {}
    BY <1>2, <1>3 DEF InOrder, SlotsOf
  <1>5. \A s : SlotsOf(s)' = SlotsOf(s) /\ (HasRoom(s)' <=> HasRoom(s))
    BY <1>1 DEF SlotsOf, HasRoom
  <1>6. ASSUME NEW t \in Sources(p), Before(p, c, t) PROVE FALSE
    <2>1. t \in BoughtAddons /\ c < t
      BY <1>6, SubsAssumption DEF Before, Sources, ActiveAddons, BoughtAddons
    <2> QED
      BY <1>1, <2>1 DEF Started, BoughtAddons
  <1>7. InOrder(p)'
    <2>1. used'[p] = Cardinality(live') /\ \A x \in live' : source'[x] \in Sources(p)'
      BY <1>1, <1>2, <1>3 DEF InOrder
    <2>2. p \notin Unlimited => Cardinality(SlotsOf(p)') <= Capacity[p]
      BY <1>3, <1>5 DEF InOrder
    <2>3. ASSUME NEW s \in Sources(p)', NEW t \in Sources(p)',
                 Before(p, s, t), SlotsOf(t)' # {}
          PROVE  ~ HasRoom(s)'
      <3>1. t \in Sources(p) /\ s \in Sources(p) /\ SlotsOf(t) # {}
        BY <1>2, <1>4, <1>5, <1>6, <2>3
      <3> QED
        BY <1>3, <1>5, <2>3, <3>1 DEF InOrder
    <2> QED
      BY <2>1, <2>2, <2>3 DEF InOrder, Before
  <1>8. ASSUME NEW a \in Assigners, asg[a].pc = "assigning" PROVE FALSE
    <2>1. asg[a].package = p
      BY <1>8 DEF Assigning
    <2>2. ~ Locked(p)
      BY DEF BuyAddon
    <2> QED
      BY <1>8, <2>1, <2>2 DEF Locked
  <1> QED
    BY <1>1, <1>7, <1>8 DEF Chosen

(* An assignment fills the first source with room.                          *)
LEMMA CommitAssignFills ==
  ASSUME VInv, NEW a \in Assigners, CommitAssign(a), NEW p \in Packages, Pristine(p),
         \A q \in Packages : status[q] # "NONE" => q = p
  PROVE  InOrder(p)' /\ Chosen(p)'
  <1> USE DEF VInv, QInv, CInv, IInv
  <1>0. /\ capacity = Capacity /\ unlimited = Unlimited
        /\ capacity' = Capacity /\ unlimited' = Unlimited
    BY DEF Unedited, Pristine, CommitAssign, planVars
  <1>1. InOrder(p) /\ Chosen(p)
    BY DEF FilledUp
  <1>2. PICK c : c = Attributed(p)
    OBVIOUS
  <1>3. asg[a].pc = "assigning" /\ asg[a].package = p /\ asg[a].source = c /\ HasRoom(c)
    BY <1>1, <1>2 DEF CommitAssign, Assigning, Chosen
  <1>4. c \in Sources(p) /\ \A s \in Sources(p) : Before(p, s, c) => ~ HasRoom(s)
    <2>1. PICK s \in Sources(p) : HasRoom(s)
      BY <1>2, <1>3, AttributedHasRoom DEF Sources
    <2> QED
      BY <1>2, <2>1, AttributedFirst
  <1>5. PICK x \in SlotIds : /\ ref[x] = NoRef
                             /\ live' = live \cup {x}
                             /\ source' = [source EXCEPT ![x] = c]
    BY <1>3 DEF CommitAssign
  <1>6. x \notin live
    BY <1>5, NoRefAssumption
  <1>7. /\ SlotsOf(c)' = SlotsOf(c) \cup {x} /\ x \notin SlotsOf(c)
        /\ \A s : s # c => SlotsOf(s)' = SlotsOf(s)
    BY <1>5, <1>6 DEF SlotsOf, TypeOK
  <1>8. /\ used'[p] = used[p] + 1
        /\ Sources(p)' = Sources(p)
        /\ asg' = [asg EXCEPT ![a] = NoAssign]
    BY <1>3 DEF CommitAssign, TypeOK, Sources, ActiveAddons
  <1>9. ASSUME NEW s \in Sources(p)
        PROVE  /\ Cardinality(SlotsOf(s)) \in Nat /\ Capacity[s] \in Nat
               /\ Cardinality(SlotsOf(s)') = IF s = c THEN Cardinality(SlotsOf(s)) + 1
                                             ELSE Cardinality(SlotsOf(s))
    <2>1. IsFiniteSet(SlotsOf(s)) /\ s \in Subs
      BY FS_Subset DEF SlotsOf, Sources, ActiveAddons, Subs
    <2> QED
      BY <1>7, <2>1, FS_AddElement, FS_CardinalityType, CapacityAssumption
  <1>10. ASSUME NEW s \in Sources(p), ~ HasRoom(s) PROVE ~ HasRoom(s)'
    BY <1>0, <1>9, <1>10 DEF HasRoom
  <1>11. used'[p] = Cardinality(live')
    <2>1. Cardinality(live') = Cardinality(live) + 1
      BY <1>5, <1>6, FS_AddElement
    <2> QED
      BY <1>1, <1>8, <2>1 DEF InOrder
  <1>12. \A y \in live' : source'[y] \in Sources(p)
    BY <1>1, <1>4, <1>5 DEF InOrder, TypeOK
  <1>13. ASSUME p \notin Unlimited PROVE Cardinality(SlotsOf(p)') <= Capacity[p]
    <2>1. p \in Sources(p) /\ Cardinality(SlotsOf(p)) <= Capacity[p]
      BY <1>1, <1>13 DEF InOrder, Sources
    <2>2. c = p => Cardinality(SlotsOf(p)) < Capacity[p]
      BY <1>0, <1>3, <1>13 DEF HasRoom
    <2> QED
      BY <1>9, <2>1, <2>2
  <1>14. ASSUME NEW s \in Sources(p), NEW t \in Sources(p), Before(p, s, t), SlotsOf(t)' # {}
         PROVE  ~ HasRoom(s)'
    <2>1. CASE t = c
      BY <1>4, <1>10, <1>14, <2>1
    <2>2. CASE t # c
      BY <1>1, <1>7, <1>10, <1>14, <2>2 DEF InOrder
    <2> QED
      BY <2>1, <2>2
  <1>15. \A b \in Assigners : asg'[b].pc # "assigning"
    <2>1. NeverSwitched
      BY DEF NeverSwitched
    <2>2. \A b \in Assigners : asg[b].pc = "assigning" => b = a
      BY <1>3, <2>1 DEF Room
    <2> QED
      BY <1>8, <2>2 DEF TypeOK, NoAssign
  <1> QED
    BY <1>8, <1>11, <1>12, <1>13, <1>14, <1>15 DEF InOrder, Chosen, Before

(* The check under the lock leaves room for the slot.                       *)
LEMMA LockQuotaFills ==
  ASSUME VInv, NEW a \in Assigners, LockQuota(a), NEW p \in Packages, Pristine(p),
         \A q \in Packages : status[q] # "NONE" => q = p
  PROVE  InOrder(p)' /\ Chosen(p)'
  <1>1. UNCHANGED <<capacity, unlimited, status, used, live, source>>
    BY DEF LockQuota, planVars, quotaVars, slotVars
  <1>2. /\ asg[a].package = p /\ (p \in uncapped \/ used[p] < total[p])
        /\ asg'[a].source = Attributed(p)
        /\ \A b \in Assigners \ {a} : asg'[b] = asg[b]
    BY DEF LockQuota, VInv, QInv, CInv, IInv, TypeOK, Assigning
  <1>3. HasRoom(Attributed(p)) /\ InOrder(p) /\ Chosen(p)
    BY <1>2, RoomLeft DEF VInv, FilledUp
  <1>4. PICK c : c = Attributed(p) /\ c = Attributed(p)' /\ HasRoom(c) /\ HasRoom(c)'
    BY <1>1, <1>3 DEF Attributed, HasRoom, SlotsOf, Sources, ActiveAddons
  <1>5. InOrder(p)'
    BY <1>1, <1>3 DEF InOrder, SlotsOf, HasRoom, Sources, ActiveAddons
  <1>6. Chosen(p)'
    BY <1>2, <1>3, <1>4 DEF Chosen
  <1> QED
    BY <1>5, <1>6

LEMMA NextFilledUp == ASSUME VInv, [Next]_vars PROVE FilledUp'
  <1> USE DEF VInv, QInv, CInv, IInv
  <1> SUFFICES ASSUME NEW p \in Packages, Pristine(p)' PROVE InOrder(p)' /\ Chosen(p)'
    BY DEF FilledUp
  <1>1. CASE \E b \in Packages : BuyPackage(b)
    BY <1>1, BuyPackageFills
  <1>2. CASE ~ \E b \in Packages : BuyPackage(b)
    <2>1. /\ Pristine(p)
          /\ \A q \in Packages : status[q] # "NONE" => q = p
          /\ \A a \in Addons : status[a] # "NONE" => status'[a] = "ACTIVE"
      BY <1>2, PristineBefore
    <2>2. status[p] = "ACTIVE" /\ status'[p] = "ACTIVE" /\ status \in [Subs -> Statuses]
      BY <2>1 DEF Pristine, OnlyPackage, TypeOK
    <2>3. CASE \E a \in Addons : BuyAddon(a)
      BY <2>1, <2>3, BuyAddonFills
    <2>4. CASE \E a \in Assigners : CommitAssign(a)
      BY <2>1, <2>4, CommitAssignFills
    <2>5. CASE \E a \in Assigners : LockQuota(a)
      BY <2>1, <2>5, LockQuotaFills
    <2>6. ASSUME NEW s \in Subs, Cancel(s) \/ Hold(s) PROVE FALSE
      <3>1. status[s] # "NONE" /\ status'[s] # "ACTIVE"
        BY <2>2, <2>6 DEF Cancel, Hold
      <3> QED
        BY <2>1, <2>2, <3>1 DEF Subs
    <2>7. ASSUME NEW e \in Packages, EnforceGrace(e) PROVE FALSE
      BY <2>1, <2>2, <2>7 DEF EnforceGrace
    <2>8. ASSUME NEW r \in Releasers, CommitRelease(r) PROVE FALSE
      <3>1. PICK x \in SlotIds : rel[r].slots = {x} /\ ref[x] # NoRef
        BY <2>8 DEF CommitRelease, Started
      <3> QED
        BY <2>8, <3>1 DEF CommitRelease, Pristine
    <2>9. ASSUME NEW w \in Sweepers, Reconcile(w) PROVE FALSE
      <3>1. swp[w].package = p
        BY <2>1, <2>9 DEF Reconcile, Started, Sweeping
      <3> QED
        BY <2>9, <3>1 DEF Reconcile, Pristine, TypeOK
    <2>10. CASE /\ UNCHANGED <<capacity, unlimited, status, used, live, source>>
                /\ \A a \in Assigners : asg'[a].pc = "assigning" => asg'[a] = asg[a]
      <3>1. InOrder(p) /\ Chosen(p)
        BY <2>1 DEF FilledUp
      <3>2. InOrder(p)'
        BY <2>10, <3>1 DEF InOrder, SlotsOf, HasRoom, Sources, ActiveAddons
      <3>3. PICK c : c = Attributed(p) /\ c = Attributed(p)' /\ (HasRoom(c) <=> HasRoom(c)')
        BY <2>10 DEF Attributed, HasRoom, SlotsOf, Sources, ActiveAddons
      <3>4. Chosen(p)'
        BY <2>10, <3>1, <3>3 DEF Chosen
      <3> QED
        BY <3>2, <3>4
    <2>11. CASE \E a \in Assigners :
                  RollBackAssign(a) \/ \E q \in Packages, c \in Refs : BeginAssign(a, q, c)
      <3>1. /\ UNCHANGED <<capacity, unlimited, status, used, live, source>>
            /\ \A a \in Assigners : asg'[a].pc = "assigning" => asg'[a] = asg[a]
        BY <2>11, QuietAssign DEF RollBackAssign, BeginAssign, planVars, quotaVars
      <3> QED
        BY <2>10, <3>1
    <2>12. CASE UNCHANGED <<capacity, unlimited, status, used, live, source, asg>>
      BY <2>10, <2>12
    <2>13. ASSUME NEW s \in Subs, EditPlan(s) PROVE FALSE
      BY <2>13 DEF EditPlan, Pristine
    <2> QED
      BY <1>2, <2>3, <2>4, <2>5, <2>6, <2>7, <2>8, <2>9, <2>11, <2>12, <2>13
         DEF Next, vars, planVars, quotaVars, slotVars, Assign, Release, Sweep, GracePasses,
             BeginRelease, DeleteSlot, RollBackRelease, ReadExpired, Revoke, EmitExpired, LoseSweep
  <1> QED
    BY <1>1, <1>2

LEMMA ViewInvariance == Spec => []VInv
  <1>1. Init => VInv
    <2> SUFFICES ASSUME Init PROVE LimitKnown /\ FilledUp
      BY InitCInv, InitQuota, InitStarted DEF VInv, QInv
    <2>1. \A p \in Packages : ~ OnlyPackage(p)
      BY DEF Init, OnlyPackage, Subs
    <2> QED
      BY <2>1 DEF LimitKnown, FilledUp, Pristine
  <1>2. VInv /\ [Next]_vars => VInv'
    <2> SUFFICES ASSUME VInv, [Next]_vars PROVE VInv'
      OBVIOUS
    <2>1. QInv' /\ Started' /\ LimitKnown'
      BY NextQInv, NextStarted, NextLimit DEF VInv, QInv, CInv
    <2> QED
      BY <2>1, NextFilledUp DEF VInv
  <1> QED
    BY <1>1, <1>2, PTL DEF Spec

(* What is left of the used slots, source after source, is a function of    *)
(* which there is only one.                                                 *)
Leaves(q, n, w) ==
    /\ w = [i \in 0..Len(q) |-> w[i]]
    /\ w[0] = Max({0, n})
    /\ \A i \in 1..Len(q) : w[i] = w[i - 1] - Takes(q[i], w[i - 1])

Drains(q, w) == [i \in 1..Len(q) |-> [source |-> q[i], used |-> Takes(q[i], w[i - 1])]]

LEMMA Drained ==
  ASSUME NEW q \in Seq(Subs), NEW n, NEW w, Leaves(q, n, w)
  PROVE  drainSources(q, n) = Drains(q, w)
  <1> USE DEF Leaves, Drains
  <1> DEFINE drains(g) ==
                g = [i \in 0..Len(q) |-> IF i = 0 THEN Max({0, n}) ELSE g[i - 1] - Takes(q[i], g[i - 1])]
  <1>1. PICK m \in Nat : m = Len(q)
    BY LenProperties
  <1>2. drainSources(q, n) =
            [i \in 1..Len(q) |->
                [source |-> q[i], used |-> Takes(q[i], (CHOOSE g : drains(g))[i - 1])]]
    BY DEF drainSources
  <1>3. drains(w)
    <2>1. ASSUME NEW i \in 0..m
          PROVE  w[i] = IF i = 0 THEN Max({0, n}) ELSE w[i - 1] - Takes(q[i], w[i - 1])
      <3>1. CASE i = 0
        BY <3>1
      <3>2. CASE i # 0
        BY <1>1, <3>2
      <3> QED
        BY <3>1, <3>2
    <2> QED
      BY <1>1, <2>1
  <1>4. ASSUME NEW g, drains(g) PROVE g = w
    <2>1. \A i \in 0..m : g[i] = IF i = 0 THEN Max({0, n}) ELSE g[i - 1] - Takes(q[i], g[i - 1])
      BY <1>1, <1>4
    <2>2. PICK B : B = {i \in 0..m : g[i] # w[i]}
      OBVIOUS
    <2>3. B = {}
      <3> SUFFICES ASSUME B # {} PROVE FALSE
        OBVIOUS
      <3>1. PICK k \in B : \A i \in B : k <= i
        <4>1. B \in SUBSET Nat
          BY <2>2
        <4>2. Min(B) \in B /\ \A i \in B : Min(B) <= i
          BY <4>1, MinIsLeast
        <4> QED
          BY <4>2
      <3>2. k # 0
        BY <2>1, <2>2, <3>1
      <3>3. k \in 1..m /\ k - 1 \in 0..m /\ k - 1 \notin B
        <4> HIDE DEF Leaves, Drains, drains
        <4>1. k \in 0..m
          BY <2>2, <3>1
        <4>2. k \in 1..m /\ k - 1 \in 0..m /\ ~ (k <= k - 1)
          BY <1>1, <3>2, <4>1
        <4> QED
          BY <3>1, <4>2
      <3>4. g[k - 1] = w[k - 1]
        BY <2>2, <3>3
      <3> QED
        BY <1>1, <2>1, <2>2, <3>1, <3>2, <3>3, <3>4
    <2>4. \A i \in 0..m : g[i] = w[i]
      BY <2>2, <2>3
    <2>5. g = [i \in 0..Len(q) |-> g[i]]
      BY <1>4
    <2> HIDE DEF drains
    <2> QED
      BY <1>1, <2>4, <2>5
  <1> HIDE DEF drains
  <1>5. (CHOOSE g : drains(g)) = w
    BY <1>3, <1>4
  <1> QED
    BY <1>2, <1>5

LEMMA MinOfTwo ==
  ASSUME NEW a \in Nat, NEW b \in Nat PROVE Min({a, b}) = IF a <= b THEN a ELSE b
  <1>1. Min({a, b}) \in {a, b} /\ \A y \in {a, b} : Min({a, b}) <= y
    BY MinIsLeast
  <1> QED
    BY <1>1

LEMMA AttributionIsShown == ASSUME VInv PROVE ShownAsAttributed
  <1>0. /\ IInv /\ AddonWithinCapacity /\ FilledUp
        /\ IsFiniteSet(live)
    BY DEF VInv, QInv, CInv, IInv
  <1> SUFFICES ASSUME NEW p \in Packages, Regular(p), recount[p] = "none",
                      \A a \in Addons : status[a] # "EXPIRED",
                      \A x \in SlotIds : ref[x] # NoRef => x \in live
               PROVE  \A e \in Range(getSlotDetails(p).sources) :
                          e.used = Cardinality(SlotsOf(e.source))
    BY DEF ShownAsAttributed
  <1>18. /\ unlimited = Unlimited /\ shown = Capacity /\ shownUnlimited = Unlimited
        /\ edited = {} /\ capacity = Capacity
    BY DEF VInv, QInv, CInv, Unedited, Regular
  <1>1. /\ InOrder(p) /\ NeverSwitched
        /\ ActiveAddons \cap Unlimited = {}
    <2>1. Pristine(p)
      BY DEF Pristine, Regular
    <2>2. NeverSwitched
      BY DEF Regular, OnlyPackage, NeverSwitched
    <2> QED
      BY <1>0, <2>1, <2>2 DEF FilledUp, Regular
  <1>2. PICK q : q = ShownSources(p)
    OBVIOUS
  <1>3. /\ q \in Seq(Subs) /\ Range(q) = {p} \cup Capacious
        /\ \A i, j \in 1..Len(q) : i < j => Before(p, q[i], q[j])
    BY <1>0, <1>2, ShownInOrder
  <1>4. PICK n \in Nat : n = Len(q) /\ DOMAIN q = 1..n /\ \A i \in 1..n : q[i] \in Subs
    BY <1>3, LenProperties, ElementOfSeq
  <1>5. \A i \in 1..n : q[i] \in Sources(p) /\ (q[i] \in Unlimited => q[i] = p)
    <2>1. ASSUME NEW i \in 1..n PROVE q[i] \in {p} \cup Capacious
      BY <1>3, <1>4 DEF Range
    <2> QED
      BY <1>1, <2>1 DEF Capacious, Sources
  <1>6. ASSUME NEW i \in 1..n, NEW j \in 1..n, i # j PROVE q[i] # q[j]
    <2>1. Before(p, q[i], q[j]) \/ Before(p, q[j], q[i])
      BY <1>3, <1>4, <1>6
    <2>2. q[i] \in Nat /\ q[j] \in Nat
      BY <1>4, SubsAssumption
    <2> QED
      BY <2>1, <2>2 DEF Before
  <1> DEFINE Rest(i) == {x \in live : \A j \in 1..i : source[x] # q[j]}
  <1>7. ASSUME NEW i \in 0..n PROVE IsFiniteSet(Rest(i)) /\ Cardinality(Rest(i)) \in Nat
    BY <1>0, FS_Subset, FS_CardinalityType
  <1>8. ASSUME NEW s PROVE IsFiniteSet(SlotsOf(s)) /\ Cardinality(SlotsOf(s)) \in Nat
    BY <1>0, FS_Subset, FS_CardinalityType DEF SlotsOf
  <1>9. ASSUME NEW i \in 1..n
        PROVE  Cardinality(Rest(i - 1)) = Cardinality(Rest(i)) + Cardinality(SlotsOf(q[i]))
    <2>1. Rest(i - 1) = Rest(i) \cup SlotsOf(q[i]) /\ Rest(i) \cap SlotsOf(q[i]) = {}
      <3>1. \A j \in 1..i - 1 : j \in 1..n /\ q[j] # q[i]
        BY <1>6
      <3>2. 1..i = (1..i - 1) \cup {i}
        OBVIOUS
      <3> QED
        BY <3>1, <3>2 DEF SlotsOf
    <2>2. i \in 0..n
      OBVIOUS
    <2>3. PICK R, Z : R = Rest(i) /\ Z = SlotsOf(q[i])
      OBVIOUS
    <2>4. IsFiniteSet(R) /\ IsFiniteSet(Z) /\ Cardinality(R) \in Nat /\ Cardinality(Z) \in Nat
      BY <1>7, <1>8, <2>2, <2>3
    <2>5. Cardinality(R \cap Z) = 0
      BY <2>1, <2>3, FS_EmptySet
    <2>6. Cardinality(R \cup Z) = Cardinality(R) + Cardinality(Z)
      <3>1. Cardinality(R \cup Z) = Cardinality(R) + Cardinality(Z) - Cardinality(R \cap Z)
        BY <2>4, FS_Union
      <3> QED
        BY <2>4, <2>5, <3>1
    <2> QED
      BY <2>1, <2>3, <2>6
  <1>10. ASSUME NEW i \in 1..n, HasRoom(q[i]) PROVE Rest(i) = {}
    <2> SUFFICES ASSUME NEW x \in Rest(i) PROVE FALSE
      OBVIOUS
    <2>1. PICK t \in Sources(p) : t = source[x] /\ x \in SlotsOf(t)
      BY <1>1 DEF InOrder, SlotsOf
    <2>2. t \in {p} \cup Capacious
      <3> SUFFICES ASSUME t \in ActiveAddons PROVE Capacity[t] > 0
        BY <1>18, <2>1 DEF Sources, Capacious
      <3>1. t \in Addons \ Unlimited
        BY <1>1 DEF ActiveAddons
      <3>2. Cardinality(SlotsOf(t)) <= Capacity[t] /\ Capacity[t] \in Nat
        BY <1>0, <1>1, <1>18, <3>1, CapacityAssumption DEF AddonWithinCapacity, Subs
      <3>3. Cardinality(SlotsOf(t)) # 0
        BY <1>8, <2>1, FS_EmptySet
      <3> QED
        BY <1>8, <3>2, <3>3
    <2>3. PICK k \in 1..n : t = q[k]
      BY <1>3, <1>4, <2>2 DEF Range
    <2>4. ~ (k <= i)
      <3> SUFFICES ASSUME k \in 1..i PROVE FALSE
        OBVIOUS
      <3> QED
        BY <2>1, <2>3
    <2>5. Before(p, q[i], t)
      BY <1>3, <1>4, <2>3, <2>4
    <2> QED
      BY <1>1, <1>5, <1>10, <2>1, <2>5 DEF InOrder
  <1>11. ASSUME NEW i \in 1..n
         PROVE  Takes(q[i], Cardinality(Rest(i - 1))) = Cardinality(SlotsOf(q[i]))
    <2>1. PICK c \in Nat : c = Capacity[q[i]]
      BY <1>4, CapacityAssumption
    <2>2. PICK m \in Nat : m = Cardinality(SlotsOf(q[i]))
      BY <1>8
    <2>3. PICK k \in Nat : k = Cardinality(Rest(i))
      <3>1. i \in 0..n
        OBVIOUS
      <3> HIDE DEF Rest
      <3> QED
        BY <1>7, <3>1
    <2>4. Cardinality(Rest(i - 1)) = k + m
      BY <1>9, <2>2, <2>3
    <2>5. CASE HasRoom(q[i])
      <3>1. k = 0
        BY <1>10, <2>3, <2>5, FS_EmptySet
      <3>2. Takes(q[i], m) = m
        BY <1>5, <1>18, <2>1, <2>2, <2>5, MinOfTwo DEF HasRoom, Takes
      <3> QED
        BY <2>2, <2>4, <3>1, <3>2
    <2>6. CASE ~ HasRoom(q[i])
      <3>1. q[i] \notin Unlimited /\ c <= m
        BY <1>18, <2>1, <2>2, <2>6 DEF HasRoom
      <3>2. m <= c
        <4>1. CASE q[i] = p
          BY <1>1, <2>1, <2>2, <3>1, <4>1 DEF InOrder
        <4>2. CASE q[i] \in Addons
          BY <1>0, <1>1, <1>18, <2>1, <2>2, <3>1, <4>2 DEF AddonWithinCapacity
        <4> QED
          BY <1>5, <4>1, <4>2 DEF Sources, ActiveAddons
      <3>3. Takes(q[i], k + m) = Min({c, k + m})
        BY <1>18, <2>1, <3>1 DEF Takes
      <3>4. Min({c, k + m}) = m
        BY <3>1, <3>2, MinOfTwo
      <3> QED
        BY <2>2, <2>4, <3>3, <3>4
    <2> QED
      BY <2>5, <2>6
  <1>12. PICK w : w = [i \in 0..n |-> Cardinality(Rest(i))]
    OBVIOUS
  <1>13. w[0] = Max({0, used[p]})
    <2>1. Rest(0) = live
      OBVIOUS
    <2>2. used[p] = Cardinality(live) /\ used[p] \in Nat
      BY <1>0, <1>1, FS_CardinalityType DEF InOrder
    <2> QED
      BY <1>12, <2>1, <2>2, MaxOfTwo
  <1>14. ASSUME NEW i \in 1..n
         PROVE  /\ Takes(q[i], w[i - 1]) = Cardinality(SlotsOf(q[i]))
                /\ w[i] = w[i - 1] - Takes(q[i], w[i - 1])
    <2>1. i \in 0..n /\ i - 1 \in 0..n
      OBVIOUS
    <2>2. w[i] = Cardinality(Rest(i)) /\ w[i - 1] = Cardinality(Rest(i - 1))
      BY <1>12, <2>1
    <2>3. Cardinality(Rest(i)) \in Nat /\ Cardinality(SlotsOf(q[i])) \in Nat
      BY <1>7, <1>8, <2>1
    <2> HIDE DEF Rest
    <2> QED
      BY <1>9, <1>11, <2>2, <2>3
  <1>15. w = [i \in 0..Len(q) |-> w[i]]
    BY <1>4, <1>12
  <1> HIDE DEF Rest
  <1>16. drainSources(q, used[p]) =
            [i \in 1..n |-> [source |-> q[i], used |-> Takes(q[i], w[i - 1])]]
    <2>1. \A i \in 1..Len(q) : w[i] = w[i - 1] - Takes(q[i], w[i - 1])
      BY <1>4, <1>14
    <2>2. Leaves(q, used[p], w)
      BY <1>13, <1>15, <2>1 DEF Leaves
    <2>3. drainSources(q, used[p]) = Drains(q, w)
      BY <1>3, <2>2, Drained
    <2> QED
      BY <1>4, <2>3 DEF Drains
  <1>17. getSlotDetails(p).sources = drainSources(q, used[p])
    BY <1>2 DEF getSlotDetails
  <1> QED
    BY <1>14, <1>16, <1>17 DEF Range

(* What the owner sees of an account whose plans were not edited, which has *)
(* no add-on on hold, cancelled or unlimited, and whose used_quota tells    *)
(* the truth: the limit shown is the one enforced, what remains is negative *)
(* exactly when there is none, until a sweep takes capacity away, and       *)
(* before the first release the slots shown on a source are those           *)
(* attributed to it.                                                        *)
THEOREM ShownIsTrue == Spec => []ShownTruly
  <1>1. VInv => ShownTruly
    BY LimitIsShown, AttributionIsShown DEF VInv, ShownTruly
  <1> QED
    BY <1>1, ViewInvariance, PTL

=============================================================================
