-------------------------------- MODULE Slots --------------------------------
(***************************************************************************)
(* Quotas and slots of one account, for one resource (clinics, or users):  *)
(* a package and its add-ons give capacity, Domain 2 assigns and releases  *)
(* slots, the nightly sweep revokes the slots of an expired add-on.  What a *)
(* subscription gives is not its own: it is in the catalogue, where its    *)
(* plan may be edited at any time.                                         *)
(*                                                                         *)
(* Transactions run at READ COMMITTED: what one reads is committed, what   *)
(* it writes is seen when it commits, and a row it has updated, or locked  *)
(* FOR UPDATE, is closed to the writes of others until then.  So a         *)
(* transaction is two steps, its reads and its commit, with the rows it    *)
(* holds as guards of the others' steps.  Any of them may be lost.         *)
(***************************************************************************)
EXTENDS Integers, FiniteSets, FiniteSetsExt

CONSTANTS
    Packages,    \* ids of package subscriptions, sold in increasing order
    Addons,      \* ids of add-on subscriptions, likewise
    Capacity,    \* slots the plan of each gives, until it is edited:
                 \* max_usage, or the sum of quota_value
    Unlimited,   \* those whose plan gives slots without a limit, likewise
    Edits,       \* what each plan may be edited to
    MaxEdits,    \* plans that are edited (a bound)
    Refs,        \* clinics, staff or doctors of Domain 2
    NoRef,       \* none
    SlotIds,     \* rows addon_slot_map can hold (bounds the runs)
    Assigners,   \* calls of slotAssign that may run at the same time
    Releasers,   \* calls of slotRelease that may run at the same time
    Sweepers     \* runs of the nightly sweep that may overlap

Subs == Packages \cup Addons
NoSub == 0

ASSUME SubsAssumption ==
    Subs \subseteq Nat \ {0} /\ Packages \cap Addons = {} /\ Unlimited \subseteq Subs
ASSUME CapacityAssumption == Capacity \in [Subs -> Nat]
Rows == [capacity : Nat, unlimited : BOOLEAN]
ASSUME EditsAssumption == Edits \in [Subs -> SUBSET Rows]
ASSUME NoRefAssumption == NoRef \notin Refs

VARIABLES
    capacity,    \* the catalogue: slots the plan of each subscription gives
    unlimited,   \* those whose plan gives slots without a limit
    shown,       \* the same two for a query that finds removed parts too
    shownUnlimited,
    edited,      \* those whose plan was edited
    status,      \* status of each subscription, "NONE" before the purchase
    total,       \* total_quota of each package's quota row
    used,        \* its used_quota
    uncapped,    \* the packages whose quota row is_unlimited
    live,        \* slots not soft-deleted
    ref,         \* ref_id of each slot, NoRef before the insert
    source,      \* addon_subscription_id of each slot, whatever its type
    held,        \* subscriptions put ON_HOLD today
    asg,         \* slotAssign transactions
    rel,         \* slotRelease transactions
    swp,         \* the sweeps
    suspended,   \* addon.expired events: <<add-on, refs to suspend>>
    recount,     \* what the last sweep that rewrote a package's quota row
                 \* wrote: "none" yet, "exact", or "stale" (for properties)
    twice        \* the packages under which a release began while another
                 \* had the same slot, since an exact recount (likewise)

planVars == <<capacity, unlimited, shown, shownUnlimited, edited>>
slotVars == <<live, ref, source>>
quotaVars == <<total, used, uncapped>>
vars == <<planVars, status, quotaVars, slotVars, held, asg, rel, swp, suspended, recount, twice>>

(* The total_quota of a set of sources: 0 when it is not a limit.           *)
TotalOf(S) ==
    IF S \cap unlimited # {} THEN 0 ELSE MapThenSumSet(LAMBDA s : capacity[s], S)

Statuses == {"NONE", "ACTIVE", "ON_HOLD", "EXPIRED", "CANCELLED"}
AssignStates ==
    [pc : {"idle", "locking", "assigning"}, package : Packages \cup {NoSub},
     ref : Refs \cup {NoRef}, source : Subs \cup {NoSub}]
ReleaseStates ==
    [pc : {"idle", "deleting", "releasing"}, package : Packages \cup {NoSub},
     slots : SUBSET SlotIds, decrement : BOOLEAN]
SweepStates ==
    [pc : {"idle", "revoking", "reconciling", "emitting"}, addon : Addons \cup {NoSub},
     package : Packages \cup {NoSub}, refs : SUBSET Refs, slots : SUBSET SlotIds,
     total : Nat, used : Nat, uncapped : BOOLEAN]

NoAssign == [pc |-> "idle", package |-> NoSub, ref |-> NoRef, source |-> NoSub]
NoRelease == [pc |-> "idle", package |-> NoSub, slots |-> {}, decrement |-> FALSE]
NoSweep ==
    [pc |-> "idle", addon |-> NoSub, package |-> NoSub, refs |-> {}, slots |-> {},
     total |-> 0, used |-> 0, uncapped |-> FALSE]

Init ==
    /\ capacity = Capacity
    /\ unlimited = Unlimited
    /\ shown = Capacity
    /\ shownUnlimited = Unlimited
    /\ edited = {}
    /\ status = [s \in Subs |-> "NONE"]
    /\ total = [p \in Packages |-> 0]
    /\ used = [p \in Packages |-> 0]
    /\ uncapped = {}
    /\ live = {}
    /\ ref = [x \in SlotIds |-> NoRef]
    /\ source = [x \in SlotIds |-> NoSub]
    /\ held = {}
    /\ asg = [a \in Assigners |-> NoAssign]
    /\ rel = [r \in Releasers |-> NoRelease]
    /\ swp = [w \in Sweepers |-> NoSweep]
    /\ suspended = {}
    /\ recount = [p \in Packages |-> "none"]
    /\ twice = {}

-----------------------------------------------------------------------------
(* Sources of capacity.                                                     *)

SlotsOf(s) == {x \in live : source[x] = s}
HeldAddonsToo == {a \in Addons : status[a] \in {"ACTIVE", "ON_HOLD"}}
ActiveAddons == {a \in Addons : status[a] = "ACTIVE"}

(* getAssignmentSources: the package and the active add-ons.                *)
Sources(p) == {p} \cup ActiveAddons
AddonsHaveRoom(s) == s \in Addons \/ Cardinality(SlotsOf(s)) < capacity[s]
HasRoom(s) == s \in unlimited \/ Cardinality(SlotsOf(s)) < capacity[s]

(* The package, then the add-ons oldest-first, the first with room; the     *)
(* package when none has.                                                   *)
Attributed(p) ==
    LET open == {s \in Sources(p) : HasRoom(s)} IN
    IF p \in open \/ open = {} THEN p ELSE Min(open)

(* The quota row of p is locked FOR UPDATE by an assignment.                *)
NoLock(p) == FALSE
Locked(p) == \E a \in Assigners : asg[a].pc = "assigning" /\ asg[a].package = p

-----------------------------------------------------------------------------
(* The catalogue.                                                           *)

(* An admin edits the plan of s: its parts are updated, or removed and      *)
(* replaced (see Plans).  Removed parts are soft-deleted, and a query that  *)
(* does not say so still finds them: the benefit of a package instead of    *)
(* the new one, the parts of an add-on beside the new ones.  (Each plan is  *)
(* edited at most once, and MaxEdits of them.)                              *)
WithRemoved(s, row) ==
    IF s \in Packages THEN [capacity |-> shown[s], unlimited |-> s \in shownUnlimited]
    ELSE [row EXCEPT !.capacity = @ + shown[s]]
Marked(S, s, row) == IF row.unlimited THEN S \cup {s} ELSE S \ {s}

EditPlan(s) ==
    /\ s \notin edited
    /\ Cardinality(edited) < MaxEdits
    /\ edited' = edited \cup {s}
    /\ \E row \in Edits[s] :
          /\ capacity' = [capacity EXCEPT ![s] = row.capacity]
          /\ unlimited' = Marked(unlimited, s, row)
          /\ \E parts \in {row, WithRemoved(s, row)} :
                /\ shown' = [shown EXCEPT ![s] = parts.capacity]
                /\ shownUnlimited' = Marked(shownUnlimited, s, parts)
    /\ UNCHANGED <<status, quotaVars, slotVars, held, asg, rel, swp, suspended, recount, twice>>

-----------------------------------------------------------------------------
(* Purchases: what the plan gives is mirrored into the quota row.  (The     *)
(* plan is read before the transaction: one edited in between is as one     *)
(* edited just after the purchase.)                                         *)

(* A package is bought when none is active, or in exchange for the active   *)
(* one: either way with a fresh quota row.                                  *)
BuyPackage(p) ==
    /\ status[p] = "NONE"
    /\ \A q \in Packages : q < p => status[q] # "NONE"
    /\ status' = [s \in Subs |->
          IF s = p THEN "ACTIVE"
          ELSE IF s \in Packages /\ status[s] = "ACTIVE" THEN "CANCELLED"
          ELSE status[s]]
    /\ total' = [total EXCEPT ![p] = TotalOf({p})]
    /\ uncapped' = IF p \in unlimited THEN uncapped \cup {p} ELSE uncapped
    /\ UNCHANGED <<planVars, used, slotVars, held, asg, rel, swp, suspended, recount, twice>>

(* An add-on is bought beside an active package, and counts on a quota row  *)
(* of the account, the first the database returns.                          *)
BuyAddon(a) ==
    /\ status[a] = "NONE"
    /\ \A b \in Addons : b < a => status[b] # "NONE"
    /\ \E p \in Packages : status[p] = "ACTIVE"
    /\ status' = [status EXCEPT ![a] = "ACTIVE"]
    /\ \E q \in Packages :
          /\ status[q] # "NONE"
          /\ ~ Locked(q)
          /\ IF q \in uncapped THEN UNCHANGED <<total, uncapped>>
             ELSE IF a \in unlimited
                  THEN uncapped' = uncapped \cup {q} /\ UNCHANGED total
                  ELSE total' = [total EXCEPT ![q] = @ + capacity[a]] /\ UNCHANGED uncapped
    /\ UNCHANGED <<planVars, used, slotVars, held, asg, rel, swp, suspended, recount, twice>>

(* cancelSubscription changes the status, and neither quota nor slots.      *)
Cancel(s) ==
    /\ status[s] \notin {"NONE", "CANCELLED"}
    /\ status' = [status EXCEPT ![s] = "CANCELLED"]
    /\ UNCHANGED <<planVars, quotaVars, slotVars, held, asg, rel, swp, suspended, recount, twice>>

-----------------------------------------------------------------------------
(* slotAssign                                                               *)

(* findSubscriptionByToken: an ACTIVE package.  (The token of an add-on has *)
(* no quota row and is refused.)                                            *)
BeginAssign(a, p, r) ==
    /\ asg[a].pc = "idle"
    /\ status[p] = "ACTIVE"
    /\ asg' = [asg EXCEPT ![a] = [NoAssign EXCEPT !.pc = "locking", !.package = p, !.ref = r]]
    /\ UNCHANGED <<planVars, status, quotaVars, slotVars, held, rel, swp, suspended, recount, twice>>

(* getQuotaWithLock, then the check and the attribution.                    *)
LockQuota(a) ==
    LET p == asg[a].package IN
    /\ asg[a].pc = "locking"
    /\ ~ Locked(p)
    /\ p \in uncapped \/ used[p] < total[p]
    /\ asg' = [asg EXCEPT ![a] =
          [pc |-> "assigning", package |-> p, ref |-> asg[a].ref, source |-> Attributed(p)]]
    /\ UNCHANGED <<planVars, status, quotaVars, slotVars, held, rel, swp, suspended, recount, twice>>

CommitAssign(a) ==
    /\ asg[a].pc = "assigning"
    /\ \E x \in SlotIds :
          /\ ref[x] = NoRef
          /\ live' = live \cup {x}
          /\ ref' = [ref EXCEPT ![x] = asg[a].ref]
          /\ source' = [source EXCEPT ![x] = asg[a].source]
    /\ used' = [used EXCEPT ![asg[a].package] = @ + 1]
    /\ asg' = [asg EXCEPT ![a] = NoAssign]
    /\ UNCHANGED <<planVars, status, total, uncapped, held, rel, swp, suspended, recount, twice>>

(* QUOTA_EXCEEDED, an error, or the process lost: rolled back.              *)
RollBackAssign(a) ==
    /\ asg[a].pc # "idle"
    /\ asg' = [asg EXCEPT ![a] = NoAssign]
    /\ UNCHANGED <<planVars, status, quotaVars, slotVars, held, rel, swp, suspended, recount, twice>>

-----------------------------------------------------------------------------
(* slotRelease                                                              *)

(* Another transaction has soft-deleted slot x and not yet committed.       *)
Deleting(x) ==
    \/ \E r \in Releasers : rel[r].pc = "releasing" /\ x \in rel[r].slots
    \/ \E w \in Sweepers : swp[w].pc = "reconciling" /\ x \in swp[w].slots

(* The slot found: a live one of the ref, on any source, the first the      *)
(* database returns; without one, nothing happens.                          *)
BeginRelease(r, p) ==
    /\ rel[r].pc = "idle"
    /\ status[p] # "NONE"
    /\ \E x \in live :
          /\ rel' = [rel EXCEPT ![r] =
                [NoRelease EXCEPT !.pc = "deleting", !.package = p, !.slots = {x}]]
          /\ twice' = IF \E q \in Releasers : x \in rel[q].slots THEN twice \cup {p} ELSE twice
    /\ UNCHANGED <<planVars, status, quotaVars, slotVars, held, asg, swp, suspended, recount>>

(* softDeleteAddonSlotMap by id, deleted by now or not, and findQuota.      *)
DeleteSlot(r) ==
    /\ rel[r].pc = "deleting"
    /\ \A x \in rel[r].slots : ~ Deleting(x)
    /\ rel' = [rel EXCEPT ![r] =
          [pc |-> "releasing", package |-> rel[r].package, slots |-> rel[r].slots,
           decrement |-> used[rel[r].package] > 0]]
    /\ UNCHANGED <<planVars, status, quotaVars, slotVars, held, asg, swp, suspended, recount, twice>>

(* The quota after a release.                                               *)
KeepUsed(p) == used
DecrementUsed(p) == [used EXCEPT ![p] = @ - 1]

CommitRelease(r) ==
    LET p == rel[r].package IN
    /\ rel[r].pc = "releasing"
    /\ ~ Locked(p)
    /\ live' = live \ rel[r].slots
    /\ used' = IF rel[r].decrement THEN DecrementUsed(p) ELSE used
    /\ rel' = [rel EXCEPT ![r] = NoRelease]
    /\ UNCHANGED <<planVars, status, total, uncapped, ref, source, held, asg, swp, suspended, recount, twice>>

RollBackRelease(r) ==
    /\ rel[r].pc # "idle"
    /\ rel' = [rel EXCEPT ![r] = NoRelease]
    /\ UNCHANGED <<planVars, status, quotaVars, slotVars, held, asg, swp, suspended, recount, twice>>

-----------------------------------------------------------------------------
(* The nightly sweep.                                                       *)

(* processGracePeriodStarts.                                                *)
Hold(s) ==
    /\ Sweepers # {}
    /\ status[s] = "ACTIVE"
    /\ status' = [status EXCEPT ![s] = "ON_HOLD"]
    /\ held' = held \cup {s}
    /\ UNCHANGED <<planVars, quotaVars, slotVars, asg, rel, swp, suspended, recount, twice>>

(* The grace period: no transaction lasts that long.                        *)
GracePasses ==
    /\ held # {}
    /\ \A a \in Assigners : asg[a].pc = "idle"
    /\ \A r \in Releasers : rel[r].pc = "idle"
    /\ held' = {}
    /\ UNCHANGED <<planVars, status, quotaVars, slotVars, asg, rel, swp, suspended, recount, twice>>

(* processGracePeriodEnforcements: the package expires, and with it every   *)
(* add-on on hold, whose slots are announced and stay.  (Here in one step:  *)
(* DailyExpiry takes it apart.)                                             *)
EnforceGrace(p) ==
    LET children == {a \in Addons : status[a] = "ON_HOLD"} IN
    /\ Sweepers # {}
    /\ status[p] = "ON_HOLD"
    /\ p \notin held
    /\ status' = [s \in Subs |-> IF s \in children \cup {p} THEN "EXPIRED" ELSE status[s]]
    /\ suspended' = suspended \cup
          {<<a, {ref[x] : x \in SlotsOf(a)}>> : a \in {c \in children : SlotsOf(c) # {}}}
    /\ UNCHANGED <<planVars, quotaVars, slotVars, held, asg, rel, swp, recount, twice>>

(* processAddonExpiries: the add-on is read with its live slots, and the    *)
(* newest package.                                                          *)
ReadExpired(w, a) ==
    /\ swp[w].pc = "idle"
    /\ status[a] = "ON_HOLD"
    /\ a \notin held
    /\ \E p \in Packages :
          /\ status[p] # "NONE"
          /\ \A q \in Packages : q > p => status[q] = "NONE"
          /\ swp' = [swp EXCEPT ![w] =
                [NoSweep EXCEPT !.pc = "revoking", !.addon = a, !.package = p,
                                !.refs = {ref[x] : x \in SlotsOf(a)}]]
    /\ UNCHANGED <<planVars, status, quotaVars, slotVars, held, asg, rel, suspended, recount, twice>>

(* Its transaction: the slots attributed to the add-on are soft-deleted,    *)
(* and reconcileQuota adds up what is left.                                 *)
KeepsSlots(a) == {}
Revoked(a) == SlotsOf(a)

Revoke(w) ==
    LET a == swp[w].addon
        p == swp[w].package
        left == Sources(p) \ {a}
        gone == Revoked(a)
    IN
    /\ swp[w].pc = "revoking"
    /\ \A v \in Sweepers : swp[v].pc = "reconciling" => swp[v].addon # a
    /\ \A x \in gone : ~ Deleting(x)
    /\ swp' = [swp EXCEPT ![w] =
          [pc |-> "reconciling", addon |-> a, package |-> p, refs |-> swp[w].refs,
           slots |-> gone, uncapped |-> left \cap unlimited # {},
           total |-> TotalOf(left),
           used |-> Cardinality(live \ gone)]]
    /\ UNCHANGED <<planVars, status, quotaVars, slotVars, held, asg, rel, suspended, recount, twice>>

(* What it writes is no longer true: an add-on was bought or cancelled, an  *)
(* assignment or a release committed since the count, or a release is under *)
(* way, which may count down for a slot the sweep counts, or takes away.    *)
Stale(w) ==
    LET left == Sources(swp[w].package) \ {swp[w].addon} IN
    \/ TotalOf(left) # swp[w].total
    \/ swp[w].uncapped # (left \cap unlimited # {})
    \/ Cardinality(live \ swp[w].slots) # swp[w].used
    \/ \E r \in Releasers : rel[r].pc # "idle"

(* The quota row is overwritten, and the transaction commits.               *)
Reconcile(w) ==
    LET p == swp[w].package IN
    /\ swp[w].pc = "reconciling"
    /\ ~ Locked(p)
    /\ status' = [status EXCEPT ![swp[w].addon] = "EXPIRED"]
    /\ live' = live \ swp[w].slots
    /\ total' = [total EXCEPT ![p] = swp[w].total]
    /\ used' = [used EXCEPT ![p] = swp[w].used]
    /\ uncapped' = IF swp[w].uncapped THEN uncapped \cup {p} ELSE uncapped \ {p}
    /\ recount' = [recount EXCEPT ![p] = IF Stale(w) THEN "stale" ELSE "exact"]
    /\ twice' = IF Stale(w) THEN twice ELSE twice \ {p}
    /\ swp' = [swp EXCEPT ![w] =
          [NoSweep EXCEPT !.pc = "emitting", !.addon = swp[w].addon, !.refs = swp[w].refs]]
    /\ UNCHANGED <<planVars, ref, source, held, asg, rel, suspended>>

(* insertEvent, when there was a slot: one event per add-on and run.        *)
EmitExpired(w) ==
    /\ swp[w].pc = "emitting"
    /\ IF swp[w].refs = {} \/ \E e \in suspended : e[1] = swp[w].addon
       THEN UNCHANGED suspended
       ELSE suspended' = suspended \cup {<<swp[w].addon, swp[w].refs>>}
    /\ swp' = [swp EXCEPT ![w] = NoSweep]
    /\ UNCHANGED <<planVars, status, quotaVars, slotVars, held, asg, rel, recount, twice>>

(* The sweep's process is lost, or its transaction rolled back.             *)
LoseSweep(w) ==
    /\ swp[w].pc # "idle"
    /\ swp' = [swp EXCEPT ![w] = NoSweep]
    /\ UNCHANGED <<planVars, status, quotaVars, slotVars, held, asg, rel, suspended, recount, twice>>

-----------------------------------------------------------------------------
Assign(a) ==
    \/ \E p \in Packages, r \in Refs : BeginAssign(a, p, r)
    \/ LockQuota(a)
    \/ CommitAssign(a)
    \/ RollBackAssign(a)

Release(r) ==
    \/ \E p \in Packages : BeginRelease(r, p)
    \/ DeleteSlot(r)
    \/ CommitRelease(r)
    \/ RollBackRelease(r)

Sweep(w) ==
    \/ \E a \in Addons : ReadExpired(w, a)
    \/ Revoke(w)
    \/ Reconcile(w)
    \/ EmitExpired(w)
    \/ LoseSweep(w)

Next ==
    \/ \E p \in Packages : BuyPackage(p)
    \/ \E a \in Addons : BuyAddon(a)
    \/ \E s \in Subs : EditPlan(s) \/ Cancel(s) \/ Hold(s)
    \/ GracePasses
    \/ \E p \in Packages : EnforceGrace(p)
    \/ \E a \in Assigners : Assign(a)
    \/ \E r \in Releasers : Release(r)
    \/ \E w \in Sweepers : Sweep(w)

Spec == Init /\ [][Next]_vars

-----------------------------------------------------------------------------
(* Properties.                                                              *)

(* The tables and the local variables of the handlers keep their types; the *)
(* sums of capacities that make a total are natural numbers.                *)
TypeOK ==
    /\ capacity \in [Subs -> Nat]
    /\ unlimited \subseteq Subs
    /\ shown \in [Subs -> Nat]
    /\ shownUnlimited \subseteq Subs
    /\ edited \subseteq Subs
    /\ status \in [Subs -> Statuses]
    /\ total \in [Packages -> Nat]
    /\ used \in [Packages -> Int]
    /\ uncapped \subseteq Packages
    /\ live \subseteq SlotIds
    /\ ref \in [SlotIds -> Refs \cup {NoRef}]
    /\ source \in [SlotIds -> Subs \cup {NoSub}]
    /\ held \subseteq Subs
    /\ asg \in [Assigners -> AssignStates]
    /\ rel \in [Releasers -> ReleaseStates]
    /\ swp \in [Sweepers -> SweepStates]
    /\ suspended \subseteq Addons \X SUBSET Refs
    /\ recount \in [Packages -> {"none", "exact", "stale"}]
    /\ twice \subseteq Packages

(* Until the package is replaced: a switch starts the new quota row at 0    *)
(* used, and leaves the slots of the old plan where they are.               *)
NeverSwitched ==
    \A p, q \in Packages : status[p] # "NONE" /\ status[q] # "NONE" => p = q
OnlyPackage(p) == status[p] = "ACTIVE" /\ \A q \in Packages \ {p} : status[q] = "NONE"

(* used_quota tells the truth: it is the number of live slots of the        *)
(* account, whatever assignments, purchases, edits and releases of          *)
(* different slots overlap.  Two things make it wrong: a slot that two      *)
(* overlapping releases both delete (twice), and a sweep that writes what   *)
(* is no longer true, as it does not lock the row while it counts (stale).  *)
(* A sweep that counts while nothing else runs makes it good, both times.   *)
UsedIsLive ==
    \A p \in Packages :
        OnlyPackage(p) /\ recount[p] # "stale" /\ p \notin twice => used[p] = Cardinality(live)

(* "FOR UPDATE to prevent race conditions.  Returns 409 if quota exceeded": *)
(* concurrent assignments never take more slots than the quota has, unless  *)
(* a slot was released twice at once.  (A sweep that takes away capacity    *)
(* may leave the package with more.)                                        *)
WithinQuota ==
    \A p \in Packages :
        OnlyPackage(p) /\ recount[p] = "none" /\ p \notin twice =>
            p \in uncapped \/ Cardinality(live) <= total[p]

(* The same as the controller has it, of assignments beside releases that   *)
(* it calls idempotent, a slot released twice at once or not.               *)
QuotaIsCeiling ==
    \A p \in Packages :
        OnlyPackage(p) /\ recount[p] = "none" =>
            p \in uncapped \/ Cardinality(live) <= total[p]

(* An add-on is never given more slots than it provides: its expiry would   *)
(* revoke slots it did not pay for.  Unless its plan is edited to less, and *)
(* until the package is replaced: two assignments that lock the rows of two *)
(* packages may both choose it.                                             *)
AddonWithinCapacity ==
    NeverSwitched =>
        \A a \in Addons \ (Unlimited \cup edited) : Cardinality(SlotsOf(a)) <= Capacity[a]

(* "Strict revocation": when an add-on expires on its own, all its slots go *)
(* and no other: the package's own capacity is never touched, also when     *)
(* assignments and releases run beside it.                                  *)
RevokesExactly ==
    [][\A a \in Addons :
          /\ status[a] # "EXPIRED"
          /\ status'[a] = "EXPIRED"
          /\ \A p \in Packages : status'[p] = status[p]
          => live' = live \ SlotsOf(a)]_vars

(* The list of those to suspend is read before the transaction that revokes *)
(* their slots: it misses none of them.                                     *)
RevokedAreSuspended ==
    \A w \in Sweepers :
        swp[w].pc = "reconciling" => {ref[x] : x \in swp[w].slots} \subseteq swp[w].refs

=============================================================================
