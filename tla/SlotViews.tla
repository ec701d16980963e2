------------------------------ MODULE SlotViews ------------------------------
(***************************************************************************)
(* What others are shown of the quotas of Slots, computed from the rows    *)
(* when they ask: the owner's pages list each source with its used and     *)
(* remaining slots, Domain 2 re-synchronises from a snapshot.  Neither     *)
(* reads what slotAssign enforces: the pages add up what the catalogue     *)
(* gives by then, removed parts included, and spread used_quota over the   *)
(* sources, package first.                                                 *)
(***************************************************************************)
EXTENDS Slots, SequencesExt

UNLIMITED_QUOTA == -1

(* orderBy: { created_at: 'asc' }: ids are given in the order of purchase.  *)
OldestFirst(S) ==
    CHOOSE seq \in [1..Cardinality(S) -> S] :
        Range(seq) = S /\ \A i, j \in 1..Cardinality(S) : i < j => seq[i] < seq[j]

(* The package, then the active add-ons that have capacity to show, oldest  *)
(* first.  Only a package is ever shown as unlimited.                       *)
PackageAlone(p) == <<p>>
ShownSources(p) == <<p>> \o OldestFirst({a \in ActiveAddons : shown[a] > 0})

(* drainSources: each source takes what it can of the used slots that are   *)
(* left by those before it; less than none used is none.                    *)
Takes(s, n) == IF s \in Packages \cap shownUnlimited THEN n ELSE Min({shown[s], n})

drainSources(sources, n) ==
    LET left[i \in 0..Len(sources)] ==
            IF i = 0 THEN Max({0, n}) ELSE left[i - 1] - Takes(sources[i], left[i - 1]) IN
    [i \in 1..Len(sources) |-> [source |-> sources[i], used |-> Takes(sources[i], left[i - 1])]]

FiniteCapacity(sources) ==
    MapThenSumSet(LAMBDA s : shown[s], Range(sources) \ (Packages \cap shownUnlimited))

(* buildSlotDetails, for one resource.                                      *)
getSlotDetails(p) ==
    LET sources == ShownSources(p)
        is_unlimited == p \in shownUnlimited
        finite == FiniteCapacity(sources)
        totalUsed == Max({0, used[p]}) IN
    [is_unlimited |-> is_unlimited,
     total_capacity |-> IF is_unlimited THEN UNLIMITED_QUOTA ELSE finite,
     total_used |-> totalUsed,
     total_remaining |-> IF is_unlimited THEN UNLIMITED_QUOTA ELSE finite - totalUsed,
     sources |-> drainSources(sources, used[p])]

(* The dashboard's summary of it.                                           *)
getSlotBreakdown(p) ==
    LET d == getSlotDetails(p) IN
    [is_unlimited |-> d.is_unlimited, totalSlots |-> d.total_capacity, usedSlots |-> d.total_used,
     availableSlots |-> d.total_remaining]

(* The quota row of a subscription, as Domain 2 gets it with a refusal.     *)
getQuotaDetails(p) ==
    [max_quota |-> IF p \in uncapped THEN UNLIMITED_QUOTA ELSE total[p],
     used_quota |-> used[p]]

(* The snapshot Domain 2 starts again from.                                 *)
getSubscriptionByCompany(p) == getQuotaDetails(p).max_quota

-----------------------------------------------------------------------------
(* No plan of the account was edited, every add-on bought is in force or    *)
(* has run out, none of those in force is unlimited, and used_quota tells   *)
(* the truth.  (The quota row keeps what was bought, the pages show the     *)
(* catalogue; an add-on on hold or cancelled still counts in the total and  *)
(* is not listed; an unlimited one lifts the limit and is not shown to.)    *)
Regular(p) ==
    /\ OnlyPackage(p)
    /\ edited = {}
    /\ \A a \in Addons : status[a] \in {"NONE", "ACTIVE", "EXPIRED"}
    /\ ActiveAddons \cap Unlimited = {}
    /\ recount[p] # "stale" /\ p \notin twice

(* The limit an owner sees, the one on the dashboard, the one Domain 2 is   *)
(* told and the one slotAssign enforces are one and the same: an assignment *)
(* is refused exactly when the owner sees no slot remaining.  And until a   *)
(* sweep takes capacity away, what the owner sees remaining is negative     *)
(* exactly when there is no limit: "Consumers must treat any negative quota *)
(* number as unlimited".                                                    *)
ShownIsEnforced ==
    \A p \in Packages : Regular(p) =>
        LET d == getSlotDetails(p) IN
        /\ getSubscriptionByCompany(p) = d.total_capacity
        /\ getSlotBreakdown(p).totalSlots = d.total_capacity
        /\ (~ d.is_unlimited /\ d.total_remaining <= 0)
              <=> ~ (p \in uncapped \/ used[p] < total[p])
        /\ recount[p] = "none" => (d.total_remaining < 0 <=> d.is_unlimited)

(* Before the first release, and while every add-on bought is in force, the *)
(* used slots an owner sees on a source are those attributed to it: the     *)
(* ones that are revoked if it expires.                                     *)
ShownAsAttributed ==
    \A p \in Packages :
        /\ Regular(p)
        /\ recount[p] = "none"
        /\ \A a \in Addons : status[a] # "EXPIRED"
        /\ \A x \in SlotIds : ref[x] # NoRef => x \in live
        => \A e \in Range(getSlotDetails(p).sources) :
               e.used = Cardinality(SlotsOf(e.source))

(* What others are shown is what the rows say: limits and attribution.      *)
ShownTruly == ShownIsEnforced /\ ShownAsAttributed
=============================================================================
