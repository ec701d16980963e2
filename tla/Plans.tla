-------------------------------- MODULE Plans --------------------------------
(***************************************************************************)
(* Plans (SKUs) and what they are made of: benefits, features and add-on   *)
(* quotas, "parts" here, each a row that belongs to one plan.  upsertPlan  *)
(* writes the base, removes some parts and writes others in a transaction  *)
(* at READ COMMITTED; a part is updated by its id alone, so that it moves  *)
(* to the plan of the request.  A row written by a transaction is locked   *)
(* until it ends, and an update that waited for a row tests it again.      *)
(***************************************************************************)
EXTENDS Naturals, FiniteSets

CONSTANTS
    PlanIds,     \* rows of sku_base
    Parts,       \* rows of sku_benefits, sku_features, sku_addons
    NoPlan,      \* none
    Planners,    \* requests on plans that may be in progress at once
    MaxEdits     \* bounds the number of upserts

ASSUME PlanAssumption == NoPlan \notin PlanIds /\ MaxEdits \in Nat

VARIABLES
    plan,        \* the base rows: status, and the upsert they were last written by
    part,        \* the parts: plan, deleted_at, and the upsert they were written by
    asked,       \* the parts the last upsert of each plan wrote
    upsert,      \* the requests
    edits        \* number of upserts so far

planVars == <<plan, part, asked, upsert, edits>>

PlanRows == [status : {"absent", "live", "deleted"}, edit : 0..MaxEdits]
PartRows == [plan : PlanIds \cup {NoPlan}, gone : BOOLEAN, edit : 0..MaxEdits]

Upserts ==
    [pc : {"idle", "verifying", "base", "removing", "upserting"},
     plan : PlanIds \cup {NoPlan}, new : BOOLEAN,
     wrote : SUBSET Parts, dropped : SUBSET Parts, edit : 0..MaxEdits]
NoUpsert ==
    [pc |-> "idle", plan |-> NoPlan, new |-> FALSE, wrote |-> {}, dropped |-> {}, edit |-> 0]

(* The seed: some plans, with parts of their own.                           *)
PlansInit ==
    /\ \E live \in SUBSET PlanIds :
          /\ plan = [p \in PlanIds |->
                [status |-> IF p \in live THEN "live" ELSE "absent", edit |-> 0]]
          /\ part \in [Parts -> [plan : live \cup {NoPlan}, gone : {FALSE}, edit : {0}]]
    /\ asked = [p \in PlanIds |-> {}]
    /\ upsert = [a \in Planners |-> NoUpsert]
    /\ edits = 0

(* Rows another transaction has written.                                    *)
BaseLocked(a) ==
    {upsert[b].plan : b \in {c \in Planners \ {a} : upsert[c].pc \in {"removing", "upserting"}}}
PartLocked(a) == UNION {upsert[b].wrote \cup upsert[b].dropped : b \in Planners \ {a}}

(* The plan of part x, as request a sees it.                                *)
PlanOf(a, x) == IF x \in upsert[a].wrote THEN upsert[a].plan ELSE part[x].plan

Advance(a, next) ==
    /\ upsert' = [upsert EXCEPT ![a] = next]
    /\ UNCHANGED <<plan, part, asked>>

-----------------------------------------------------------------------------
(* A request.  (The parts it is about are first looked at further down.)    *)
upsertPlan(a, p) ==
    /\ upsert[a].pc = "idle"
    /\ plan[p].status = "absent" => \A b \in Planners : upsert[b].plan # p
    /\ Advance(a, [NoUpsert EXCEPT
          !.pc = IF plan[p].status = "absent" THEN "base" ELSE "verifying",
          !.plan = p, !.new = plan[p].status = "absent"])
    /\ UNCHANGED edits

(* getPlanById, on a connection of its own: 404 for a deleted plan.         *)
VerifyPlan(a) ==
    /\ upsert[a].pc = "verifying"
    /\ Advance(a, IF plan[upsert[a].plan].status = "live"
                  THEN [upsert[a] EXCEPT !.pc = "base"] ELSE NoUpsert)
    /\ UNCHANGED edits

(* The base row is written first.                                           *)
WriteBase(a) ==
    /\ upsert[a].pc = "base"
    /\ upsert[a].plan \notin BaseLocked(a)
    /\ edits < MaxEdits
    /\ edits' = edits + 1
    /\ Advance(a, [upsert[a] EXCEPT !.pc = "removing", !.edit = edits + 1])

(* Parts are removed, of this plan only, once nobody else holds them.       *)
AnyPart(a) == {x \in Parts : PlanOf(a, x) # NoPlan}
OwnParts(a) == {x \in Parts : PlanOf(a, x) = upsert[a].plan}

RemoveParts(a) ==
    /\ upsert[a].pc = "removing"
    /\ \E D \in SUBSET (OwnParts(a) \ PartLocked(a)) :
          Advance(a, [upsert[a] EXCEPT !.pc = "upserting", !.dropped = D])
    /\ UNCHANGED edits

(* One part: update where id, or create; a deleted one stays deleted.       *)
PartRow(a, x, gone) == [plan |-> upsert[a].plan, gone |-> gone, edit |-> upsert[a].edit]
OutsideTx(a, x) ==
    /\ part' = [part EXCEPT ![x] = PartRow(a, x, part[x].gone)]
    /\ upsert' = [upsert EXCEPT ![a].wrote = @ \cup {x}]
    /\ UNCHANGED <<plan, asked>>
InTx(a, x) == Advance(a, [upsert[a] EXCEPT !.wrote = @ \cup {x}])

UpsertPart(a) ==
    /\ upsert[a].pc = "upserting"
    /\ \E x \in Parts \ (upsert[a].wrote \cup PartLocked(a)) : InTx(a, x)
    /\ UNCHANGED edits

CommitPlan(a) ==
    LET q == upsert[a] IN
    /\ q.pc = "upserting"
    /\ plan' = [plan EXCEPT ![q.plan] =
          [status |-> IF q.new THEN "live" ELSE plan[q.plan].status, edit |-> q.edit]]
    /\ part' = [x \in Parts |->
          IF x \in q.wrote THEN PartRow(a, x, part[x].gone \/ x \in q.dropped)
          ELSE IF x \in q.dropped THEN [part[x] EXCEPT !.gone = TRUE]
          ELSE part[x]]
    /\ asked' = [asked EXCEPT ![q.plan] = q.wrote]
    /\ upsert' = [upsert EXCEPT ![a] = NoUpsert]
    /\ UNCHANGED edits

(* A duplicate code (409), a deadlock between two plans, a lost connection. *)
RollbackPlan(a) ==
    /\ upsert[a].pc \in {"removing", "upserting"}
    /\ Advance(a, NoUpsert)
    /\ UNCHANGED edits

(* PlanService.deactivatePlan: a soft delete, whatever is under way.        *)
deactivatePlan(p) ==
    /\ plan[p].status = "live"
    /\ \A b \in Planners : upsert[b].pc \in {"removing", "upserting"} => upsert[b].plan # p
    /\ plan' = [plan EXCEPT ![p].status = "deleted"]
    /\ UNCHANGED <<part, asked, upsert, edits>>

PlansNext ==
    \/ \E a \in Planners :
          \/ \E p \in PlanIds : upsertPlan(a, p)
          \/ VerifyPlan(a) \/ WriteBase(a) \/ RemoveParts(a) \/ UpsertPart(a)
          \/ CommitPlan(a) \/ RollbackPlan(a)
    \/ \E p \in PlanIds : deactivatePlan(p)

-----------------------------------------------------------------------------
PlansTypeOK ==
    /\ plan \in [PlanIds -> PlanRows]
    /\ part \in [Parts -> PartRows]
    /\ asked \in [PlanIds -> SUBSET Parts]
    /\ upsert \in [Planners -> Upserts]
    /\ edits \in 0..MaxEdits

PartsOf(p) == {x \in Parts : part[x].plan = p}

(* A plan is the work of whole requests: none of its parts is newer than    *)
(* its base (nor left by a request that failed), and the parts the last     *)
(* request sent are as it sent them, or another plan's by now.  Two edits   *)
(* of a plan are kept apart by its base row, which each writes first.       *)
PlanIsWhole ==
    \A p \in PlanIds :
        /\ \A x \in PartsOf(p) : part[x].edit <= plan[p].edit
        /\ \A x \in asked[p] \cap PartsOf(p) : part[x].edit = plan[p].edit

(* A part is removed by a request on its own plan only, also when it moved  *)
(* to another plan while the request waited for it.                         *)
RemovesOwnOnly ==
    [][\A x \in Parts : part'[x].gone /\ ~ part[x].gone =>
          \E a \in Planners : upsert[a].plan = part[x].plan /\ upsert'[a] = NoUpsert
                              /\ x \in upsert[a].dropped]_planVars
=============================================================================
