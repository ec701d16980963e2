------------------------------- MODULE Settings -------------------------------
(***************************************************************************)
(* The administrators' settings that price an order: taxes, currencies and *)
(* payment methods.  Of the taxes, and of the currencies, one at most is   *)
(* meant to be active: whoever makes a row active first switches the       *)
(* others off, in the same transaction.                                    *)
(*                                                                         *)
(* A request verifies that the row exists, then runs its transaction at    *)
(* READ COMMITTED.  An updateMany selects its rows from what is committed  *)
(* when it starts, waits for each row another transaction has updated, and *)
(* tests it again; it does not see a row that became active meanwhile.     *)
(***************************************************************************)
EXTENDS FiniteSets

CONSTANTS
    Rows,        \* ids of the rows the three tables can hold
    TableOf,     \* the table of each
    Admins,      \* requests of administrators that may be in progress at once
    NoSetting    \* no row

Tables == {"tax", "currency", "method"}
Exclusive == {"tax", "currency"}

ASSUME TableAssumption == TableOf \in [Rows -> Tables]
ASSUME NoSettingAssumption == NoSetting \notin Rows

VARIABLES
    row,         \* "live", "deleted" (deleted_at is set), or "absent" so far
    active,      \* rows with is_active
    req,         \* the requests
    raced        \* tables on which requests have overlapped, and no request
                 \* that made a row active has had the table to itself since

settingsVars == <<row, active, req, raced>>

Shown(t) == {r \in active : row[r] = "live" /\ TableOf[r] = t}

Flags == {"on", "off", "keep"}
Requests ==
    [pc : {"idle", "verifying", "writing", "deactivating"},
     op : {"create", "update", "activate", "remove"}, row : Rows \cup {NoSetting},
     flag : Flags, match : SUBSET Rows, locked : SUBSET Rows, alone : BOOLEAN]
NoRequest ==
    [pc |-> "idle", op |-> "update", row |-> NoSetting, flag |-> "keep",
     match |-> {}, locked |-> {}, alone |-> TRUE]

Busy(a) == req[a].pc # "idle"
On(a, t) == Busy(a) /\ TableOf[req[a].row] = t
LockedByOthers(a) == UNION {req[b].locked : b \in Admins \ {a}}

(* The seed: the tables hold some rows, one active at most.                *)
SettingsInit ==
    /\ row \in [Rows -> {"live", "absent"}]
    /\ active \in SUBSET {r \in Rows : row[r] = "live"}
    /\ \A t \in Exclusive : \A r, q \in Shown(t) : r = q
    /\ req = [a \in Admins |-> NoRequest]
    /\ raced = {}

-----------------------------------------------------------------------------
(* What the controllers accept: the operation, its row, the value given to *)
(* is_active (on by default for a new row).                                *)

Edits(t) ==
    [op : {"create"}, row : {r \in Rows : TableOf[r] = t}, flag : {"on", "off"}]
    \cup [op : {"update"}, row : {r \in Rows : TableOf[r] = t}, flag : Flags]
    \cup [op : {"remove"}, row : {r \in Rows : TableOf[r] = t}, flag : {"off"}]
Activations(t) ==
    [op : {"activate"}, row : {r \in Rows : TableOf[r] = t}, flag : {"on"}]

TaxRequests == Edits("tax") \cup Activations("tax")
CurrencyRequests == Edits("currency") \cup Activations("currency")
MethodRequests == Edits("method")

(* A request is received.  A new row has an id of its own.                 *)
ReceiveSetting(a, e) ==
    LET t == TableOf[e.row]
        others == {b \in Admins : On(b, t)} IN
    /\ req[a].pc = "idle"
    /\ e.op = "create" =>
          /\ row[e.row] = "absent"
          /\ \A b \in others : ~ (req[b].op = "create" /\ req[b].row = e.row)
    /\ req' = [b \in Admins |->
          IF b = a
          THEN [pc |-> IF e.op = "create" THEN "writing" ELSE "verifying",
                op |-> e.op, row |-> e.row, flag |-> e.flag,
                match |-> {}, locked |-> {}, alone |-> others = {}]
          ELSE [req[b] EXCEPT !.alone = req[b].alone /\ b \notin others]]
    /\ raced' = IF others = {} THEN raced ELSE raced \cup {t}
    /\ UNCHANGED <<row, active>>

RequestTax(a) == \E e \in TaxRequests : ReceiveSetting(a, e)
RequestCurrency(a) == \E e \in CurrencyRequests : ReceiveSetting(a, e)
RequestMethod(a) == \E e \in MethodRequests : ReceiveSetting(a, e)

(* getTaxById, getCurrencyById, getPaymentMethodById before the write: 404 *)
(* for a row that is not there, or soft-deleted.                           *)
NotFound(r) == row[r] # "live"
Verify(a) ==
    /\ req[a].pc = "verifying"
    /\ req' = [req EXCEPT ![a] =
          IF NotFound(req[a].row) THEN NoRequest
          ELSE [req[a] EXCEPT !.pc = "writing"]]
    /\ UNCHANGED <<row, active, raced>>

-----------------------------------------------------------------------------
(* The transaction.                                                         *)

OnlyActivationIsExclusive(q) ==
    q.op = "activate" /\ q.flag = "on" /\ TableOf[q.row] \in Exclusive
MakesActive(q) == q.flag = "on" /\ TableOf[q.row] \in Exclusive

(* The rows updateMany selects: an update spares its own.                  *)
ToDeactivate(q) ==
    IF q.op = "update" THEN Shown(TableOf[q.row]) \ {q.row} ELSE Shown(TableOf[q.row])

SelectActive(a) ==
    /\ req[a].pc = "writing"
    /\ MakesActive(req[a])
    /\ req' = [req EXCEPT ![a] =
          [req[a] EXCEPT !.pc = "deactivating", !.match = ToDeactivate(req[a])]]
    /\ UNCHANGED <<row, active, raced>>

(* One row of updateMany, once no other transaction holds it.              *)
DeactivateNow(a) ==
    \E r \in req[a].match \ LockedByOthers(a) :
        /\ req' = [req EXCEPT ![a] = [req[a] EXCEPT !.match = req[a].match \ {r}]]
        /\ active' = active \ {r}
        /\ UNCHANGED <<row, raced>>
DeactivateNext(a) ==
    \E r \in req[a].match \ LockedByOthers(a) :
        /\ req' = [req EXCEPT ![a] =
              [req[a] EXCEPT !.match = req[a].match \ {r},
                    !.locked = req[a].locked \cup
                       {q \in {r} : q \in active /\ row[q] = "live"}]]
        /\ UNCHANGED <<row, active, raced>>

ReadyToStore(a) ==
    /\ \/ req[a].pc = "writing" /\ ~ MakesActive(req[a])
       \/ req[a].pc = "deactivating" /\ req[a].match = {}
    /\ req[a].row \notin LockedByOthers(a)

(* The row itself, and the commit.                                         *)
StoreRow(a) ==
    LET q == req[a]
        off == q.locked \cup {r \in {q.row} : q.flag = "off"}
        on == {r \in {q.row} : q.flag = "on"} IN
    /\ ReadyToStore(a)
    /\ row' = [row EXCEPT ![q.row] =
          IF q.op = "create" THEN "live"
          ELSE IF q.op = "remove" THEN "deleted" ELSE row[q.row]]
    /\ active' = (active \ off) \cup on
    /\ raced' = IF MakesActive(q) /\ q.alone THEN raced \ {TableOf[q.row]} ELSE raced
    /\ req' = [req EXCEPT ![a] = NoRequest]

(* A duplicate code (409), a deadlock, a lost connection: all is undone.   *)
Rollback(a) ==
    /\ req[a].pc \in {"writing", "deactivating"}
    /\ req' = [req EXCEPT ![a] = NoRequest]
    /\ UNCHANGED <<row, active, raced>>

SettingsNext == \E a \in Admins :
    \/ RequestTax(a) \/ RequestCurrency(a) \/ RequestMethod(a)
    \/ Verify(a) \/ SelectActive(a) \/ DeactivateNext(a) \/ StoreRow(a) \/ Rollback(a)

-----------------------------------------------------------------------------

(* Rows, requests and tables have the shapes the code gives them, and a    *)
(* row that was never created is not active.                               *)
SettingsTypeOK ==
    /\ row \in [Rows -> {"absent", "live", "deleted"}]
    /\ active \subseteq {r \in Rows : row[r] # "absent"}
    /\ req \in [Admins -> Requests]
    /\ \A a \in Admins : Busy(a) => req[a].row \in Rows
    /\ raced \subseteq Tables

(* One tax at most, and one currency at most, is in force, unless requests *)
(* on that table have overlapped; then the next request that makes a row   *)
(* active, alone, restores it.  An order is priced with "the" active tax   *)
(* and "the" active currency: with two, whichever the database returns.    *)
OneActiveUnlessRaced ==
    \A t \in Exclusive \ raced : \A r, q \in Shown(t) : r = q

(* A table that had an active row is left without one only by the request  *)
(* that switches it off or removes it, or where requests overlapped: no    *)
(* checkout or sign-up finds the table empty in the middle of a change of  *)
(* the active row.                                                         *)
Withdraws(a) == req[a].op \in {"update", "remove"} /\ req[a].flag = "off"
SwapIsAtomic ==
    [][\A t \in Exclusive \ raced :
          Shown(t) # {} /\ Shown(t)' = {} =>
              \E a \in Admins : Busy(a) /\ ~ Busy(a)' /\ Withdraws(a)]_settingsVars
=============================================================================
