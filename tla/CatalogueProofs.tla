---------------------------- MODULE CatalogueProofs ----------------------------
(***************************************************************************)
(* Theorems of Catalogue and of its three desks, for any rows, rates,      *)
(* prices, taxes and payment methods, and any number of requests.          *)
(***************************************************************************)
EXTENDS Catalogue, TLAPS

(* Settings.  A request that has had its table to itself so far knows what *)
(* is there: the rows it has still to switch off, and has, are all that    *)
(* are active, but its own; and its row is where it found it.              *)
Writing(q) == q.pc \in {"writing", "deactivating"}

RequestOK(q) ==
    /\ q.pc # "idle" => q.row \in Rows
    /\ \A r \in q.match \cup q.locked : TableOf[r] = TableOf[q.row]
    /\ q.op = "create" => q.flag # "keep"
    /\ q.op = "remove" => q.flag = "off"
    /\ q.op = "activate" => q.flag = "on"
    /\ q.pc \in {"idle", "verifying", "writing"} => q.match = {} /\ q.locked = {}
    /\ q.pc = "deactivating" => MakesActive(q)
    /\ q.pc # "idle" /\ q.op = "create" => row[q.row] = "absent"
    /\ Writing(q) /\ q.op # "create" => row[q.row] # "absent"
    /\ q.pc # "idle" /\ ~ q.alone => TableOf[q.row] \in raced
    /\ Writing(q) /\ q.op # "create" /\ q.alone => row[q.row] = "live"
    /\ q.pc = "deactivating" /\ q.alone =>
          Shown(TableOf[q.row]) \subseteq q.match \cup q.locked \cup {q.row}

Apart(a, b) ==
    Busy(a) /\ Busy(b) /\ TableOf[req[a].row] = TableOf[req[b].row] =>
        /\ ~ req[a].alone /\ ~ req[b].alone
        /\ req[a].op = "create" /\ req[b].op = "create" => req[a].row # req[b].row

SInv ==
    /\ row \in [Rows -> {"absent", "live", "deleted"}]
    /\ active \subseteq {r \in Rows : row[r] # "absent"}
    /\ req \in [Admins -> Requests]
    /\ raced \subseteq Tables
    /\ \A a \in Admins : RequestOK(req[a])
    /\ \A a, b \in Admins : a # b => Apart(a, b)
    /\ OneActiveUnlessRaced

(* Bundles.  An edit that has had its bundle to itself so far has read the *)
(* row as it is, and what it will store is good.                           *)
Good(discount, coins, price) ==
    discount <= price /\ \E r \in Rates : price = Cents(coins * r)

(* The discount the row will have.                                          *)
Kept(q, old) == IF q.discount = Keep THEN old.discount ELSE Cents(q.discount)

EditOK(q) ==
    /\ q.pc = "idle" => q.bundle = NoBundle
    /\ q.pc # "idle" => q.bundle \in BundleIds
    /\ q.pc = "pricing" /\ ~ q.new => q.was.currency \in Currencies
    /\ q.pc \in {"verifying", "storing"} =>
          /\ q.currency # NoCurrency
          /\ q.new => q.coins # Keep /\ q.currency # Keep /\ q.discount # Keep
    /\ q.pc # "idle" /\ ~ q.new => bundle[q.bundle].status # "absent"
    /\ q.pc # "idle" /\ ~ q.alone => q.bundle \in crossed
    /\ q.pc = "pricing" /\ q.alone => q.was = bundle[q.bundle]
    /\ q.pc \in {"verifying", "storing"} /\ q.alone =>
          Good(Kept(q, bundle[q.bundle]), Sent(q.coins, bundle[q.bundle].coins), Cents(q.price))

BInv ==
    /\ BundlesTypeOK
    /\ \A b \in BundleIds :
          IF bundle[b].status = "absent" THEN bundle[b] = NoRow
          ELSE bundle[b].currency \in Currencies
    /\ \A e \in Editors : EditOK(edit[e])
    /\ \A e, f \in Editors :
          e # f /\ edit[e].bundle = edit[f].bundle /\ edit[e].pc # "idle" =>
              ~ edit[e].alone /\ ~ edit[f].alone
    /\ PricesHold

(* Plans.  Two transactions share no row, and what a transaction removes   *)
(* is its plan's until it ends.                                            *)
InTransaction(q) == q.pc \in {"removing", "upserting"}

UpsertOK(q) ==
    /\ q.pc # "idle" => q.plan \in PlanIds
    /\ q.pc # "upserting" => q.wrote = {} /\ q.dropped = {}
    /\ InTransaction(q) => plan[q.plan].edit <= q.edit
    /\ \A x \in q.dropped : part[x].plan = q.plan

Disjoint(q, p) ==
    /\ InTransaction(q) /\ InTransaction(p) => q.plan # p.plan
    /\ (q.wrote \cup q.dropped) \cap (p.wrote \cup p.dropped) = {}

PInv ==
    /\ PlansTypeOK
    /\ \A p \in PlanIds : plan[p].edit <= edits
    /\ \A a \in Planners : upsert[a].edit <= edits
    /\ \A a \in Planners : UpsertOK(upsert[a])
    /\ \A a, b \in Planners : a # b => Disjoint(upsert[a], upsert[b])
    /\ PlanIsWhole

-----------------------------------------------------------------------------
(* Settings.                                                                *)

LEMMA NoRequestOK == NoRequest \in Requests /\ RequestOK(NoRequest)
  BY DEF NoRequest, Requests, RequestOK, Writing, Flags

(* A step of one request, in its own memory.                               *)
LEMMA OneRequest ==
  ASSUME SInv, NEW a \in Admins, NEW q \in Requests, RequestOK(q),
         req' = [req EXCEPT ![a] = q], UNCHANGED <<row, active, raced>>,
         q.pc # "idle" => /\ Busy(a) /\ q.row = req[a].row /\ q.op = req[a].op
                          /\ q.alone = req[a].alone
  PROVE  SInv'
  <1>1. req' \in [Admins -> Requests]
    BY DEF SInv
  <1>2. ASSUME NEW b \in Admins PROVE RequestOK(req[b])'
    <2>1. RequestOK(req'[b])
      BY DEF SInv
    <2> QED
      BY <2>1 DEF RequestOK, Shown
  <1>3. ASSUME NEW b \in Admins, NEW c \in Admins, b # c PROVE Apart(b, c)'
    BY <1>3 DEF SInv, Apart, Busy
  <1>4. OneActiveUnlessRaced'
    BY DEF SInv, OneActiveUnlessRaced, Shown
  <1> QED
    BY <1>1, <1>2, <1>3, <1>4 DEF SInv

(* Another request on the table comes in: this one has it no more to itself.*)
LEMMA Alike ==
  ASSUME NEW o, NEW q, RequestOK(o), UNCHANGED <<row, active>>, raced \subseteq raced',
         q.pc = o.pc, q.op = o.op, q.row = o.row, q.flag = o.flag, q.match = o.match,
         q.locked = o.locked, q.alone => o.alone,
         q.pc # "idle" /\ o.alone /\ ~ q.alone => TableOf[q.row] \in raced'
  PROVE  RequestOK(q)'
  <1>1. MakesActive(q) <=> MakesActive(o)
    BY DEF MakesActive
  <1>2. q.pc # "idle" /\ ~ q.alone => TableOf[q.row] \in raced'
    BY DEF RequestOK
  <1>3. q.pc = "deactivating" /\ q.alone =>
            Shown(TableOf[q.row])' \subseteq q.match \cup q.locked \cup {q.row}
    BY DEF RequestOK, Shown
  <1> QED
    BY <1>1, <1>2, <1>3 DEF RequestOK, Writing

LEMMA ReceiveInv ==
  ASSUME SInv, NEW a \in Admins,
         NEW e, e \in TaxRequests \cup CurrencyRequests \cup MethodRequests,
         ReceiveSetting(a, e)
  PROVE  SInv'
  <1>1. /\ e.row \in Rows /\ e.flag \in Flags /\ e.op \in {"create", "update", "activate", "remove"}
        /\ e.op = "create" => e.flag # "keep"
        /\ e.op = "remove" => e.flag = "off"
        /\ e.op = "activate" => e.flag = "on"
    BY DEF TaxRequests, CurrencyRequests, MethodRequests, Edits, Activations, Flags
  <1>2. PICK t \in Tables : t = TableOf[e.row]
    BY <1>1, TableAssumption
  <1>3. PICK others \in SUBSET Admins : others = {b \in Admins : On(b, t)}
    OBVIOUS
  <1> DEFINE first == [pc |-> IF e.op = "create" THEN "writing" ELSE "verifying",
                       op |-> e.op, row |-> e.row, flag |-> e.flag,
                       match |-> {}, locked |-> {}, alone |-> others = {}]
             other(b) == [req[b] EXCEPT !.alone = req[b].alone /\ b \notin others]
  <1>4. /\ req[a].pc = "idle" /\ UNCHANGED <<row, active>>
        /\ e.op = "create" => row[e.row] = "absent"
        /\ e.op = "create" => \A b \in others : ~ (req[b].op = "create" /\ req[b].row = e.row)
        /\ req' = [b \in Admins |-> IF b = a THEN first ELSE other(b)]
        /\ raced' = IF others = {} THEN raced ELSE raced \cup {t}
    BY <1>2, <1>3 DEF ReceiveSetting
  <1>5. raced \subseteq raced' /\ raced' \subseteq Tables /\ (others # {} => t \in raced')
    BY <1>2, <1>4 DEF SInv
  <1>6. first \in Requests /\ RequestOK(first)'
    <2>1. first \in Requests /\ first.row = e.row /\ first.op = e.op /\ first.flag = e.flag
          /\ first.match = {} /\ first.locked = {} /\ first.alone = (others = {})
          /\ first.pc = (IF e.op = "create" THEN "writing" ELSE "verifying")
      BY <1>1 DEF Requests
    <2> HIDE DEF first
    <2> QED
      BY <1>1, <1>2, <1>4, <1>5, <2>1 DEF RequestOK, Writing
  <1>7. ASSUME NEW b \in Admins
        PROVE  /\ other(b) \in Requests
               /\ other(b).pc = req[b].pc /\ other(b).op = req[b].op /\ other(b).row = req[b].row
               /\ other(b).flag = req[b].flag /\ other(b).match = req[b].match
               /\ other(b).locked = req[b].locked
               /\ other(b).alone = (req[b].alone /\ b \notin others)
    BY DEF SInv, Requests
  <1>8. ASSUME NEW b \in Admins, NEW q, q = other(b) PROVE RequestOK(q)'
    <2>1. RequestOK(req[b])
      BY DEF SInv
    <2>2. Busy(b) /\ b \in others => TableOf[req[b].row] \in raced'
      BY <1>3, <1>5 DEF On
    <2>3. raced \subseteq raced' /\ UNCHANGED <<row, active>>
      BY <1>4, <1>5
    <2> QED
      BY <1>7, <1>8, <2>1, <2>2, <2>3, Alike DEF Busy
  <1> HIDE DEF first, other
  <1>9. req' \in [Admins -> Requests] /\ \A b \in Admins : RequestOK(req[b])'
    <2>1. req' \in [Admins -> Requests]
      BY <1>4, <1>6, <1>7
    <2>2. ASSUME NEW b \in Admins PROVE RequestOK(req[b])'
      <3>1. CASE b = a
        <4>1. req'[b] = first
          BY <1>4, <3>1
        <4> QED
          BY <1>6, <4>1
      <3>2. CASE b # a
        <4>1. PICK q \in Requests : q = other(b)
          BY <1>7
        <4>2. RequestOK(q)' /\ req'[b] = q
          BY <1>4, <1>8, <3>2, <4>1
        <4> QED
          BY <4>2
      <3> QED
        BY <3>1, <3>2
    <2> QED
      BY <2>1, <2>2
  <1>10. ASSUME NEW b \in Admins, NEW c \in Admins, b # c PROVE Apart(b, c)'
    <2>1. ASSUME NEW d \in Admins, d # a,
                 TableOf[other(d).row] = TableOf[first.row], other(d).pc # "idle"
          PROVE  /\ ~ other(d).alone /\ ~ first.alone
                 /\ other(d).op = "create" /\ first.op = "create" => other(d).row # first.row
      <3>1. d \in others
        BY <1>2, <1>3, <1>7, <2>1 DEF On, Busy, first
      <3> QED
        BY <1>4, <1>7, <3>1 DEF first
    <2>2. CASE b = a
      <3>1. req'[b] = first /\ req'[c] = other(c)
        BY <1>4, <1>10, <2>2
      <3> QED
        BY <1>10, <2>1, <2>2, <3>1 DEF Apart, Busy
    <2>4. CASE c = a
      <3>1. req'[c] = first /\ req'[b] = other(b)
        BY <1>4, <1>10, <2>4
      <3> QED
        BY <1>10, <2>1, <2>4, <3>1 DEF Apart, Busy
    <2>3. CASE b # a /\ c # a
      <3>1. req'[b] = other(b) /\ req'[c] = other(c)
        BY <1>4, <2>3
      <3>2. Apart(b, c)
        BY <1>10 DEF SInv
      <3> QED
        BY <1>7, <3>1, <3>2 DEF Apart, Busy
    <2> QED
      BY <2>2, <2>3, <2>4
  <1>11. OneActiveUnlessRaced'
    BY <1>4, <1>5 DEF SInv, OneActiveUnlessRaced, Shown
  <1> QED
    BY <1>4, <1>5, <1>9, <1>10, <1>11 DEF SInv

LEMMA VerifyInv == ASSUME SInv, NEW a \in Admins, Verify(a) PROVE SInv'
  <1>1. req[a] \in Requests /\ RequestOK(req[a]) /\ req[a].pc = "verifying"
    BY DEF SInv, Verify
  <1>2. CASE NotFound(req[a].row)
    BY <1>2, NoRequestOK, OneRequest DEF Verify, NoRequest
  <1>3. CASE ~ NotFound(req[a].row)
    <2> DEFINE q == [req[a] EXCEPT !.pc = "writing"]
    <2>1. req' = [req EXCEPT ![a] = q] /\ UNCHANGED <<row, active, raced>>
      BY <1>3 DEF Verify
    <2>2. /\ q \in Requests /\ q.pc = "writing" /\ q.op = req[a].op /\ q.row = req[a].row
          /\ q.flag = req[a].flag /\ q.match = req[a].match /\ q.locked = req[a].locked
          /\ q.alone = req[a].alone
      BY <1>1 DEF Requests
    <2> HIDE DEF q
    <2>3. RequestOK(q)
      BY <1>1, <1>3, <2>2 DEF RequestOK, NotFound, Writing
    <2> QED
      BY <1>1, <2>1, <2>2, <2>3, OneRequest DEF Busy
  <1> QED
    BY <1>2, <1>3

LEMMA SelectInv == ASSUME SInv, NEW a \in Admins, SelectActive(a) PROVE SInv'
  <1>1. req[a] \in Requests /\ RequestOK(req[a]) /\ req[a].pc = "writing" /\ MakesActive(req[a])
    BY DEF SInv, SelectActive
  <1>2. PICK match \in SUBSET Rows : match = ToDeactivate(req[a])
    BY DEF ToDeactivate, Shown, SInv
  <1>3. /\ \A r \in match : TableOf[r] = TableOf[req[a].row]
        /\ Shown(TableOf[req[a].row]) \subseteq match \cup {req[a].row}
    BY <1>2 DEF ToDeactivate, Shown
  <1> DEFINE q == [req[a] EXCEPT !.pc = "deactivating", !.match = match]
  <1>4. req' = [req EXCEPT ![a] = q] /\ UNCHANGED <<row, active, raced>>
    BY <1>2 DEF SelectActive
  <1>5. /\ q \in Requests /\ q.pc = "deactivating" /\ q.op = req[a].op /\ q.row = req[a].row
        /\ q.flag = req[a].flag /\ q.match = match /\ q.locked = req[a].locked
        /\ q.alone = req[a].alone
    BY <1>1 DEF Requests
  <1> HIDE DEF q
  <1>6. RequestOK(q)
    <2>1. MakesActive(q)
      BY <1>1, <1>5 DEF MakesActive
    <2> QED
      BY <1>1, <1>3, <1>5, <2>1 DEF RequestOK, Writing
  <1> QED
    BY <1>1, <1>4, <1>5, <1>6, OneRequest DEF Busy

LEMMA DeactivateInv == ASSUME SInv, NEW a \in Admins, DeactivateNext(a) PROVE SInv'
  <1>1. PICK r \in req[a].match :
           /\ req' = [req EXCEPT ![a] =
                 [req[a] EXCEPT !.match = req[a].match \ {r},
                       !.locked = req[a].locked \cup
                          {q \in {r} : q \in active /\ row[q] = "live"}]]
           /\ UNCHANGED <<row, active, raced>>
    BY DEF DeactivateNext
  <1>2. req[a] \in Requests /\ RequestOK(req[a]) /\ req[a].match # {}
    BY <1>1 DEF SInv
  <1>3. req[a].pc = "deactivating"
    BY <1>2 DEF RequestOK, Requests
  <1>4. PICK locked \in SUBSET Rows :
           locked = req[a].locked \cup {q \in {r} : q \in active /\ row[q] = "live"}
    BY <1>1, <1>2 DEF Requests
  <1> DEFINE q == [req[a] EXCEPT !.match = req[a].match \ {r}, !.locked = locked]
  <1>5. req' = [req EXCEPT ![a] = q]
    BY <1>1, <1>4
  <1>6. /\ q \in Requests /\ q.pc = req[a].pc /\ q.op = req[a].op /\ q.row = req[a].row
        /\ q.flag = req[a].flag /\ q.match = req[a].match \ {r} /\ q.locked = locked
        /\ q.alone = req[a].alone
    BY <1>2 DEF Requests
  <1> HIDE DEF q
  <1>7. RequestOK(q)
    <2>1. MakesActive(q)
      BY <1>2, <1>3, <1>6 DEF MakesActive, RequestOK
    <2>2. ASSUME NEW x \in q.match \cup q.locked PROVE TableOf[x] = TableOf[q.row]
      BY <1>1, <1>2, <1>4, <1>6, <2>2 DEF RequestOK
    <2>3. q.alone => Shown(TableOf[q.row]) \subseteq q.match \cup q.locked \cup {q.row}
      BY <1>2, <1>3, <1>4, <1>6 DEF RequestOK, Shown
    <2> QED
      BY <1>2, <1>3, <1>6, <2>1, <2>2, <2>3 DEF RequestOK, Writing
  <1> QED
    BY <1>1, <1>3, <1>5, <1>6, <1>7, OneRequest DEF Busy

LEMMA RollbackInv == ASSUME SInv, NEW a \in Admins, Rollback(a) PROVE SInv'
  BY NoRequestOK, OneRequest DEF Rollback, NoRequest

(* What a commit changes: nothing beyond its table; and on its table, if   *)
(* the request has been alone, one row is active in the end, or none that  *)
(* was not before.                                                         *)
LEMMA Stored ==
  ASSUME SInv, NEW a \in Admins, StoreRow(a)
  PROVE  \E q, t :
            /\ q = req[a] /\ t = TableOf[q.row]
            /\ q \in Requests /\ RequestOK(q) /\ Writing(q) /\ q.row \in Rows /\ t \in Tables
            /\ row' \in [Rows -> {"absent", "live", "deleted"}]
            /\ \A r \in Rows \ {q.row} : row'[r] = row[r]
            /\ row'[q.row] # "absent"
            /\ active' \subseteq {r \in Rows : row'[r] # "absent"}
            /\ \A s \in Tables \ {t} : Shown(s)' = Shown(s)
            /\ raced' = IF MakesActive(q) /\ q.alone THEN raced \ {t} ELSE raced
            /\ MakesActive(q) /\ q.alone => Shown(t)' = {q.row}
            /\ t \in Exclusive /\ ~ MakesActive(q) =>
                  Shown(t)' = IF Withdraws(a) THEN Shown(t) \ {q.row} ELSE Shown(t)
  <1>1. PICK q : q = req[a]
    OBVIOUS
  <1>2. PICK t : t = TableOf[q.row]
    OBVIOUS
  <1>3. q \in Requests /\ RequestOK(q) /\ Writing(q) /\ q.row \in Rows /\ t \in Tables
    BY <1>1, <1>2, TableAssumption DEF SInv, StoreRow, ReadyToStore, RequestOK, Writing
  <1>4. /\ MakesActive(q) => q.pc = "deactivating" /\ q.match = {}
        /\ ~ MakesActive(q) => q.locked = {}
    BY <1>3, <1>1 DEF StoreRow, ReadyToStore, RequestOK, Writing
  <1>5. /\ active' = (active \ (q.locked \cup {r \in {q.row} : q.flag = "off"}))
                         \cup {r \in {q.row} : q.flag = "on"}
        /\ raced' = IF MakesActive(q) /\ q.alone THEN raced \ {t} ELSE raced
    BY <1>1, <1>2 DEF StoreRow
  <1>6. PICK new \in {"live", "deleted"} :
           /\ row' = [row EXCEPT ![q.row] = new]
           /\ q.op = "create" => new = "live"
           /\ q.op # "create" /\ q.op # "remove" => new = row[q.row]
           /\ q.op = "remove" => new = "deleted"
    <2>1. row' = [row EXCEPT ![q.row] =
             IF q.op = "create" THEN "live"
             ELSE IF q.op = "remove" THEN "deleted" ELSE row[q.row]]
      BY <1>1 DEF StoreRow
    <2>2. q.op # "create" => row[q.row] \in {"live", "deleted"}
      BY <1>3 DEF SInv, RequestOK
    <2> QED
      BY <2>1, <2>2
  <1>7. /\ row' \in [Rows -> {"absent", "live", "deleted"}]
        /\ \A r \in Rows \ {q.row} : row'[r] = row[r]
        /\ row'[q.row] = new
    BY <1>3, <1>6 DEF SInv
  <1>8. active' \subseteq {r \in Rows : row'[r] # "absent"}
    BY <1>3, <1>5, <1>7 DEF SInv
  <1>9. \A r \in q.locked : TableOf[r] = t
    BY <1>2, <1>3 DEF RequestOK
  <1>10. ASSUME NEW s \in Tables \ {t} PROVE Shown(s)' = Shown(s)
    <2>1. \A r \in Rows : TableOf[r] = s => (r \in active' <=> r \in active) /\ row'[r] = row[r]
      BY <1>2, <1>5, <1>7, <1>9
    <2> QED
      BY <1>8, <2>1 DEF Shown, SInv
  <1>11. ASSUME MakesActive(q), q.alone PROVE Shown(t)' = {q.row}
    <2>1. Shown(t) \subseteq q.locked \cup {q.row} /\ q.flag = "on"
      BY <1>3, <1>4, <1>11, <1>2 DEF RequestOK, MakesActive
    <2>2. row'[q.row] = "live"
      BY <1>3, <1>6, <1>7, <1>11 DEF RequestOK, MakesActive, Requests
    <2> QED
      BY <1>3, <1>2, <1>5, <1>7, <1>8, <2>1, <2>2 DEF Shown
  <1>12. ASSUME t \in Exclusive, ~ MakesActive(q)
         PROVE  Shown(t)' = IF Withdraws(a) THEN Shown(t) \ {q.row} ELSE Shown(t)
    <2>1. q.flag \in {"off", "keep"} /\ q.locked = {}
      BY <1>3, <1>4, <1>12, <1>2 DEF MakesActive, Requests, Flags
    <2>2. active' = active \ {r \in {q.row} : q.flag = "off"}
      BY <1>5, <2>1
    <2>3. CASE q.op = "create"
      <3>1. q.row \notin active /\ q.row \notin active' /\ ~ Withdraws(a)
        BY <1>3, <1>1, <2>1, <2>2, <2>3 DEF RequestOK, Writing, Withdraws, SInv
      <3>2. active' = active
        BY <2>2, <3>1
      <3> QED
        BY <1>7, <1>8, <3>1, <3>2 DEF Shown, SInv
    <2>4. CASE q.op # "create" /\ q.flag = "off"
      <3>1. q.op \in {"update", "remove"} \/ q.op = "activate"
        BY <1>3, <2>4 DEF Requests
      <3>2. q.op # "activate"
        BY <1>3, <2>4 DEF RequestOK
      <3>3. Withdraws(a) /\ active' = active \ {q.row}
        BY <1>1, <2>2, <2>4, <3>1, <3>2 DEF Withdraws
      <3> QED
        BY <1>7, <1>8, <3>3 DEF Shown, SInv
    <2>5. CASE q.op # "create" /\ q.flag = "keep"
      <3>1. q.op # "remove" /\ ~ Withdraws(a) /\ active' = active
        BY <1>3, <1>1, <2>2, <2>5 DEF RequestOK, Withdraws
      <3>2. row' = row
        BY <1>6, <2>5, <3>1 DEF SInv
      <3> QED
        BY <3>1, <3>2 DEF Shown
    <2> QED
      BY <2>1, <2>3, <2>4, <2>5
  <1> WITNESS q, t
  <1> QED
    BY <1>1, <1>2, <1>3, <1>5, <1>7, <1>8, <1>10, <1>11, <1>12

LEMMA StoreRowInv == ASSUME SInv, NEW a \in Admins, StoreRow(a) PROVE SInv'
  <1>1. PICK q, t :
           /\ q = req[a] /\ t = TableOf[q.row]
           /\ q \in Requests /\ RequestOK(q) /\ Writing(q) /\ q.row \in Rows /\ t \in Tables
           /\ row' \in [Rows -> {"absent", "live", "deleted"}]
           /\ \A r \in Rows \ {q.row} : row'[r] = row[r]
           /\ row'[q.row] # "absent"
           /\ active' \subseteq {r \in Rows : row'[r] # "absent"}
           /\ \A s \in Tables \ {t} : Shown(s)' = Shown(s)
           /\ raced' = IF MakesActive(q) /\ q.alone THEN raced \ {t} ELSE raced
           /\ MakesActive(q) /\ q.alone => Shown(t)' = {q.row}
           /\ t \in Exclusive /\ ~ MakesActive(q) =>
                 Shown(t)' = IF Withdraws(a) THEN Shown(t) \ {q.row} ELSE Shown(t)
    BY Stored
  <1>4. req' = [req EXCEPT ![a] = NoRequest]
    BY DEF StoreRow
  <1>5. ASSUME NEW b \in Admins, b # a PROVE RequestOK(req[b])'
    <2>1. PICK p \in Requests : p = req[b] /\ req'[b] = p
      BY <1>4, <1>5 DEF SInv
    <2>2. RequestOK(p) /\ (p.pc # "idle" => p.row \in Rows)
      BY <2>1 DEF SInv, RequestOK
    <2>3. p.pc # "idle" /\ TableOf[p.row] = t =>
             /\ ~ p.alone /\ ~ q.alone
             /\ p.op = "create" /\ q.op = "create" => p.row # q.row
      BY <1>1, <1>5, <2>1 DEF SInv, Apart, Busy, Writing
    <2>4. p.pc # "idle" /\ p.op = "create" => row'[p.row] = "absent"
      BY <1>1, <2>2, <2>3 DEF RequestOK
    <2>5. Writing(p) /\ p.op # "create" => row'[p.row] # "absent"
      BY <1>1, <2>2 DEF RequestOK, Writing
    <2>6. p.pc # "idle" /\ ~ p.alone => TableOf[p.row] \in raced'
      BY <1>1, <2>2, <2>3 DEF RequestOK
    <2>7. p.pc # "idle" /\ p.alone =>
             row'[p.row] = row[p.row] /\ Shown(TableOf[p.row])' = Shown(TableOf[p.row])
      BY <1>1, <2>2, <2>3, TableAssumption
    <2>8. Writing(p) /\ p.op # "create" /\ p.alone => row'[p.row] = "live"
      BY <2>2, <2>7 DEF RequestOK, Writing
    <2>9. p.pc = "deactivating" /\ p.alone =>
             Shown(TableOf[p.row])' \subseteq p.match \cup p.locked \cup {p.row}
      BY <2>2, <2>7 DEF RequestOK
    <2>10. RequestOK(p)'
      BY <2>2, <2>4, <2>5, <2>6, <2>8, <2>9 DEF RequestOK, MakesActive
    <2> QED
      BY <2>1, <2>10
  <1>6. req' \in [Admins -> Requests] /\ req'[a] = NoRequest
    BY <1>4, NoRequestOK DEF SInv
  <1>7. RequestOK(req[a])'
    BY <1>6 DEF RequestOK, NoRequest, Writing
  <1>8. ASSUME NEW b \in Admins, NEW c \in Admins, b # c PROVE Apart(b, c)'
    BY <1>4, <1>8 DEF SInv, Apart, Busy, NoRequest
  <1>9. OneActiveUnlessRaced'
    <2> SUFFICES ASSUME NEW s \in Exclusive, s \notin raced', NEW r \in Shown(s)',
                        NEW p \in Shown(s)'
                 PROVE  r = p
      BY DEF OneActiveUnlessRaced
    <2>1. CASE s # t
      <3>1. s \in Tables \ {t} /\ s \notin raced
        BY <1>1, <2>1 DEF Exclusive, Tables
      <3> QED
        BY <1>1, <3>1 DEF SInv, OneActiveUnlessRaced
    <2>2. CASE s = t /\ MakesActive(q) /\ q.alone
      BY <1>1, <2>2
    <2>3. CASE s = t /\ ~ (MakesActive(q) /\ q.alone)
      <3>1. t \notin raced /\ ~ MakesActive(q)
        BY <1>1, <2>3 DEF RequestOK, Writing
      <3>2. r \in Shown(t) /\ p \in Shown(t)
        BY <1>1, <2>3, <3>1
      <3> QED
        BY <2>3, <3>1, <3>2 DEF SInv, OneActiveUnlessRaced
    <2> QED
      BY <2>1, <2>2, <2>3
  <1> QED
    BY <1>1, <1>5, <1>6, <1>7, <1>8, <1>9 DEF SInv

LEMMA SettingsStep == ASSUME SInv, [SettingsNext]_settingsVars PROVE SInv'
  <1>1. ASSUME NEW a \in Admins,
               RequestTax(a) \/ RequestCurrency(a) \/ RequestMethod(a)
        PROVE  SInv'
    BY <1>1, ReceiveInv DEF RequestTax, RequestCurrency, RequestMethod
  <1>2. CASE UNCHANGED settingsVars
    BY <1>2 DEF settingsVars, SInv, RequestOK, Shown, Apart, Busy, OneActiveUnlessRaced
  <1> QED
    BY <1>1, <1>2, VerifyInv, SelectInv, DeactivateInv, StoreRowInv, RollbackInv DEF SettingsNext

(* No table is found empty in the middle of a change of its active row.    *)
LEMMA SwapStep ==
  ASSUME SInv, SettingsNext, NEW t \in Exclusive \ raced, Shown(t) # {}, Shown(t)' = {}
  PROVE  \E a \in Admins : Busy(a) /\ ~ Busy(a)' /\ Withdraws(a)
  <1>1. PICK a \in Admins : StoreRow(a)
    <2>1. ~ UNCHANGED <<row, active>>
      BY DEF Shown
    <2> QED
      BY <2>1 DEF SettingsNext, RequestTax, RequestCurrency, RequestMethod, ReceiveSetting,
                  Verify, SelectActive, DeactivateNext, Rollback
  <1>2. PICK q, s :
           /\ q = req[a] /\ s = TableOf[q.row]
           /\ q \in Requests /\ RequestOK(q) /\ Writing(q) /\ q.row \in Rows /\ s \in Tables
           /\ row' \in [Rows -> {"absent", "live", "deleted"}]
           /\ \A r \in Rows \ {q.row} : row'[r] = row[r]
           /\ row'[q.row] # "absent"
           /\ active' \subseteq {r \in Rows : row'[r] # "absent"}
           /\ \A u \in Tables \ {s} : Shown(u)' = Shown(u)
           /\ raced' = IF MakesActive(q) /\ q.alone THEN raced \ {s} ELSE raced
           /\ MakesActive(q) /\ q.alone => Shown(s)' = {q.row}
           /\ s \in Exclusive /\ ~ MakesActive(q) =>
                 Shown(s)' = IF Withdraws(a) THEN Shown(s) \ {q.row} ELSE Shown(s)
    BY <1>1, Stored
  <1>5. t = s
    BY <1>2 DEF Exclusive, Tables
  <1>6. q.alone
    BY <1>2, <1>5 DEF RequestOK, Writing
  <1>7. Withdraws(a)
    BY <1>2, <1>5, <1>6
  <1>8. Busy(a) /\ ~ Busy(a)'
    BY <1>1, <1>2 DEF StoreRow, Busy, Writing, NoRequest, SInv
  <1> QED
    BY <1>7, <1>8

LEMMA SettingsStart == ASSUME SettingsInit PROVE SInv
  <1>1. \A a \in Admins : req[a] = NoRequest
    BY DEF SettingsInit
  <1> QED
    BY <1>1, NoRequestOK DEF SettingsInit, SInv, RequestOK, Apart, Busy, NoRequest, Writing,
                             OneActiveUnlessRaced

-----------------------------------------------------------------------------
(* Prices.                                                                  *)

(* Math.round is half a unit off, at most.                                 *)
LEMMA RoundError ==
  ASSUME NEW x \in Int
  PROVE  /\ Round(x) \in Int
         /\ 2 * (Round(x) * Unit - x) <= Unit /\ 2 * (x - Round(x) * Unit) <= Unit
  BY DEF Round, Unit

LEMMA FeeIsInt ==
  ASSUME NEW x \in Int, NEW m \in Methods PROVE ExactFee(x, m) \in Int
  <1>1. m.fee_type \in {"PERCENTAGE", "FIXED"} /\ m.fee_value \in Nat
    BY MethodAssumption
  <1>2. x * m.fee_value \in Int
    BY <1>1
  <1>3. Percentage(x, m.fee_value) \in Int
    BY <1>2 DEF Percentage
  <1> QED
    BY <1>1, <1>3 DEF ExactFee, Unit

LEMMA TaxIsInt ==
  ASSUME NEW x \in Int, NEW tax \in Taxes
  PROVE  BundleTax(x, tax) \in Int /\ CustomTax(x, tax) \in Int
  <1>1. tax.value \in Nat
    BY TaxAssumption
  <1>2. x * tax.value \in Int
    BY <1>1
  <1>3. Percentage(x, tax.value) \in Int
    BY <1>2 DEF Percentage
  <1> QED
    BY <1>1, <1>3 DEF BundleTax, CustomTax, Unit

(* Two roundings, of the fee and of the total: a unit, at most.            *)
LEMMA ReceiptWithinOneUnit ==
  ASSUME NEW base \in Int, NEW tax \in Int, NEW m \in Methods
  PROVE  Within(Unit, Receipt(base, tax, m), m)
  <1>1. PICK x \in Int : x = base + tax
    OBVIOUS
  <1>2. PICK exact \in Int : exact = ExactFee(x, m)
    BY FeeIsInt
  <1>3. PICK fee \in Int : fee = Round(exact)
    BY RoundError
  <1>4. 2 * (fee * Unit - exact) <= Unit /\ 2 * (exact - fee * Unit) <= Unit
    BY <1>3, RoundError
  <1>5. PICK due \in Int : due = x + fee * Unit
    BY DEF Unit
  <1>6. PICK total \in Int : total = Round(due)
    BY RoundError
  <1>7. 2 * (total * Unit - due) <= Unit /\ 2 * (due - total * Unit) <= Unit
    BY <1>6, RoundError
  <1>8. Receipt(base, tax, m) =
           [basePrice |-> base, taxAmount |-> tax, gatewayFee |-> fee, totalPrice |-> total]
    BY <1>1, <1>2, <1>3, <1>5, <1>6 DEF Receipt
  <1>9. total * Unit - (x + exact) <= Unit /\ (x + exact) - total * Unit <= Unit
    BY <1>4, <1>5, <1>7 DEF Unit
  <1> QED
    BY <1>1, <1>2, <1>8, <1>9 DEF Within

-----------------------------------------------------------------------------
(* Bundles.                                                                 *)

LEMMA Product == ASSUME NEW x \in Nat, NEW y \in Nat PROVE x * y \in Nat
  OBVIOUS

(* A column keeps the order of what it rounds.                             *)
LEMMA CentsType ==
  ASSUME NEW x \in Nat \cup {NoDiscount}
  PROVE  /\ Cents(x) \in Nat \cup {NoDiscount} /\ Fine(x) \in Nat \cup {NoDiscount}
         /\ (x \in Nat => Cents(x) \in Nat)
  BY DEF Cents, Fine, NoDiscount

LEMMA Rounded ==
  ASSUME NEW x \in Nat \cup {NoDiscount}, NEW y \in Nat, x < y
  PROVE  Cents(x) <= Cents(y)
  <1>1. CASE x = NoDiscount
    BY <1>1, CentsType DEF Cents, NoDiscount
  <1>2. CASE x # NoDiscount
    BY <1>2 DEF Cents, NoDiscount
  <1> QED
    BY <1>1, <1>2

LEMMA RoundedKept ==
  ASSUME NEW x \in Nat \cup {NoDiscount}, NEW y \in Nat, Fine(x) < y
  PROVE  x <= Cents(y)
  <1>1. CASE x = NoDiscount
    BY <1>1, CentsType DEF NoDiscount
  <1>2. CASE x # NoDiscount
    BY <1>2 DEF Cents, Fine, NoDiscount
  <1> QED
    BY <1>1, <1>2

LEMMA NoEditOK == NoEdit \in EditStates /\ NoRow \in BundleRows
  BY DEF NoEdit, EditStates, NoRow, BundleRows, Keep, NoDiscount

LEMMA NoEditIsOK == EditOK(NoEdit)
  BY DEF NoEdit, EditOK

(* A step of one edit, in its own memory.                                  *)
LEMMA OneEdit ==
  ASSUME BInv, NEW e \in Editors, NEW q \in EditStates, EditOK(q),
         edit' = [edit EXCEPT ![e] = q], UNCHANGED <<rate, bundle, crossed>>,
         q.pc # "idle" => /\ edit[e].pc # "idle" /\ q.bundle = edit[e].bundle
                          /\ q.alone = edit[e].alone
  PROVE  BInv'
  <1>1. edit' \in [Editors -> EditStates]
    BY DEF BInv, BundlesTypeOK
  <1>2. ASSUME NEW f \in Editors PROVE EditOK(edit[f])'
    <2>1. EditOK(edit'[f])
      BY DEF BInv, BundlesTypeOK
    <2> QED
      BY <2>1 DEF EditOK
  <1>3. ASSUME NEW f \in Editors, NEW g \in Editors, f # g,
               edit'[f].bundle = edit'[g].bundle, edit'[f].pc # "idle"
        PROVE  ~ edit'[f].alone /\ ~ edit'[g].alone
    <2>1. edit'[g].pc # "idle"
      BY <1>1, <1>2, <1>3, BundleAssumption DEF EditOK
    <2> QED
      BY <1>3, <2>1 DEF BInv, BundlesTypeOK
  <1>4. PricesHold'
    BY DEF BInv, PricesHold, Offered
  <1> QED
    BY <1>1, <1>2, <1>3, <1>4 DEF BInv, BundlesTypeOK

LEMMA UpdateCurrencyInv == ASSUME BInv, NEW c \in Currencies, UpdateCurrency(c) PROVE BInv'
  <1>1. rate' \in [Currencies -> Rates] /\ UNCHANGED <<bundle, edit, crossed>>
    BY DEF UpdateCurrency, BInv, BundlesTypeOK
  <1>2. PricesHold'
    BY <1>1 DEF BInv, PricesHold, Offered
  <1> QED
    BY <1>1, <1>2 DEF BInv, BundlesTypeOK, EditOK

(* A request is received: it has the bundle to itself, or nobody has.      *)
LEMMA ReceiveBundle ==
  ASSUME BInv, NEW e \in Editors, NEW b \in BundleIds,
         NEW pc \in {"reading", "pricing", "removing"}, NEW new \in BOOLEAN,
         Receive(e, b, pc, new),
         new => \A f \in Editors : edit[f].bundle # b,
         ~ new => bundle[b].status # "absent",
         pc = "pricing" => new /\ bundle[b].status = "absent"
  PROVE  BInv'
  <1>1. PICK others \in SUBSET Editors : others = {f \in Editors : edit[f].bundle = b}
    OBVIOUS
  <1> DEFINE other(f) == [edit[f] EXCEPT !.alone = edit[f].alone /\ f \notin others]
  <1>2. /\ edit[e].pc = "idle" /\ UNCHANGED <<rate, bundle>>
        /\ edit' = [f \in Editors |-> 
                       IF f = e
                       THEN [NoEdit EXCEPT !.pc = pc, !.bundle = b, !.new = new,
                                           !.alone = others = {}]
                       ELSE other(f)]
        /\ crossed' = IF others = {} THEN crossed ELSE crossed \cup {b}
    BY <1>1 DEF Receive
  <1>3. crossed \subseteq crossed' /\ crossed' \subseteq BundleIds
        /\ (others # {} => b \in crossed')
    BY <1>2 DEF BInv, BundlesTypeOK
  <1>4. PICK q \in EditStates :
           /\ q = [NoEdit EXCEPT !.pc = pc, !.bundle = b, !.new = new, !.alone = others = {}]
           /\ q.pc = pc /\ q.bundle = b /\ q.new = new /\ q.was = NoRow
           /\ q.alone = (others = {})
    <2>1. PICK alone \in BOOLEAN : alone = (others = {})
      OBVIOUS
    <2> DEFINE r == [NoEdit EXCEPT !.pc = pc, !.bundle = b, !.new = new, !.alone = alone]
    <2>2. r \in EditStates
      BY NoEditOK DEF EditStates
    <2>3. r.pc = pc /\ r.bundle = b /\ r.new = new /\ r.was = NoRow /\ r.alone = alone
      BY DEF NoEdit
    <2> QED
      BY <2>1, <2>2, <2>3
  <1>5. EditOK(q)'
    BY <1>2, <1>3, <1>4 DEF EditOK, BInv
  <1>6. ASSUME NEW f \in Editors
        PROVE  /\ other(f) \in EditStates
               /\ other(f).pc = edit[f].pc /\ other(f).bundle = edit[f].bundle
               /\ other(f).new = edit[f].new /\ other(f).was = edit[f].was
               /\ other(f).coins = edit[f].coins /\ other(f).currency = edit[f].currency
               /\ other(f).discount = edit[f].discount /\ other(f).price = edit[f].price
               /\ other(f).alone = (edit[f].alone /\ f \notin others)
    BY DEF BInv, BundlesTypeOK, EditStates
  <1> HIDE DEF other
  <1>7. ASSUME NEW f \in Editors, NEW p, p = other(f) PROVE EditOK(p)'
    <2>1. EditOK(edit[f])
      BY DEF BInv
    <2>2. f \in others => edit[f].bundle = b
      BY <1>1
    <2> QED
      BY <1>2, <1>3, <1>6, <1>7, <2>1, <2>2 DEF EditOK, Kept
  <1>8. ASSUME NEW f \in Editors PROVE edit'[f] \in EditStates /\ EditOK(edit[f])'
    <2>1. CASE f = e
      BY <1>2, <1>4, <1>5, <2>1
    <2>2. CASE f # e
      <3>1. PICK p : p = other(f)
        OBVIOUS
      <3>2. edit'[f] = p /\ EditOK(p)' /\ p \in EditStates
        BY <1>2, <1>6, <1>7, <2>2, <3>1
      <3> QED
        BY <3>2
    <2> QED
      BY <2>1, <2>2
  <1>9. ASSUME NEW f \in Editors, NEW g \in Editors, f # g,
               edit'[f].bundle = edit'[g].bundle, edit'[f].pc # "idle"
        PROVE  ~ edit'[f].alone /\ ~ edit'[g].alone
    <2>1. ASSUME NEW d \in Editors, other(d).bundle = b
          PROVE  d \in others /\ ~ other(d).alone
      BY <1>1, <1>6, <2>1
    <2>2. CASE f = e
      <3>1. edit'[f] = q /\ edit'[g] = other(g)
        BY <1>2, <1>4, <1>9, <2>2
      <3>2. g \in others /\ ~ other(g).alone
        BY <1>4, <1>9, <2>1, <3>1
      <3> QED
        BY <1>4, <3>1, <3>2
    <2>3. CASE g = e
      <3>1. edit'[g] = q /\ edit'[f] = other(f)
        BY <1>2, <1>4, <1>9, <2>3
      <3>2. f \in others /\ ~ other(f).alone
        BY <1>4, <1>9, <2>1, <3>1
      <3> QED
        BY <1>4, <3>1, <3>2
    <2>4. CASE f # e /\ g # e
      <3>1. edit'[g] = other(g) /\ edit'[f] = other(f)
        BY <1>2, <2>4
      <3>2. edit[f].bundle = edit[g].bundle /\ edit[f].pc # "idle"
        BY <1>6, <1>9, <3>1
      <3>3. ~ edit[f].alone /\ ~ edit[g].alone
        BY <1>9, <3>2 DEF BInv
      <3> QED
        BY <1>6, <3>1, <3>3
    <2> QED
      BY <2>2, <2>3, <2>4
  <1>10. PricesHold'
    BY <1>2, <1>3 DEF BInv, PricesHold, Offered
  <1>11. edit' \in [Editors -> EditStates]
    BY <1>2, <1>8
  <1> QED
    BY <1>2, <1>3, <1>8, <1>9, <1>10, <1>11 DEF BInv, BundlesTypeOK

LEMMA RequestBundleInv ==
  ASSUME BInv, NEW e \in Editors, NEW b \in BundleIds,
         createBundle(e, b) \/ updateBundle(e, b) \/ removeBundle(e, b)
  PROVE  BInv'
  <1>1. CASE createBundle(e, b)
    <2>1. bundle[b].status = "absent" /\ (\A f \in Editors : edit[f].bundle # b)
          /\ Receive(e, b, "pricing", TRUE)
      BY <1>1 DEF createBundle
    <2> QED
      BY <2>1, ReceiveBundle
  <1>2. CASE updateBundle(e, b) \/ removeBundle(e, b)
    <2>1. bundle[b].status # "absent"
          /\ (Receive(e, b, "reading", FALSE) \/ Receive(e, b, "removing", FALSE))
      BY <1>2 DEF updateBundle, removeBundle
    <2> QED
      BY <2>1, ReceiveBundle
  <1> QED
    BY <1>1, <1>2

LEMMA RefuseInv == ASSUME BInv, NEW e \in Editors, Refuse(e) PROVE BInv'
  BY NoEditOK, NoEditIsOK, OneEdit DEF Refuse, NoEdit

LEMMA ReadBundleInv == ASSUME BInv, NEW e \in Editors, ReadBundle(e) PROVE BInv'
  <1>1. /\ edit[e] \in EditStates /\ EditOK(edit[e]) /\ edit[e].pc = "reading"
        /\ edit[e].bundle \in BundleIds
    BY DEF BInv, BundlesTypeOK, ReadBundle, EditOK
  <1>2. CASE bundle[edit[e].bundle].status # "live"
    BY <1>2, RefuseInv DEF ReadBundle
  <1>3. CASE bundle[edit[e].bundle].status = "live"
    <2>1. PICK was \in BundleRows : was = bundle[edit[e].bundle]
      BY <1>1 DEF BInv, BundlesTypeOK
    <2> DEFINE q == [edit[e] EXCEPT !.pc = "pricing", !.was = was]
    <2>2. edit' = [edit EXCEPT ![e] = q] /\ UNCHANGED <<rate, bundle, crossed>>
      BY <1>3, <2>1 DEF ReadBundle, Proceed
    <2>3. /\ q \in EditStates /\ q.pc = "pricing" /\ q.bundle = edit[e].bundle
          /\ q.new = edit[e].new /\ q.was = was /\ q.alone = edit[e].alone
      BY <1>1 DEF EditStates
    <2> HIDE DEF q
    <2>4. was.currency \in Currencies
      BY <1>1, <1>3, <2>1 DEF BInv
    <2>5. EditOK(q)
      BY <1>1, <2>1, <2>3, <2>4 DEF EditOK
    <2> QED
      BY <1>1, <2>2, <2>3, <2>5, OneEdit
  <1> QED
    BY <1>2, <1>3

LEMMA PriceBundleInv == ASSUME BInv, NEW e \in Editors, PriceBundle(e) PROVE BInv'
  <1>1. /\ edit[e] \in EditStates /\ EditOK(edit[e]) /\ edit[e].pc = "pricing"
        /\ edit[e].bundle \in BundleIds
    BY DEF BInv, BundlesTypeOK, PriceBundle, EditOK
  <1>2. CASE Refuse(e)
    BY <1>2, RefuseInv
  <1>3. CASE ~ Refuse(e)
    <2>1. PICK was \in BundleRows : was = edit[e].was
      BY <1>1 DEF EditStates
    <2>2. PICK body \in Body(edit[e].new) :
             LET q == [edit[e] EXCEPT !.coins = body.coins, !.currency = body.currency,
                                      !.discount = body.discount]
                 calculatedPrice ==
                     Sent(q.coins, q.was.coins) * rate[Sent(q.currency, q.was.currency)]
             IN
             /\ newDiscountedPrice(q) < calculatedPrice
             /\ Proceed(e, [q EXCEPT !.pc = IF q.new THEN "storing" ELSE "verifying",
                                     !.was = NoRow, !.price = calculatedPrice])
      BY <1>3 DEF PriceBundle
    <2>3. /\ body.coins \in CoinAmounts \cup {Keep} /\ body.currency \in Currencies \cup {Keep}
          /\ body.discount \in Discounts \cup {NoDiscount, Keep}
          /\ edit[e].new => body.coins \in CoinAmounts /\ body.currency \in Currencies
                            /\ body.discount \in Discounts \cup {NoDiscount}
      BY DEF Body
    <2>4. PICK r \in Rates : r = rate[Sent(body.currency, was.currency)]
      <3>1. Sent(body.currency, was.currency) \in Currencies
        BY <1>1, <2>1, <2>3, BundleAssumption DEF Sent, EditOK
      <3> QED
        BY <3>1 DEF BInv, BundlesTypeOK
    <2>5. PICK coins \in Nat : coins = Sent(body.coins, was.coins)
      BY <2>1, <2>3, BundleAssumption DEF Sent, BundleRows
    <2>6. PICK price \in Nat : price = coins * r
      BY Product, BundleAssumption
    <2> DEFINE q == [edit[e] EXCEPT !.coins = body.coins, !.currency = body.currency,
                                    !.discount = body.discount]
               s == [q EXCEPT !.pc = IF q.new THEN "storing" ELSE "verifying",
                              !.was = NoRow, !.price = price]
    <2>7. /\ q \in EditStates /\ q.coins = body.coins /\ q.currency = body.currency
          /\ q.discount = body.discount /\ q.was = was /\ q.new = edit[e].new
          /\ q.bundle = edit[e].bundle /\ q.alone = edit[e].alone
      BY <1>1, <2>1, <2>3 DEF EditStates
    <2>8. Sent(body.discount, Fine(was.discount)) < price /\ Proceed(e, s)
      BY <2>2, <2>4, <2>5, <2>6, <2>7 DEF newDiscountedPrice
    <2> HIDE DEF q
    <2>9. /\ s \in EditStates /\ s.pc \in {"storing", "verifying"}
          /\ s.coins = body.coins /\ s.currency = body.currency /\ s.discount = body.discount
          /\ s.new = edit[e].new /\ s.bundle = edit[e].bundle /\ s.alone = edit[e].alone
          /\ s.price = price
      BY <2>7, NoEditOK DEF EditStates
    <2> HIDE DEF s
    <2>10. s.alone => Good(Kept(s, bundle[s.bundle]), Sent(s.coins, bundle[s.bundle].coins),
                           Cents(s.price))
      <3>1. s.alone => was = bundle[s.bundle]
        BY <1>1, <2>1, <2>9 DEF EditOK
      <3>2. Kept(s, was) <= Cents(price)
        <4>1. CASE body.discount = Keep
          <5>1. was.discount \in Nat \cup {NoDiscount} /\ Fine(was.discount) < price
            BY <2>8, <4>1 DEF Sent, BundleRows
          <5> QED
            BY <2>9, <4>1, <5>1, RoundedKept DEF Kept
        <4>2. CASE body.discount # Keep
          <5>1. body.discount \in Nat \cup {NoDiscount} /\ body.discount < price
            BY <2>3, <2>8, <4>2, BundleAssumption DEF Sent
          <5> QED
            BY <2>9, <4>2, <5>1, Rounded DEF Kept
        <4> QED
          BY <4>1, <4>2
      <3> QED
        BY <2>5, <2>6, <2>9, <3>1, <3>2 DEF Good
    <2>11. EditOK(s)
      BY <1>1, <2>3, <2>9, <2>10, BundleAssumption DEF EditOK, Keep, NoDiscount
    <2> QED
      BY <1>1, <2>8, <2>9, <2>11, OneEdit DEF Proceed
  <1> QED
    BY <1>2, <1>3

LEMMA VerifyBundleInv == ASSUME BInv, NEW e \in Editors, VerifyBundle(e) PROVE BInv'
  <1>1. /\ edit[e] \in EditStates /\ EditOK(edit[e]) /\ edit[e].pc = "verifying"
    BY DEF BInv, BundlesTypeOK, VerifyBundle
  <1>2. CASE Refuse(e)
    BY <1>2, RefuseInv
  <1>3. CASE ~ Refuse(e)
    <2> DEFINE q == [edit[e] EXCEPT !.pc = "storing"]
    <2>1. edit' = [edit EXCEPT ![e] = q] /\ UNCHANGED <<rate, bundle, crossed>>
      BY <1>3 DEF VerifyBundle, Proceed
    <2>2. /\ q \in EditStates /\ q.pc = "storing" /\ q.bundle = edit[e].bundle
          /\ q.new = edit[e].new /\ q.was = edit[e].was /\ q.alone = edit[e].alone
          /\ q.coins = edit[e].coins /\ q.currency = edit[e].currency
          /\ q.discount = edit[e].discount /\ q.price = edit[e].price
      BY <1>1 DEF EditStates
    <2> HIDE DEF q
    <2>3. EditOK(q)
      BY <1>1, <2>2 DEF EditOK, Kept
    <2> QED
      BY <1>1, <2>1, <2>2, <2>3, OneEdit
  <1> QED
    BY <1>2, <1>3

(* The row of one bundle is written.  What others on it will store may no  *)
(* longer be good: they have not had it to themselves.                     *)
LEMMA WriteInv ==
  ASSUME BInv, NEW e \in Editors, NEW b \in BundleIds, NEW new \in BundleRows,
         edit[e].bundle = b, edit[e].pc # "idle",
         bundle' = [bundle EXCEPT ![b] = new], edit' = [edit EXCEPT ![e] = NoEdit],
         UNCHANGED rate,
         new.status # "absent", new.currency \in Currencies,
         crossed' = crossed \/ (edit[e].alone /\ crossed' = crossed \ {b}),
         new.status = "live" /\ b \notin crossed' => Good(new.discount, new.coins, new.price)
  PROVE  BInv'
  <1>1. /\ bundle' \in [BundleIds -> BundleRows] /\ edit' \in [Editors -> EditStates]
        /\ crossed' \subseteq BundleIds
    BY NoEditOK DEF BInv, BundlesTypeOK
  <1>2. ASSUME NEW f \in Editors, f # e PROVE EditOK(edit[f])'
    <2>1. PICK q \in EditStates : q = edit[f] /\ edit'[f] = q /\ EditOK(q)
      BY <1>2 DEF BInv, BundlesTypeOK
    <2>2. q.pc # "idle" /\ q.bundle = b => ~ q.alone /\ ~ edit[e].alone
      BY <1>2, <2>1 DEF BInv
    <2>3. q.pc # "idle" /\ q.alone => bundle'[q.bundle] = bundle[q.bundle]
      BY <2>1, <2>2 DEF EditOK, BInv, BundlesTypeOK
    <2>4. q.pc # "idle" /\ ~ q.alone => q.bundle \in crossed'
      BY <2>1, <2>2 DEF EditOK
    <2>5. q.pc # "idle" /\ ~ q.new => bundle'[q.bundle].status # "absent"
      BY <2>1 DEF EditOK, BInv, BundlesTypeOK
    <2>6. EditOK(q)'
      BY <2>1, <2>3, <2>4, <2>5 DEF EditOK
    <2> QED
      BY <2>1, <2>6
  <1>3. EditOK(edit[e])'
    BY NoEditIsOK DEF EditOK, NoEdit, BInv, BundlesTypeOK
  <1>4. ASSUME NEW c \in BundleIds
        PROVE  IF bundle'[c].status = "absent" THEN bundle'[c] = NoRow
               ELSE bundle'[c].currency \in Currencies
    BY DEF BInv, BundlesTypeOK
  <1>5. ASSUME NEW f \in Editors, NEW g \in Editors, f # g,
               edit'[f].bundle = edit'[g].bundle, edit'[f].pc # "idle"
        PROVE  ~ edit'[f].alone /\ ~ edit'[g].alone
    <2>1. f # e /\ edit'[f].bundle \in BundleIds
      BY <1>2, <1>5 DEF EditOK, NoEdit, BInv, BundlesTypeOK
    <2>2. g # e
      BY <1>5, <2>1, BundleAssumption DEF NoEdit, BInv, BundlesTypeOK
    <2> QED
      BY <1>5, <2>1, <2>2 DEF BInv, BundlesTypeOK
  <1>6. PricesHold'
    <2> SUFFICES ASSUME NEW c \in BundleIds, bundle'[c].status = "live", c \notin crossed'
                 PROVE  Good(bundle'[c].discount, bundle'[c].coins, bundle'[c].price)
      BY DEF PricesHold, Offered, Good
    <2>1. CASE c = b
      BY <2>1 DEF BInv, BundlesTypeOK
    <2>2. CASE c # b
      BY <2>2 DEF BInv, BundlesTypeOK, PricesHold, Offered, Good
    <2> QED
      BY <2>1, <2>2
  <1> QED
    BY <1>1, <1>2, <1>3, <1>4, <1>5, <1>6 DEF BInv, BundlesTypeOK

LEMMA StoreBundleInv == ASSUME BInv, NEW e \in Editors, StoreBundle(e) PROVE BInv'
  <1>1. PICK q \in EditStates : q = edit[e] /\ EditOK(q) /\ q.pc = "storing"
    BY DEF BInv, BundlesTypeOK, StoreBundle
  <1>2. PICK b \in BundleIds : b = q.bundle
    BY <1>1 DEF EditOK
  <1>3. PICK old \in BundleRows : old = bundle[b]
    BY DEF BInv, BundlesTypeOK
  <1> DEFINE new == StoredRow(q, old)
  <1>4. /\ bundle' = [bundle EXCEPT ![b] = new] /\ edit' = [edit EXCEPT ![e] = NoEdit]
        /\ crossed' = IF q.alone THEN crossed \ {b} ELSE crossed
        /\ UNCHANGED rate
    BY <1>1, <1>2, <1>3 DEF StoreBundle
  <1>5. /\ new.status = (IF q.new THEN "live" ELSE old.status)
        /\ new.coins = Sent(q.coins, old.coins) /\ new.currency = Sent(q.currency, old.currency)
        /\ new.price = Cents(q.price) /\ new.discount = Kept(q, old)
        /\ new = [status |-> new.status, coins |-> new.coins, currency |-> new.currency,
                  price |-> new.price, discount |-> new.discount]
    BY DEF StoredRow, Fields, Kept
  <1>6. new.status \in {"live", "deleted"} /\ new.currency \in Currencies
    <2>1. old.status # "absent" => old.currency \in Currencies
      BY <1>3 DEF BInv
    <2> QED
      BY <1>1, <1>2, <1>3, <1>5, <2>1 DEF EditOK, Sent, EditStates, BundleRows
  <1>7. new \in BundleRows
    <2>1. new.coins \in CoinAmounts \cup {0} /\ new.price \in Nat
      BY <1>1, <1>3, <1>5, CentsType DEF EditStates, BundleRows, Sent
    <2>2. new.discount \in Nat \cup {NoDiscount}
      <3>1. CASE q.discount = Keep
        BY <1>3, <1>5, <3>1 DEF BundleRows, Kept
      <3>2. CASE q.discount # Keep
        <4>1. q.discount \in Nat \cup {NoDiscount}
          BY <1>1, <3>2, BundleAssumption DEF EditStates
        <4> QED
          BY <1>5, <3>2, <4>1, CentsType DEF Kept
      <3> QED
        BY <3>1, <3>2
    <2> HIDE DEF new
    <2> QED
      BY <1>5, <1>6, <2>1, <2>2 DEF BundleRows
  <1> HIDE DEF new
  <1>8. b \notin crossed' => Good(new.discount, new.coins, new.price)
    <2>1. b \notin crossed' => q.alone
      BY <1>1, <1>2, <1>4 DEF EditOK
    <2> QED
      BY <1>1, <1>2, <1>3, <1>5, <2>1 DEF EditOK
  <1> QED
    BY <1>1, <1>2, <1>4, <1>6, <1>7, <1>8, WriteInv

LEMMA RemoveBundleInv == ASSUME BInv, NEW e \in Editors, RemoveBundle(e) PROVE BInv'
  <1>1. PICK b \in BundleIds : b = edit[e].bundle
    BY DEF RemoveBundle, BInv, EditOK
  <1>2. /\ edit[e].pc = "removing" /\ edit' = [edit EXCEPT ![e] = NoEdit]
        /\ UNCHANGED <<rate, crossed>>
    BY DEF RemoveBundle
  <1>3. CASE bundle[b].status = "live"
    <2> DEFINE new == [bundle[b] EXCEPT !.status = "deleted"]
    <2>1. bundle' = [bundle EXCEPT ![b] = new]
      BY <1>1, <1>3 DEF RemoveBundle, BInv, BundlesTypeOK
    <2>2. bundle[b] \in BundleRows /\ bundle[b].currency \in Currencies
      BY <1>3 DEF BInv, BundlesTypeOK
    <2>3. new \in BundleRows /\ new.status = "deleted" /\ new.currency = bundle[b].currency
      BY <2>2 DEF BundleRows
    <2> HIDE DEF new
    <2> QED
      BY <1>1, <1>2, <2>1, <2>2, <2>3, WriteInv
  <1>4. CASE bundle[b].status # "live"
    BY <1>1, <1>2, <1>4, NoEditOK, NoEditIsOK, OneEdit DEF RemoveBundle, NoEdit
  <1> QED
    BY <1>3, <1>4

LEMMA BundlesStep == ASSUME BInv, [BundlesNext]_bundleVars PROVE BInv'
  <1>1. CASE UNCHANGED bundleVars
    BY <1>1 DEF bundleVars, BInv, BundlesTypeOK, EditOK, PricesHold, Offered
  <1> QED
    BY <1>1, UpdateCurrencyInv, RequestBundleInv, ReadBundleInv, PriceBundleInv,
       VerifyBundleInv, StoreBundleInv, RemoveBundleInv DEF BundlesNext

LEMMA BundlesStart == ASSUME BundlesInit PROVE BInv
  <1>1. /\ \A e \in Editors : edit[e] = NoEdit
        /\ \A b \in BundleIds : bundle[b] = NoRow
    BY DEF BundlesInit
  <1> QED
    BY <1>1, NoEditOK, NoEditIsOK DEF BundlesInit, BInv, BundlesTypeOK, PricesHold, Offered,
                                      NoEdit, NoRow

-----------------------------------------------------------------------------
(* Plans.                                                                   *)

LEMMA NoUpsertOK == NoUpsert \in Upserts
  BY PlanAssumption DEF NoUpsert, Upserts

LEMMA NoUpsertIsOK == UpsertOK(NoUpsert) /\ \A p : NoUpsert.wrote = {} /\ NoUpsert.dropped = {}
  BY DEF NoUpsert, UpsertOK, InTransaction

(* A step of one request that commits nothing.                             *)
LEMMA OneUpsert ==
  ASSUME PInv, NEW a \in Planners, NEW q \in Upserts, UpsertOK(q), Advance(a, q),
         edits' \in 0..MaxEdits, edits <= edits', q.edit <= edits',
         \A b \in Planners \ {a} : Disjoint(q, upsert[b])
  PROVE  PInv'
  <1>1. upsert' = [upsert EXCEPT ![a] = q] /\ UNCHANGED <<plan, part, asked>>
    BY DEF Advance
  <1>2. PlansTypeOK'
    BY <1>1 DEF PInv, PlansTypeOK
  <1>3. ASSUME NEW p \in PlanIds PROVE plan'[p].edit <= edits'
    <2>1. plan[p].edit <= edits /\ plan[p].edit \in Int /\ edits \in Int
      BY PlanAssumption DEF PInv, PlansTypeOK, PlanRows
    <2> QED
      BY <1>1, <2>1
  <1>8. ASSUME NEW b \in Planners PROVE upsert'[b].edit <= edits'
    <2>1. upsert[b].edit <= edits /\ upsert[b].edit \in Int /\ edits \in Int
      BY PlanAssumption DEF PInv, PlansTypeOK, Upserts
    <2>2. upsert'[b] = IF b = a THEN q ELSE upsert[b]
      BY <1>1 DEF PInv, PlansTypeOK
    <2> QED
      BY <2>1, <2>2
  <1>4. ASSUME NEW b \in Planners PROVE UpsertOK(upsert[b])'
    <2>1. UpsertOK(upsert'[b])
      BY <1>1 DEF PInv, PlansTypeOK
    <2> QED
      BY <1>1, <2>1 DEF UpsertOK
  <1>5. ASSUME NEW b \in Planners, NEW c \in Planners, b # c
        PROVE  Disjoint(upsert'[b], upsert'[c])
    <2>1. CASE b = a
      BY <1>1, <1>5, <2>1 DEF PInv, PlansTypeOK
    <2>2. CASE c = a
      <3>1. Disjoint(q, upsert[b])
        BY <1>5, <2>2
      <3>2. Disjoint(upsert[b], q)
        BY <3>1 DEF Disjoint
      <3> QED
        BY <1>1, <1>5, <2>2, <3>2 DEF PInv, PlansTypeOK
    <2>3. CASE b # a /\ c # a
      BY <1>1, <1>5, <2>3 DEF PInv, PlansTypeOK
    <2> QED
      BY <2>1, <2>2, <2>3
  <1>6. PlanIsWhole'
    BY <1>1 DEF PInv, PlanIsWhole, PartsOf
  <1>7. \A b, c \in Planners : b # c => Disjoint(upsert[b], upsert[c])'
    BY <1>5 DEF Disjoint, InTransaction
  <1> QED
    BY <1>2, <1>3, <1>4, <1>6, <1>7, <1>8 DEF PInv

LEMMA AbandonInv ==
  ASSUME PInv, NEW a \in Planners, Advance(a, NoUpsert), UNCHANGED edits PROVE PInv'
  <1>1. \A b \in Planners \ {a} : Disjoint(NoUpsert, upsert[b])
    BY DEF NoUpsert, Disjoint, InTransaction
  <1>2. edits' \in 0..MaxEdits /\ edits <= edits' /\ NoUpsert.edit <= edits'
    BY DEF PInv, PlansTypeOK, NoUpsert
  <1> QED
    BY <1>1, <1>2, NoUpsertOK, NoUpsertIsOK, OneUpsert

LEMMA UpsertPlanInv ==
  ASSUME PInv, NEW a \in Planners, NEW p \in PlanIds, upsertPlan(a, p) PROVE PInv'
  <1>1. PICK pc \in {"base", "verifying"}, new \in BOOLEAN :
           Advance(a, [NoUpsert EXCEPT !.pc = pc, !.plan = p, !.new = new])
    BY DEF upsertPlan
  <1> DEFINE q == [NoUpsert EXCEPT !.pc = pc, !.plan = p, !.new = new]
  <1>2. q \in Upserts /\ q.pc = pc /\ q.plan = p /\ q.wrote = {} /\ q.dropped = {}
        /\ q.edit = 0
    <2>1. q \in Upserts
      BY NoUpsertOK DEF Upserts
    <2> QED
      BY <2>1 DEF NoUpsert
  <1>3. Advance(a, q)
    BY <1>1
  <1> HIDE DEF q
  <1>4. UpsertOK(q) /\ \A b \in Planners \ {a} : Disjoint(q, upsert[b])
    BY <1>2 DEF UpsertOK, Disjoint, InTransaction
  <1>5. edits' \in 0..MaxEdits /\ edits <= edits' /\ q.edit <= edits'
    BY <1>2 DEF upsertPlan, PInv, PlansTypeOK
  <1> QED
    BY <1>2, <1>3, <1>4, <1>5, OneUpsert

LEMMA VerifyPlanInv == ASSUME PInv, NEW a \in Planners, VerifyPlan(a) PROVE PInv'
  <1>1. /\ upsert[a] \in Upserts /\ UpsertOK(upsert[a]) /\ upsert[a].pc = "verifying"
        /\ UNCHANGED edits
    BY DEF VerifyPlan, PInv, PlansTypeOK
  <1>2. CASE Advance(a, NoUpsert)
    BY <1>1, <1>2, AbandonInv
  <1>3. CASE ~ Advance(a, NoUpsert)
    <2> DEFINE q == [upsert[a] EXCEPT !.pc = "base"]
    <2>1. Advance(a, q)
      BY <1>3 DEF VerifyPlan
    <2>2. /\ q \in Upserts /\ q.pc = "base" /\ q.plan = upsert[a].plan
          /\ q.wrote = upsert[a].wrote /\ q.dropped = upsert[a].dropped
          /\ q.edit = upsert[a].edit
      BY <1>1 DEF Upserts
    <2> HIDE DEF q
    <2>3. UpsertOK(q) /\ \A b \in Planners \ {a} : Disjoint(q, upsert[b])
      BY <1>1, <2>2 DEF UpsertOK, Disjoint, InTransaction
    <2>4. edits' \in 0..MaxEdits /\ edits <= edits' /\ q.edit <= edits'
      BY <1>1, <2>2 DEF PInv, PlansTypeOK
    <2> QED
      BY <2>1, <2>2, <2>3, <2>4, OneUpsert
  <1> QED
    BY <1>2, <1>3

LEMMA WriteBaseInv == ASSUME PInv, NEW a \in Planners, WriteBase(a) PROVE PInv'
  <1>1. /\ upsert[a] \in Upserts /\ UpsertOK(upsert[a]) /\ upsert[a].pc = "base"
        /\ upsert[a].plan \in PlanIds
    BY DEF WriteBase, PInv, PlansTypeOK, UpsertOK
  <1>2. PICK n \in 0..MaxEdits : n = edits + 1
    BY PlanAssumption DEF WriteBase, PInv, PlansTypeOK
  <1> DEFINE q == [upsert[a] EXCEPT !.pc = "removing", !.edit = n]
  <1>3. Advance(a, q) /\ edits' = n
    BY <1>2 DEF WriteBase
  <1>4. /\ q \in Upserts /\ q.pc = "removing" /\ q.plan = upsert[a].plan /\ q.edit = n
        /\ q.wrote = upsert[a].wrote /\ q.dropped = upsert[a].dropped
    BY <1>1 DEF Upserts
  <1> HIDE DEF q
  <1>5. plan[q.plan].edit <= q.edit
    <2>1. plan[q.plan].edit <= edits /\ plan[q.plan].edit \in Int /\ edits \in Int
      BY <1>1, <1>4, PlanAssumption DEF PInv, PlansTypeOK, PlanRows
    <2> QED
      BY <1>2, <1>4, <2>1
  <1>6. UpsertOK(q)
    BY <1>1, <1>4, <1>5 DEF UpsertOK
  <1>7. ASSUME NEW b \in Planners \ {a} PROVE Disjoint(q, upsert[b])
    <2>1. InTransaction(upsert[b]) => upsert[b].plan # upsert[a].plan
      BY DEF WriteBase, BaseLocked, InTransaction
    <2>2. q.wrote = {} /\ q.dropped = {}
      BY <1>1, <1>4 DEF UpsertOK
    <2> QED
      BY <1>4, <2>1, <2>2 DEF Disjoint
  <1>8. edits' \in 0..MaxEdits /\ edits <= edits' /\ q.edit <= edits'
    BY <1>2, <1>3, <1>4 DEF PInv, PlansTypeOK
  <1> QED
    BY <1>3, <1>4, <1>6, <1>7, <1>8, OneUpsert

LEMMA RemovePartsInv == ASSUME PInv, NEW a \in Planners, RemoveParts(a) PROVE PInv'
  <1>1. /\ upsert[a] \in Upserts /\ UpsertOK(upsert[a]) /\ upsert[a].pc = "removing"
    BY DEF RemoveParts, PInv, PlansTypeOK
  <1>2. PICK D \in SUBSET (OwnParts(a) \ PartLocked(a)) :
           Advance(a, [upsert[a] EXCEPT !.pc = "upserting", !.dropped = D])
    BY DEF RemoveParts
  <1> DEFINE q == [upsert[a] EXCEPT !.pc = "upserting", !.dropped = D]
  <1>3. D \subseteq Parts /\ \A x \in D : part[x].plan = upsert[a].plan
    BY <1>1 DEF OwnParts, PlanOf, UpsertOK
  <1>4. Advance(a, q)
    BY <1>2
  <1>5. /\ q \in Upserts /\ q.pc = "upserting" /\ q.plan = upsert[a].plan
        /\ q.edit = upsert[a].edit /\ q.wrote = {} /\ q.dropped = D
    BY <1>1, <1>3 DEF Upserts, UpsertOK
  <1> HIDE DEF q
  <1>6. UpsertOK(q)
    BY <1>1, <1>3, <1>5 DEF UpsertOK, InTransaction
  <1>7. ASSUME NEW b \in Planners \ {a} PROVE Disjoint(q, upsert[b])
    <2>1. D \cap (upsert[b].wrote \cup upsert[b].dropped) = {}
      BY DEF PartLocked
    <2>2. InTransaction(upsert[b]) => upsert[b].plan # upsert[a].plan
      BY <1>1 DEF PInv, Disjoint, InTransaction
    <2> QED
      BY <1>5, <2>1, <2>2 DEF Disjoint
  <1>8. edits' \in 0..MaxEdits /\ edits <= edits' /\ q.edit <= edits'
    BY <1>5 DEF RemoveParts, PInv, PlansTypeOK
  <1> QED
    BY <1>4, <1>5, <1>6, <1>7, <1>8, OneUpsert

LEMMA UpsertPartInv == ASSUME PInv, NEW a \in Planners, UpsertPart(a) PROVE PInv'
  <1>1. /\ upsert[a] \in Upserts /\ UpsertOK(upsert[a]) /\ upsert[a].pc = "upserting"
    BY DEF UpsertPart, PInv, PlansTypeOK
  <1>2. PICK x \in Parts \ (upsert[a].wrote \cup PartLocked(a)) : InTx(a, x)
    BY DEF UpsertPart
  <1>3. PICK wrote \in SUBSET Parts : wrote = upsert[a].wrote \cup {x}
    BY <1>1 DEF Upserts
  <1> DEFINE q == [upsert[a] EXCEPT !.wrote = wrote]
  <1>4. Advance(a, q)
    BY <1>2, <1>3 DEF InTx
  <1>5. /\ q \in Upserts /\ q.pc = "upserting" /\ q.plan = upsert[a].plan
        /\ q.edit = upsert[a].edit /\ q.wrote = wrote /\ q.dropped = upsert[a].dropped
    BY <1>1 DEF Upserts
  <1> HIDE DEF q
  <1>6. UpsertOK(q)
    BY <1>1, <1>5 DEF UpsertOK, InTransaction
  <1>7. ASSUME NEW b \in Planners \ {a} PROVE Disjoint(q, upsert[b])
    <2>1. x \notin upsert[b].wrote \cup upsert[b].dropped
      BY <1>2 DEF PartLocked
    <2>2. Disjoint(upsert[a], upsert[b])
      BY DEF PInv
    <2> QED
      BY <1>1, <1>3, <1>5, <2>1, <2>2 DEF Disjoint, InTransaction
  <1>8. edits' \in 0..MaxEdits /\ edits <= edits' /\ q.edit <= edits'
    BY <1>5 DEF UpsertPart, PInv, PlansTypeOK
  <1> QED
    BY <1>4, <1>5, <1>6, <1>7, <1>8, OneUpsert

LEMMA CommitPlanInv == ASSUME PInv, NEW a \in Planners, CommitPlan(a) PROVE PInv'
  <1>1. PICK q \in Upserts : q = upsert[a] /\ UpsertOK(q) /\ q.pc = "upserting"
    BY DEF CommitPlan, PInv, PlansTypeOK
  <1>2. PICK p \in PlanIds : p = q.plan
    BY <1>1 DEF UpsertOK
  <1>3. PICK status \in {"absent", "live", "deleted"} :
           plan' = [plan EXCEPT ![p] = [status |-> status, edit |-> q.edit]]
    <2>1. plan[p].status \in {"absent", "live", "deleted"}
      BY DEF PInv, PlansTypeOK, PlanRows
    <2> QED
      BY <1>1, <1>2, <2>1 DEF CommitPlan
  <1>4. /\ part' \in [Parts -> PartRows]
        /\ \A x \in Parts : x \in q.wrote => part'[x].plan = p /\ part'[x].edit = q.edit
        /\ \A x \in Parts :
              x \notin q.wrote => part'[x].plan = part[x].plan /\ part'[x].edit = part[x].edit
    <2>1. part' = [x \in Parts |->
             IF x \in q.wrote
             THEN [plan |-> p, gone |-> part[x].gone \/ x \in q.dropped, edit |-> q.edit]
             ELSE IF x \in q.dropped THEN [part[x] EXCEPT !.gone = TRUE]
             ELSE part[x]]
      BY <1>1, <1>2 DEF CommitPlan, PartRow
    <2>2. \A x \in Parts : part[x] \in PartRows
      BY DEF PInv, PlansTypeOK
    <2>3. q.edit \in 0..MaxEdits
      BY <1>1 DEF Upserts
    <2>4. ASSUME NEW x \in Parts
          PROVE  /\ part'[x] \in PartRows
                 /\ x \in q.wrote => part'[x].plan = p /\ part'[x].edit = q.edit
                 /\ x \notin q.wrote =>
                       part'[x].plan = part[x].plan /\ part'[x].edit = part[x].edit
      <3>1. CASE x \in q.wrote
        <4>1. PICK gone \in BOOLEAN : gone = (part[x].gone \/ x \in q.dropped)
          OBVIOUS
        <4>2. part'[x] = [plan |-> p, gone |-> gone, edit |-> q.edit]
          BY <2>1, <3>1, <4>1
        <4> QED
          BY <2>3, <3>1, <4>2 DEF PartRows
      <3>2. CASE x \notin q.wrote
        <4>1. part'[x] = part[x] \/ part'[x] = [part[x] EXCEPT !.gone = TRUE]
          BY <2>1, <3>2
        <4> QED
          BY <2>2, <3>2, <4>1 DEF PartRows
      <3> QED
        BY <3>1, <3>2
    <2> QED
      BY <2>1, <2>4
  <1>5. /\ asked' = [asked EXCEPT ![p] = q.wrote] /\ upsert' = [upsert EXCEPT ![a] = NoUpsert]
        /\ edits' = edits
    BY <1>1, <1>2 DEF CommitPlan
  <1>6. PlansTypeOK'
    BY <1>1, <1>3, <1>4, <1>5, NoUpsertOK DEF PInv, PlansTypeOK, PlanRows, Upserts
  <1>7. /\ plan'[p].edit = q.edit
        /\ \A r \in PlanIds \ {p} : plan'[r] = plan[r]
    BY <1>3 DEF PInv, PlansTypeOK
  <1>8. ASSUME NEW r \in PlanIds PROVE plan'[r].edit <= edits'
    BY <1>1, <1>5, <1>7 DEF PInv
  <1>13. ASSUME NEW b \in Planners PROVE upsert'[b].edit <= edits'
    <2>1. CASE b = a
      BY <1>5, <2>1, PlanAssumption DEF PInv, PlansTypeOK, NoUpsert
    <2>2. CASE b # a
      BY <1>5, <2>2 DEF PInv, PlansTypeOK
    <2> QED
      BY <2>1, <2>2
  <1>9. ASSUME NEW b \in Planners, b # a PROVE UpsertOK(upsert[b])'
    <2>1. PICK s \in Upserts : s = upsert[b] /\ upsert'[b] = s /\ UpsertOK(s)
      BY <1>5, <1>9 DEF PInv, PlansTypeOK
    <2>2. Disjoint(q, s)
      BY <1>1, <1>9, <2>1 DEF PInv
    <2>3. InTransaction(s) => plan'[s.plan] = plan[s.plan]
      BY <1>1, <1>2, <1>7, <2>1, <2>2 DEF Disjoint, InTransaction, UpsertOK
    <2>4. \A x \in s.dropped : part'[x].plan = part[x].plan
      BY <1>4, <2>1, <2>2 DEF Disjoint, Upserts
    <2>5. UpsertOK(s)'
      BY <2>1, <2>3, <2>4 DEF UpsertOK
    <2> QED
      BY <2>1, <2>5
  <1>10. UpsertOK(upsert[a])'
    <2>1. upsert'[a] = NoUpsert
      BY <1>5 DEF PInv, PlansTypeOK
    <2> QED
      BY <2>1 DEF UpsertOK, NoUpsert, InTransaction
  <1>11. \A b, c \in Planners : b # c => Disjoint(upsert[b], upsert[c])'
    BY <1>5 DEF PInv, PlansTypeOK, Disjoint, InTransaction, NoUpsert
  <1>12. PlanIsWhole'
    <2> SUFFICES ASSUME NEW r \in PlanIds, NEW x \in Parts, part'[x].plan = r
                 PROVE  /\ part'[x].edit <= plan'[r].edit
                        /\ x \in asked'[r] => part'[x].edit = plan'[r].edit
      BY DEF PlanIsWhole, PartsOf
    <2>1. part[x].edit \in Int /\ plan[r].edit \in Int /\ plan[p].edit \in Int /\ q.edit \in Int
      BY <1>1 DEF PInv, PlansTypeOK, PartRows, PlanRows, Upserts
    <2>2. CASE x \in q.wrote
      <3>1. r = p /\ part'[x].edit = q.edit
        BY <1>4, <2>2
      <3> QED
        BY <1>7, <2>1, <3>1
    <2>3. CASE x \notin q.wrote
      <3>1. part[x].plan = r /\ part'[x].edit = part[x].edit
        BY <1>4, <2>3
      <3>2. /\ part[x].edit <= plan[r].edit
            /\ x \in asked[r] => part[x].edit = plan[r].edit
        BY <3>1 DEF PInv, PlanIsWhole, PartsOf
      <3>3. CASE r = p
        <4>1. plan[p].edit <= q.edit
          BY <1>1, <1>2 DEF UpsertOK, InTransaction
        <4>2. asked'[r] = q.wrote
          BY <1>5, <3>3 DEF PInv, PlansTypeOK
        <4> QED
          BY <1>7, <2>1, <2>3, <3>1, <3>2, <3>3, <4>1, <4>2
      <3>4. CASE r # p
        <4>1. asked'[r] = asked[r] /\ plan'[r] = plan[r]
          BY <1>5, <1>7, <3>4 DEF PInv, PlansTypeOK
        <4> QED
          BY <3>1, <3>2, <4>1
      <3> QED
        BY <3>3, <3>4
    <2> QED
      BY <2>2, <2>3
  <1> QED
    BY <1>5, <1>6, <1>8, <1>9, <1>10, <1>11, <1>12, <1>13 DEF PInv

LEMMA DeactivatePlanInv == ASSUME PInv, NEW p \in PlanIds, deactivatePlan(p) PROVE PInv'
  <1>1. UNCHANGED <<part, asked, upsert, edits>> /\ plan' = [plan EXCEPT ![p].status = "deleted"]
    BY DEF deactivatePlan
  <1>2. /\ plan' \in [PlanIds -> PlanRows]
        /\ \A r \in PlanIds : plan'[r].edit = plan[r].edit
    BY <1>1 DEF PInv, PlansTypeOK, PlanRows
  <1>3. \A b \in Planners : UpsertOK(upsert[b])'
    BY <1>1, <1>2 DEF PInv, UpsertOK, InTransaction
  <1>4. PlanIsWhole'
    BY <1>1, <1>2 DEF PInv, PlanIsWhole, PartsOf
  <1> QED
    BY <1>1, <1>2, <1>3, <1>4 DEF PInv, PlansTypeOK, Disjoint, InTransaction

LEMMA PlansStep == ASSUME PInv, [PlansNext]_planVars PROVE PInv'
  <1>1. CASE UNCHANGED planVars
    BY <1>1 DEF planVars, PInv, PlansTypeOK, UpsertOK, Disjoint, InTransaction, PlanIsWhole, PartsOf
  <1>2. ASSUME NEW a \in Planners, RollbackPlan(a) PROVE PInv'
    BY <1>2, AbandonInv DEF RollbackPlan
  <1> QED
    BY <1>1, <1>2, UpsertPlanInv, VerifyPlanInv, WriteBaseInv, RemovePartsInv, UpsertPartInv,
       CommitPlanInv, DeactivatePlanInv DEF PlansNext

(* What a commit removes is its own plan's.                                *)
LEMMA RemovalStep ==
  ASSUME PInv, [PlansNext]_planVars, NEW x \in Parts, part'[x].gone, ~ part[x].gone
  PROVE  \E a \in Planners : upsert[a].plan = part[x].plan /\ upsert'[a] = NoUpsert
                             /\ x \in upsert[a].dropped
  <1>1. PICK a \in Planners : CommitPlan(a)
    <2>1. part' # part
      OBVIOUS
    <2> QED
      BY <2>1 DEF PlansNext, planVars, upsertPlan, VerifyPlan, WriteBase, RemoveParts, UpsertPart,
                  InTx, RollbackPlan, deactivatePlan, Advance
  <1>2. x \in upsert[a].dropped
    <2>1. part' = [y \in Parts |->
             IF y \in upsert[a].wrote THEN PartRow(a, y, part[y].gone \/ y \in upsert[a].dropped)
             ELSE IF y \in upsert[a].dropped THEN [part[y] EXCEPT !.gone = TRUE]
             ELSE part[y]]
      BY <1>1 DEF CommitPlan
    <2> QED
      BY <2>1 DEF PartRow
  <1>3. upsert[a].plan = part[x].plan
    BY <1>2 DEF PInv, UpsertOK
  <1>4. upsert'[a] = NoUpsert
    BY <1>1 DEF CommitPlan, PInv, PlansTypeOK
  <1> QED
    BY <1>2, <1>3, <1>4

LEMMA PlansStart == ASSUME PlansInit PROVE PInv
  <1>1. \A a \in Planners : upsert[a] = NoUpsert
    BY DEF PlansInit
  <1>2. /\ plan \in [PlanIds -> PlanRows] /\ part \in [Parts -> PartRows]
        /\ \A p \in PlanIds : plan[p].edit = 0
        /\ \A x \in Parts : part[x].edit = 0
        /\ asked \in [PlanIds -> SUBSET Parts] /\ \A p \in PlanIds : asked[p] = {}
    <2>1. PICK live \in SUBSET PlanIds :
             /\ plan = [p \in PlanIds |->
                   [status |-> IF p \in live THEN "live" ELSE "absent", edit |-> 0]]
             /\ part \in [Parts -> [plan : live \cup {NoPlan}, gone : {FALSE}, edit : {0}]]
      BY DEF PlansInit
    <2>2. 0 \in 0..MaxEdits
      BY PlanAssumption
    <2>3. plan \in [PlanIds -> PlanRows] /\ \A p \in PlanIds : plan[p].edit = 0
      BY <2>1, <2>2 DEF PlanRows
    <2>4. ASSUME NEW x \in Parts PROVE part[x] \in PartRows /\ part[x].edit = 0
      <3>1. part[x] \in [plan : live \cup {NoPlan}, gone : {FALSE}, edit : {0}]
        BY <2>1
      <3> QED
        BY <2>2, <3>1 DEF PartRows
    <2>5. part \in [Parts -> PartRows]
      BY <2>1, <2>4
    <2> QED
      BY <2>3, <2>4, <2>5 DEF PlansInit
  <1>3. PlansTypeOK
    BY <1>2, NoUpsertOK, PlanAssumption DEF PlansInit, PlansTypeOK
  <1>4. \A a \in Planners : UpsertOK(upsert[a])
    BY <1>1, NoUpsertIsOK
  <1>5. \A a, b \in Planners : Disjoint(upsert[a], upsert[b])
    BY <1>1 DEF Disjoint, InTransaction, NoUpsert
  <1>6. PlanIsWhole
    BY <1>2 DEF PlanIsWhole, PartsOf
  <1>7. /\ \A p \in PlanIds : plan[p].edit <= edits
        /\ \A a \in Planners : upsert[a].edit <= edits
    <2>1. edits = 0 /\ NoUpsert.edit = 0
      BY DEF PlansInit, NoUpsert
    <2> QED
      BY <1>1, <1>2, <2>1
  <1> QED
    BY <1>3, <1>4, <1>5, <1>6, <1>7 DEF PInv

-----------------------------------------------------------------------------
(* The catalogue.                                                           *)

IInv == SInv /\ BInv /\ PInv

(* A desk works at what is its own.                                         *)
LEMMA Desks ==
  ASSUME [Next]_vars
  PROVE  [SettingsNext]_settingsVars /\ [BundlesNext]_bundleVars /\ [PlansNext]_planVars
  BY DEF Next, vars

LEMMA Invariance == Spec => []IInv
  <1>1. Init => IInv
    BY SettingsStart, BundlesStart, PlansStart DEF Init, IInv
  <1>2. IInv /\ [Next]_vars => IInv'
    BY Desks, SettingsStep, BundlesStep, PlansStep DEF IInv
  <1> QED
    BY <1>1, <1>2, PTL DEF Spec

(* Rows and requests keep the shapes the code gives them.                   *)
THEOREM TypeCorrect == Spec => []TypeOK
  <1>1. IInv => TypeOK
    BY DEF IInv, SInv, BInv, PInv, TypeOK, SettingsTypeOK, RequestOK, Busy
  <1> QED
    BY <1>1, Invariance, PTL

(* However many administrators: where their requests on a table do not      *)
(* overlap, one of its rows is in force at most.                            *)
THEOREM OneActive == Spec => []OneActiveUnlessRaced
  <1>1. IInv => OneActiveUnlessRaced
    BY DEF IInv, SInv
  <1> QED
    BY <1>1, Invariance, PTL

(* And none is found in force only if it was switched off, or removed.      *)
THEOREM Swap == Spec => SwapIsAtomic
  <1>1. IInv /\ [Next]_vars =>
           [\A t \in Exclusive \ raced :
               Shown(t) # {} /\ Shown(t)' = {} =>
                   \E a \in Admins : Busy(a) /\ ~ Busy(a)' /\ Withdraws(a)]_settingsVars
    BY Desks, SwapStep DEF IInv
  <1> QED
    BY <1>1, Invariance, PTL DEF Spec, SwapIsAtomic

(* A bundle that is offered costs what its coins come to at a rate of the   *)
(* catalogue, and more than its discounted price, for any rates and prices. *)
THEOREM Prices == Spec => []PricesHold
  <1>1. IInv => PricesHold
    BY DEF IInv, BInv
  <1> QED
    BY <1>1, Invariance, PTL

(* The gateway is asked for what the parts of the order add up to, within   *)
(* one unit, whatever prices, taxes and fees.                               *)
THEOREM Charged == Spec => []ChargedWithinOneUnit
  <1>1. IInv => ChargedWithinOneUnit
    <2> SUFFICES ASSUME IInv, NEW tax \in Taxes, NEW m \in Methods
                 PROVE  /\ \A b \in Offered : Within(Unit, prepareBundleOrder(bundle[b], tax, m), m)
                        /\ \A n \in CoinAmounts, c \in Currencies :
                              Within(Unit, prepareCustomOrder(n, rate[c], tax, m), m)
      BY DEF ChargedWithinOneUnit
    <2>1. ASSUME NEW b \in Offered
          PROVE  Within(Unit, prepareBundleOrder(bundle[b], tax, m), m)
      <3>1. bundle[b].price \in Nat /\ bundle[b].discount \in Int
        <4>1. bundle[b] \in BundleRows
          BY DEF IInv, BInv, BundlesTypeOK, Offered
        <4>2. bundle[b].price \in Nat /\ bundle[b].discount \in Nat \cup {NoDiscount}
          BY <4>1 DEF BundleRows
        <4>3. NoDiscount \in Int
          BY DEF NoDiscount
        <4> QED
          BY <4>2, <4>3
      <3>2. PICK base \in Int :
               base = (IF bundle[b].discount = NoDiscount THEN bundle[b].price
                       ELSE bundle[b].discount) * Cent
        BY <3>1 DEF Cent
      <3> QED
        BY <3>2, TaxIsInt, ReceiptWithinOneUnit DEF prepareBundleOrder
    <2>2. ASSUME NEW n \in CoinAmounts, NEW c \in Currencies
          PROVE  Within(Unit, prepareCustomOrder(n, rate[c], tax, m), m)
      <3>1. n \in Nat /\ rate[c] \in Nat
        BY BundleAssumption DEF IInv, BInv, BundlesTypeOK
      <3>2. n * rate[c] \in Int
        BY <3>1
      <3>3. PICK due \in Int : due = n * rate[c] * TenThousandth
        BY <3>2 DEF TenThousandth
      <3>4. PICK base \in Int : base = Round(due) * Unit
        BY RoundError DEF Unit
      <3> QED
        BY <3>3, <3>4, TaxIsInt, ReceiptWithinOneUnit DEF prepareCustomOrder
    <2> QED
      BY <2>1, <2>2
  <1> QED
    BY <1>1, Invariance, PTL

(* A plan is the work of whole requests, however many edit it.              *)
THEOREM Whole == Spec => []PlanIsWhole
  <1>1. IInv => PlanIsWhole
    BY DEF IInv, PInv
  <1> QED
    BY <1>1, Invariance, PTL

(* A request removes parts of its own plan only.                            *)
THEOREM OwnOnly == Spec => RemovesOwnOnly
  <1>1. IInv /\ [Next]_vars =>
           [\A x \in Parts : part'[x].gone /\ ~ part[x].gone =>
               \E a \in Planners : upsert[a].plan = part[x].plan /\ upsert'[a] = NoUpsert
                                   /\ x \in upsert[a].dropped]_planVars
    BY Desks, RemovalStep DEF IInv
  <1> QED
    BY <1>1, Invariance, PTL DEF Spec, RemovesOwnOnly

=============================================================================
