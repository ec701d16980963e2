------------------------- MODULE SubscriptionProofs -------------------------
(***************************************************************************)
(* Theorems of Subscription, for any number of users, SKUs, subscriptions  *)
(* and requests at a time.                                                 *)
(***************************************************************************)
EXTENDS Subscription, TLAPS

(* A subscription has an owner and a SKU from its insert on.                *)
Sold ==
    \A s \in Subs :
        /\ status[s] = "NONE" <=> owner[s] = NoUser
        /\ status[s] = "NONE" <=> sku[s] = NoSku

(* What a request has found out before its next step, and which nothing     *)
(* that runs beside it undoes.                                              *)
Handled(r) ==
    /\ req[r].pc = "subscribing" => req[r].user \in Users /\ req[r].sku \in Skus
    /\ req[r].pc = "switching" =>
          /\ req[r].user \in Users
          /\ req[r].sub \in Subs
          /\ req[r].sku \in Packages
          /\ req[r].event \in Events \ {"cancelled"}
          /\ owner[req[r].sub] = req[r].user
          /\ sku[req[r].sub] \in Packages
          /\ sku[req[r].sub] # req[r].sku
    /\ req[r].pc \in {"cancelling", "recording", "emitting"} =>
          /\ req[r].user = NoUser
          /\ req[r].sub \in Subs
          /\ status[req[r].sub] # "NONE"
    /\ req[r].pc = "recording" => status[req[r].sub] = "CANCELLED"
    /\ req[r].pc = "emitting" =>
          /\ req[r].event \in Events
          /\ req[r].event = "cancelled" => status[req[r].sub] = "CANCELLED"

IInv ==
    /\ TypeOK
    /\ NeverOverdrawn
    /\ Sold
    /\ \A r \in Requests : Handled(r)
    /\ SwitchEndsOldPlan
    /\ AnnouncedAfterCommit

(* A subscription keeps its owner and its SKU, and stays cancelled.         *)
Forward ==
    \A s \in Subs :
        /\ status[s] # "NONE" =>
              status'[s] # "NONE" /\ owner'[s] = owner[s] /\ sku'[s] = sku[s]
        /\ status[s] = "CANCELLED" => status'[s] = "CANCELLED"

OthersKeep(r) == \A o \in Requests \ {r} : req'[o] = req[o]

-----------------------------------------------------------------------------
LEMMA IdleType == Idle \in RequestStates
  BY DEF Idle, RequestStates, Events

LEMMA NothingType == Nothing \in Payloads
  BY DEF Nothing, Payloads, Enforcements

LEMMA PayloadType ==
  ASSUME TypeOK, NEW event \in Events, NEW s \in Subs PROVE Payload(event, s) \in Payloads
  BY DEF TypeOK, Payload, Payloads, formatSubscriptionCancelled, buildSubscriptionUpdate,
         Enforcement, Enforcements, Events

(* The user of a request in flight.                                         *)
LEMMA UserOfType ==
  ASSUME TypeOK, Sold, NEW r \in Requests, Handled(r), Busy(r)
  PROVE  UserOf(r) \in Users
  <1>1. req[r] \in RequestStates
    BY DEF TypeOK
  <1>2. CASE req[r].pc \in {"subscribing", "switching"}
    BY <1>2, UsersAssumption DEF Handled, UserOf
  <1>3. CASE req[r].pc \in {"cancelling", "recording", "emitting"}
    BY <1>3 DEF Handled, UserOf, Sold, TypeOK
  <1> QED
    BY <1>1, <1>2, <1>3 DEF RequestStates, Busy

LEMMA InitIInv == Init => IInv
  <1> SUFFICES ASSUME Init PROVE IInv
    OBVIOUS
  <1>1. TypeOK
    BY IdleType, NothingType, OpeningAssumption DEF Init, TypeOK, Statuses
  <1>2. NeverOverdrawn /\ SwitchEndsOldPlan
    BY OpeningAssumption DEF Init, NeverOverdrawn, SwitchEndsOldPlan
  <1>3. Sold /\ AnnouncedAfterCommit
    BY DEF Init, Sold, AnnouncedAfterCommit
  <1>4. ASSUME NEW r \in Requests PROVE Handled(r)
    BY DEF Init, Handled, Idle
  <1> QED
    BY <1>1, <1>2, <1>3, <1>4 DEF IInv

-----------------------------------------------------------------------------
(* Each action: what it does to the rows, and to its own request.           *)

LEMMA BeginStep ==
  ASSUME IInv, NEW r \in Requests, NEW u \in Users, NEW q \in RequestStates, Begin(r, u, q)
  PROVE  TypeOK' /\ Forward /\ OthersKeep(r) /\ req'[r] = q
  BY DEF IInv, Begin, TypeOK, Forward, OthersKeep, rows

LEMMA SubscribeBegins ==
  ASSUME IInv, NEW r \in Requests, NEW u \in Users, NEW k \in Skus, BeginSubscribe(r, u, k)
  PROVE  TypeOK' /\ Forward /\ OthersKeep(r) /\ Handled(r)'
  <1> DEFINE q == [Idle EXCEPT !.pc = "subscribing", !.user = u, !.sku = k]
  <1>1. q \in RequestStates /\ q.pc = "subscribing" /\ q.user = u /\ q.sku = k
    BY IdleType DEF RequestStates, Idle
  <1>2. Begin(r, u, q)
    BY DEF BeginSubscribe
  <1> HIDE DEF q
  <1>3. TypeOK' /\ Forward /\ OthersKeep(r) /\ req'[r] = q
    BY <1>1, <1>2, BeginStep
  <1>4. Handled(r)'
    BY <1>1, <1>3 DEF Handled
  <1> QED
    BY <1>3, <1>4

LEMMA CancelBegins ==
  ASSUME IInv, NEW r \in Requests, NEW s \in Subs, BeginCancel(r, s)
  PROVE  TypeOK' /\ Forward /\ OthersKeep(r) /\ Handled(r)'
  <1> DEFINE q == [Idle EXCEPT !.pc = "cancelling", !.sub = s]
  <1>1. q \in RequestStates /\ q.pc = "cancelling" /\ q.user = NoUser /\ q.sub = s
    BY IdleType DEF RequestStates, Idle
  <1>2. Begin(r, owner[s], q) /\ status[s] # "NONE" /\ owner[s] \in Users
    BY DEF BeginCancel, WillCancel, IInv, Sold, TypeOK
  <1> HIDE DEF q
  <1>3. TypeOK' /\ Forward /\ OthersKeep(r) /\ req'[r] = q
    BY <1>1, <1>2, BeginStep
  <1>4. Handled(r)'
    BY <1>1, <1>2, <1>3 DEF Handled, Forward
  <1> QED
    BY <1>3, <1>4

LEMMA SwitchBegins ==
  ASSUME IInv, NEW r \in Requests, NEW s \in Subs, NEW k \in Skus, BeginSwitch(r, s, k)
  PROVE  TypeOK' /\ Forward /\ OthersKeep(r) /\ Handled(r)'
  <1> DEFINE q == [pc |-> "switching", user |-> owner[s], sub |-> s, sku |-> k,
                   event |-> SwitchEvent(s, k)]
  <1>1. SwitchEvent(s, k) \in Events \ {"cancelled"}
    BY DEF SwitchEvent, Events
  <1>2. /\ Begin(r, owner[s], q)
        /\ status[s] = "ACTIVE" /\ owner[s] \in Users
        /\ sku[s] \in Packages /\ k \in Packages /\ k # sku[s]
    BY DEF BeginSwitch, IInv, Sold, TypeOK
  <1>3. q \in RequestStates
    BY <1>1, <1>2 DEF RequestStates
  <1>4. TypeOK' /\ Forward /\ OthersKeep(r) /\ req'[r] = q
    <2> HIDE DEF q
    <2> QED
      BY <1>2, <1>3, BeginStep
  <1>5. owner'[s] = owner[s] /\ sku'[s] = sku[s]
    BY <1>2, <1>4 DEF Forward
  <1>6. Handled(r)'
    BY <1>1, <1>2, <1>4, <1>5 DEF Handled
  <1> QED
    BY <1>4, <1>6

LEMMA SubscribeCommits ==
  ASSUME IInv, NEW r \in Requests, CommitSubscribe(r)
  PROVE  /\ TypeOK' /\ NeverOverdrawn' /\ Sold'
         /\ Forward /\ OthersKeep(r) /\ Handled(r)'
  <1> DEFINE u == req[r].user
             k == req[r].sku
  <1>1. u \in Users /\ k \in Skus
    BY DEF IInv, Handled, CommitSubscribe
  <1>2. PICK s \in Subs :
          /\ status[s] = "NONE"
          /\ status' = [status EXCEPT ![s] = "ACTIVE"]
          /\ owner' = [owner EXCEPT ![s] = u]
          /\ sku' = [sku EXCEPT ![s] = k]
          /\ req' = [req EXCEPT ![r] =
                IF k \in Packages
                THEN [Idle EXCEPT !.pc = "emitting", !.sub = s, !.event = "created"]
                ELSE Idle]
    BY DEF CommitSubscribe
  <1> DEFINE q == IF k \in Packages
                  THEN [Idle EXCEPT !.pc = "emitting", !.sub = s, !.event = "created"]
                  ELSE Idle
  <1>3. /\ q \in RequestStates
        /\ q = Idle \/ (q.pc = "emitting" /\ q.user = NoUser /\ q.sub = s /\ q.event = "created")
    BY IdleType DEF RequestStates, Idle, Events
  <1>4. req' = [req EXCEPT ![r] = q]
    BY <1>2
  <1> HIDE DEF q
  <1>5. req \in [Requests -> RequestStates]
    BY DEF IInv, TypeOK
  <1>6. req' \in [Requests -> RequestStates] /\ OthersKeep(r) /\ req'[r] = q
    BY <1>3, <1>4, <1>5 DEF OthersKeep
  <1>7. /\ balance[u] >= CoinCost[k]
        /\ balance' = [balance EXCEPT ![u] = balance[u] - CoinCost[k]]
        /\ UNCHANGED <<canceled, switches, outbox, told, drifted>>
    BY DEF CommitSubscribe, Affords, Debit
  <1>8. balance' \in [Users -> Int] /\ NeverOverdrawn'
    BY <1>1, <1>7, CostAssumption DEF IInv, TypeOK, NeverOverdrawn
  <1>9. TypeOK'
    BY <1>1, <1>2, <1>6, <1>7, <1>8 DEF IInv, TypeOK, Statuses
  <1>10. Sold'
    BY <1>1, <1>2, UsersAssumption, SkusAssumption DEF IInv, TypeOK, Sold
  <1>11. Forward
    BY <1>2 DEF IInv, TypeOK, Forward
  <1>12. Handled(r)'
    BY <1>2, <1>3, <1>6 DEF Handled, Idle, Events, IInv, TypeOK
  <1> QED
    BY <1>6, <1>8, <1>9, <1>10, <1>11, <1>12

LEMMA SwitchCommits ==
  ASSUME IInv, NEW r \in Requests, CommitSwitch(r)
  PROVE  /\ TypeOK' /\ NeverOverdrawn' /\ Sold'
         /\ Forward /\ OthersKeep(r) /\ Handled(r)'
         /\ status'[req[r].sub] = "CANCELLED"
         /\ \E s \in Subs :
               /\ switches' = switches \cup {<<req[r].sub, s>>}
               /\ status[s] = "NONE"
               /\ status'[s] = "ACTIVE"
               /\ owner'[s] = req[r].user
               /\ sku'[s] = req[r].sku
         /\ canceled' = [canceled EXCEPT ![req[r].sub] = @ + 1]
         /\ UNCHANGED outbox
  <1> DEFINE u == req[r].user
             k == req[r].sku
             old == req[r].sub
  <1>1. /\ u \in Users /\ k \in Skus /\ k \in Packages /\ old \in Subs
        /\ req[r].event \in Events \ {"cancelled"} /\ status[old] # "NONE"
    BY SkusAssumption, UsersAssumption DEF IInv, Handled, CommitSwitch, Sold
  <1>2. PICK s \in Subs :
          /\ status[s] = "NONE"
          /\ status' = [EndOld(old) EXCEPT ![s] = "ACTIVE"]
          /\ owner' = [owner EXCEPT ![s] = u]
          /\ sku' = [sku EXCEPT ![s] = k]
          /\ switches' = switches \cup {<<old, s>>}
          /\ req' = [req EXCEPT ![r] =
                [Idle EXCEPT !.pc = "emitting", !.sub = s, !.event = req[r].event]]
    BY DEF CommitSwitch
  <1> DEFINE q == [Idle EXCEPT !.pc = "emitting", !.sub = s, !.event = req[r].event]
  <1>3. /\ q \in RequestStates
        /\ q.pc = "emitting" /\ q.user = NoUser /\ q.sub = s /\ q.event = req[r].event
    BY <1>1, IdleType DEF RequestStates, Idle
  <1>4. req' = [req EXCEPT ![r] = q]
    BY <1>2
  <1> HIDE DEF q
  <1>5. req \in [Requests -> RequestStates]
    BY DEF IInv, TypeOK
  <1>6. req' \in [Requests -> RequestStates] /\ OthersKeep(r) /\ req'[r] = q
    BY <1>3, <1>4, <1>5 DEF OthersKeep
  <1>7. /\ balance[u] >= CoinCost[k]
        /\ balance' = [balance EXCEPT ![u] = balance[u] - CoinCost[k]]
        /\ canceled' = [canceled EXCEPT ![old] = canceled[old] + 1]
        /\ UNCHANGED <<outbox, told, drifted>>
    BY DEF CommitSwitch, Affords, Debit
  <1>8. balance' \in [Users -> Int] /\ NeverOverdrawn'
    BY <1>1, <1>7, CostAssumption DEF IInv, TypeOK, NeverOverdrawn
  <1>9. status' \in [Subs -> Statuses] /\ s # old
    BY <1>1, <1>2 DEF IInv, TypeOK, Statuses, EndOld
  <1>10. TypeOK'
    BY <1>1, <1>2, <1>6, <1>7, <1>8, <1>9 DEF IInv, TypeOK
  <1>11. Sold'
    BY <1>1, <1>2, <1>9, UsersAssumption, SkusAssumption DEF IInv, TypeOK, Sold, EndOld
  <1>12. Forward
    BY <1>1, <1>2, <1>9 DEF IInv, TypeOK, Forward, EndOld
  <1>13. status'[s] = "ACTIVE" /\ status'[old] = "CANCELLED" /\ owner'[s] = u /\ sku'[s] = k
    BY <1>1, <1>2, <1>9 DEF IInv, TypeOK, EndOld
  <1>14. Handled(r)'
    BY <1>1, <1>3, <1>6, <1>13 DEF Handled
  <1> QED
    BY <1>2, <1>6, <1>7, <1>8, <1>10, <1>11, <1>12, <1>13, <1>14

LEMMA CancelSets ==
  ASSUME IInv, NEW r \in Requests, SetCancelled(r)
  PROVE  TypeOK' /\ Sold' /\ Forward /\ OthersKeep(r) /\ Handled(r)'
  <1> DEFINE s == req[r].sub
             q == [Idle EXCEPT !.pc = "recording", !.sub = s]
  <1>1. s \in Subs /\ status[s] # "NONE"
    BY DEF IInv, Handled, SetCancelled
  <1>2. q \in RequestStates /\ q.pc = "recording" /\ q.user = NoUser /\ q.sub = s
    BY <1>1, IdleType DEF RequestStates, Idle
  <1>3. /\ status' = [status EXCEPT ![s] = "CANCELLED"]
        /\ req' = [req EXCEPT ![r] = q]
        /\ UNCHANGED <<owner, sku, canceled, switches, balance, outbox, told, drifted>>
    BY DEF SetCancelled
  <1> HIDE DEF q
  <1>4. TypeOK' /\ OthersKeep(r) /\ req'[r] = q
    BY <1>1, <1>2, <1>3 DEF IInv, TypeOK, Statuses, OthersKeep
  <1>5. Sold' /\ Forward /\ status'[s] = "CANCELLED"
    BY <1>1, <1>3 DEF IInv, TypeOK, Sold, Forward
  <1>6. Handled(r)'
    BY <1>1, <1>2, <1>4, <1>5 DEF Handled
  <1> QED
    BY <1>4, <1>5, <1>6

LEMMA CancelRecords ==
  ASSUME IInv, NEW r \in Requests, RecordCancelled(r)
  PROVE  TypeOK' /\ Forward /\ OthersKeep(r) /\ Handled(r)'
  <1> DEFINE s == req[r].sub
             q == [Idle EXCEPT !.pc = "emitting", !.sub = s, !.event = "cancelled"]
  <1>1. s \in Subs /\ status[s] = "CANCELLED"
    BY DEF IInv, Handled, RecordCancelled
  <1>2. /\ q \in RequestStates /\ q.pc = "emitting" /\ q.user = NoUser /\ q.sub = s
        /\ q.event = "cancelled"
    BY <1>1, IdleType DEF RequestStates, Idle, Events
  <1>3. /\ canceled' = [canceled EXCEPT ![s] = canceled[s] + 1]
        /\ req' = [req EXCEPT ![r] = q]
        /\ UNCHANGED <<status, owner, sku, switches, balance, outbox, told, drifted>>
    BY DEF RecordCancelled
  <1> HIDE DEF q
  <1>4. TypeOK' /\ OthersKeep(r) /\ req'[r] = q
    BY <1>1, <1>2, <1>3 DEF IInv, TypeOK, OthersKeep
  <1>5. Forward /\ status'[s] = "CANCELLED"
    BY <1>1, <1>3 DEF Forward
  <1>6. Handled(r)'
    BY <1>1, <1>2, <1>4, <1>5 DEF Handled, Events
  <1> QED
    BY <1>4, <1>5, <1>6

LEMMA EventEmitted ==
  ASSUME IInv, NEW r \in Requests, EmitWebhook(r)
  PROVE  TypeOK' /\ Forward /\ OthersKeep(r) /\ req'[r] = Idle
  <1> DEFINE s == req[r].sub
             u == owner[s]
  <1>1. s \in Subs /\ req[r].event \in Events /\ u \in Users
    BY DEF IInv, Handled, EmitWebhook, Sold, TypeOK
  <1>2. Payload(req[r].event, s) \in Payloads
    BY <1>1, PayloadType DEF IInv
  <1>3. OthersKeep(r) /\ req'[r] = Idle /\ req' \in [Requests -> RequestStates] /\ Forward
    BY IdleType DEF EmitWebhook, IInv, TypeOK, OthersKeep, Forward, rows
  <1>4. CASE /\ outbox' = outbox \cup {<<req[r].event, s>>}
             /\ told' = [told EXCEPT ![u] = Payload(req[r].event, s)]
             /\ UNCHANGED drifted
    BY <1>1, <1>2, <1>3, <1>4 DEF EmitWebhook, IInv, TypeOK, rows
  <1>5. CASE drifted' = drifted \cup {u} /\ UNCHANGED <<outbox, told>>
    BY <1>1, <1>3, <1>5 DEF EmitWebhook, IInv, TypeOK, rows
  <1> QED
    BY <1>3, <1>4, <1>5 DEF EmitWebhook

LEMMA RequestAborts ==
  ASSUME IInv, NEW r \in Requests, Abort(r)
  PROVE  TypeOK' /\ Forward /\ OthersKeep(r) /\ req'[r] = Idle
  <1>1. UserOf(r) \in Users
    BY UserOfType DEF Abort, IInv
  <1> QED
    BY <1>1, IdleType DEF Abort, IInv, TypeOK, OthersKeep, Forward, rows

-----------------------------------------------------------------------------
(* Every step preserves the inductive invariant, and loses no subscription. *)
LEMMA NextIInv == IInv /\ [Next]_vars => IInv' /\ Forward
  <1> SUFFICES ASSUME IInv, [Next]_vars PROVE IInv' /\ Forward
    OBVIOUS
  <1>1. ASSUME NEW r \in Requests, OthersKeep(r), Forward, Handled(r)', TypeOK
        PROVE  \A o \in Requests : Handled(o)'
    <2> SUFFICES ASSUME NEW o \in Requests \ {r} PROVE Handled(o)'
      BY <1>1
    <2>1. Handled(o) /\ req'[o] = req[o]
      BY <1>1 DEF IInv, OthersKeep
    <2>2. req[o].sub \in Subs => req[o].sub \in Subs /\ req[o].sub # NoSub
      BY NoSubAssumption
    <2> QED
      BY <1>1, <2>1, UsersAssumption, SkusAssumption DEF Handled, Forward, IInv, Sold
  <1>2. ASSUME Forward, UNCHANGED switches PROVE SwitchEndsOldPlan'
    <2> SUFFICES ASSUME NEW sw \in switches
                 PROVE  /\ status'[sw[1]] = "CANCELLED"
                        /\ owner'[sw[1]] = owner'[sw[2]]
                        /\ sku'[sw[1]] # sku'[sw[2]]
      BY <1>2 DEF SwitchEndsOldPlan
    <2>1. sw[1] \in Subs /\ sw[2] \in Subs
      BY DEF IInv, TypeOK
    <2>2. /\ status[sw[1]] = "CANCELLED"
          /\ owner[sw[1]] = owner[sw[2]]
          /\ sku[sw[1]] # sku[sw[2]]
      BY DEF IInv, SwitchEndsOldPlan
    <2>3. status[sw[2]] # "NONE"
      BY <2>1, <2>2 DEF IInv, Sold
    <2> QED
      BY <1>2, <2>1, <2>2, <2>3 DEF Forward
  <1>3. ASSUME Forward, NEW e \in outbox
        PROVE  status'[e[2]] # "NONE" /\ (e[1] = "cancelled" => status'[e[2]] = "CANCELLED")
    BY <1>3 DEF IInv, TypeOK, AnnouncedAfterCommit, Forward
  <1>4. ASSUME Forward, NEW s \in Subs, canceled[s] > 0 PROVE status'[s] = "CANCELLED"
    BY <1>4 DEF IInv, TypeOK, AnnouncedAfterCommit, Forward
  <1>5. ASSUME Forward, UNCHANGED <<outbox, canceled>> PROVE AnnouncedAfterCommit'
    BY <1>3, <1>4, <1>5 DEF AnnouncedAfterCommit
  <1>6. ASSUME UNCHANGED rows PROVE NeverOverdrawn' /\ Sold'
    BY <1>6 DEF rows, IInv, NeverOverdrawn, Sold
  <1>7. ASSUME NEW r \in Requests, OthersKeep(r), Forward, TypeOK', Handled(r)',
               UNCHANGED <<rows, outbox>>
        PROVE  IInv' /\ Forward
    BY <1>1, <1>2, <1>5, <1>6, <1>7 DEF IInv, rows
  <1>8. ASSUME NEW r \in Requests, NEW u \in Users, NEW k \in Skus, BeginSubscribe(r, u, k)
        PROVE  IInv' /\ Forward
    BY <1>7, <1>8, SubscribeBegins DEF BeginSubscribe, Begin
  <1>9. ASSUME NEW r \in Requests, NEW s \in Subs, BeginCancel(r, s)
        PROVE  IInv' /\ Forward
    BY <1>7, <1>9, CancelBegins DEF BeginCancel, Begin
  <1>10. ASSUME NEW r \in Requests, NEW s \in Subs, NEW k \in Skus, BeginSwitch(r, s, k)
         PROVE  IInv' /\ Forward
    BY <1>7, <1>10, SwitchBegins DEF BeginSwitch, Begin
  <1>11. ASSUME NEW r \in Requests, CommitSubscribe(r) PROVE IInv' /\ Forward
    <2>1. /\ TypeOK' /\ NeverOverdrawn' /\ Sold'
          /\ Forward /\ OthersKeep(r) /\ Handled(r)'
      BY <1>11, SubscribeCommits
    <2>2. UNCHANGED <<switches, outbox, canceled>>
      BY <1>11 DEF CommitSubscribe
    <2> QED
      BY <1>1, <1>2, <1>5, <2>1, <2>2 DEF IInv
  <1>12. ASSUME NEW r \in Requests, CommitSwitch(r) PROVE IInv' /\ Forward
    <2> DEFINE old == req[r].sub
    <2>1. /\ TypeOK' /\ NeverOverdrawn' /\ Sold'
          /\ Forward /\ OthersKeep(r) /\ Handled(r)'
          /\ status'[old] = "CANCELLED"
          /\ canceled' = [canceled EXCEPT ![old] = canceled[old] + 1]
          /\ UNCHANGED outbox
      BY <1>12, SwitchCommits
    <2>2. PICK s \in Subs :
              /\ switches' = switches \cup {<<old, s>>}
              /\ owner'[s] = req[r].user
              /\ sku'[s] = req[r].sku
      BY <1>12, SwitchCommits
    <2>3. /\ old \in Subs /\ status[old] # "NONE"
          /\ owner[old] = req[r].user /\ sku[old] # req[r].sku
      BY <1>12, UsersAssumption DEF IInv, Handled, CommitSwitch, Sold
    <2>4. owner'[old] = owner'[s] /\ sku'[old] # sku'[s]
      BY <2>1, <2>2, <2>3 DEF Forward
    <2>5. ASSUME NEW sw \in switches
          PROVE  /\ status'[sw[1]] = "CANCELLED"
                 /\ owner'[sw[1]] = owner'[sw[2]]
                 /\ sku'[sw[1]] # sku'[sw[2]]
      <3>1. sw[1] \in Subs /\ sw[2] \in Subs
        BY DEF IInv, TypeOK
      <3>2. /\ status[sw[1]] = "CANCELLED"
            /\ owner[sw[1]] = owner[sw[2]]
            /\ sku[sw[1]] # sku[sw[2]]
        BY DEF IInv, SwitchEndsOldPlan
      <3>3. status[sw[2]] # "NONE"
        BY <3>1, <3>2 DEF IInv, Sold
      <3> QED
        BY <2>1, <3>1, <3>2, <3>3 DEF Forward
    <2>6. SwitchEndsOldPlan'
      <3> SUFFICES ASSUME NEW sw \in switches'
                   PROVE  /\ status'[sw[1]] = "CANCELLED"
                          /\ owner'[sw[1]] = owner'[sw[2]]
                          /\ sku'[sw[1]] # sku'[sw[2]]
        BY DEF SwitchEndsOldPlan
      <3>1. CASE sw = <<old, s>>
        BY <2>1, <2>4, <3>1
      <3> QED
        BY <2>2, <2>5, <3>1
    <2>7. AnnouncedAfterCommit'
      <3>1. ASSUME NEW t \in Subs, canceled'[t] > 0 PROVE status'[t] = "CANCELLED"
        BY <1>4, <2>1, <2>3, <3>1 DEF IInv, TypeOK
      <3> QED
        BY <1>3, <2>1, <3>1 DEF AnnouncedAfterCommit
    <2> QED
      BY <1>1, <2>1, <2>6, <2>7 DEF IInv
  <1>13. ASSUME NEW r \in Requests, SetCancelled(r) PROVE IInv' /\ Forward
    <2>1. TypeOK' /\ Sold' /\ Forward /\ OthersKeep(r) /\ Handled(r)'
      BY <1>13, CancelSets
    <2>2. UNCHANGED <<switches, outbox, canceled, balance>>
      BY <1>13 DEF SetCancelled
    <2>3. NeverOverdrawn'
      BY <2>2 DEF IInv, NeverOverdrawn
    <2> QED
      BY <1>1, <1>2, <1>5, <2>1, <2>2, <2>3 DEF IInv
  <1>14. ASSUME NEW r \in Requests, RecordCancelled(r) PROVE IInv' /\ Forward
    <2>1. TypeOK' /\ Forward /\ OthersKeep(r) /\ Handled(r)'
      BY <1>14, CancelRecords
    <2>2. /\ canceled' = [canceled EXCEPT ![req[r].sub] = canceled[req[r].sub] + 1]
          /\ UNCHANGED <<status, owner, sku, switches, balance, outbox>>
          /\ status[req[r].sub] = "CANCELLED" /\ req[r].sub \in Subs
      BY <1>14 DEF RecordCancelled, IInv, Handled
    <2>3. NeverOverdrawn' /\ Sold'
      BY <2>2 DEF IInv, NeverOverdrawn, Sold
    <2>4. ASSUME NEW t \in Subs, canceled'[t] > 0 PROVE status'[t] = "CANCELLED"
      BY <1>4, <2>1, <2>2, <2>4 DEF IInv, TypeOK
    <2>5. AnnouncedAfterCommit'
      BY <1>3, <2>1, <2>2, <2>4 DEF AnnouncedAfterCommit
    <2> QED
      BY <1>1, <1>2, <2>1, <2>2, <2>3, <2>5 DEF IInv
  <1>15. ASSUME NEW r \in Requests, EmitWebhook(r) PROVE IInv' /\ Forward
    <2>1. TypeOK' /\ Forward /\ OthersKeep(r) /\ req'[r] = Idle /\ UNCHANGED rows
      BY <1>15, EventEmitted DEF EmitWebhook
    <2>2. Handled(r)'
      BY <2>1 DEF Handled, Idle
    <2>3. ASSUME NEW e \in outbox'
          PROVE  status'[e[2]] # "NONE" /\ (e[1] = "cancelled" => status'[e[2]] = "CANCELLED")
      <3>1. CASE e = <<req[r].event, req[r].sub>>
        BY <1>15, <2>1, <3>1 DEF EmitWebhook, IInv, Handled, rows
      <3> QED
        BY <1>3, <1>15, <2>1, <3>1 DEF EmitWebhook
    <2>4. AnnouncedAfterCommit'
      BY <1>4, <2>1, <2>3 DEF AnnouncedAfterCommit, rows
    <2> QED
      BY <1>1, <1>2, <1>6, <2>1, <2>2, <2>4 DEF IInv, rows
  <1>16. ASSUME NEW r \in Requests, Abort(r) PROVE IInv' /\ Forward
    <2>1. TypeOK' /\ Forward /\ OthersKeep(r) /\ req'[r] = Idle /\ UNCHANGED <<rows, outbox>>
      BY <1>16, RequestAborts DEF Abort
    <2>2. Handled(r)'
      BY <2>1 DEF Handled, Idle
    <2> QED
      BY <1>7, <2>1, <2>2
  <1>17. CASE UNCHANGED vars
    <2>1. Forward /\ TypeOK' /\ NeverOverdrawn' /\ Sold' /\ UNCHANGED <<switches, outbox, canceled>>
      BY <1>17 DEF vars, rows, IInv, TypeOK, NeverOverdrawn, Sold, Forward
    <2>2. \A o \in Requests : Handled(o)'
      BY <1>17 DEF vars, rows, IInv, Handled
    <2> QED
      BY <1>2, <1>5, <2>1, <2>2 DEF IInv
  <1> QED
    BY <1>8, <1>9, <1>10, <1>11, <1>12, <1>13, <1>14, <1>15, <1>16, <1>17 DEF Next, Request

LEMMA Invariance == Spec => []IInv
  BY InitIInv, NextIInv, PTL DEF Spec

-----------------------------------------------------------------------------
(* The tables and the local variables of the handlers keep their types.     *)
THEOREM TypeCorrect == Spec => []TypeOK
  BY Invariance, PTL DEF IInv

(* However purchases and switches overlap, no wallet is ever overdrawn.     *)
THEOREM NotOverdrawn == Spec => []NeverOverdrawn
  BY Invariance, PTL DEF IInv

(* A switch ends the plan it replaces, within one account.                  *)
THEOREM SwitchEnds == Spec => []SwitchEndsOldPlan
  BY Invariance, PTL DEF IInv

(* Nothing is announced, or recorded, that did not commit.                  *)
THEOREM Announced == Spec => []AnnouncedAfterCommit
  BY Invariance, PTL DEF IInv

-----------------------------------------------------------------------------
(* Buying and switching implement PaidAccess: a commit is a Buy, of the old *)
(* plan's successor in a switch, a cancellation ends what is still live,    *)
(* and every other step is a stutter.                                       *)
THEOREM Implementation == Spec => ImplementsPaidAccess
  <1>1. Init => Access!AccessInit
    BY OpeningAssumption DEF Init, Access!AccessInit
  <1>2. IInv /\ [Next]_vars => [Access!AccessNext]_(Access!accessVars)
    <2> SUFFICES ASSUME IInv, [Next]_vars
                 PROVE  Access!AccessNext \/ UNCHANGED Access!accessVars
      OBVIOUS
    <2> DEFINE active == {s \in Subs : status[s] = "ACTIVE"}
    <2>1. ASSUME UNCHANGED <<status, owner, sku, balance>>
          PROVE  UNCHANGED Access!accessVars
      BY <2>1 DEF Access!accessVars
    <2>2. ASSUME NEW r \in Requests, CommitSubscribe(r) PROVE Access!AccessNext
      <3> DEFINE u == req[r].user
                 k == req[r].sku
      <3>1. u \in Users /\ k \in Skus /\ balance[u] >= CoinCost[k]
        BY <2>2 DEF IInv, Handled, CommitSubscribe, Affords
      <3>2. PICK s \in Subs :
              /\ status[s] = "NONE"
              /\ status' = [status EXCEPT ![s] = "ACTIVE"]
              /\ owner' = [owner EXCEPT ![s] = u]
              /\ sku' = [sku EXCEPT ![s] = k]
        BY <2>2 DEF CommitSubscribe
      <3>3. balance' = [balance EXCEPT ![u] = balance[u] - CoinCost[k]]
        BY <2>2 DEF CommitSubscribe, Debit
      <3>4. active' = (active \ {}) \cup {s}
        BY <3>2 DEF IInv, TypeOK
      <3>5. owner[s] = NoUser
        BY <3>2 DEF IInv, Sold
      <3>6. Access!Buy(u, k, s, {})
        BY <3>1, <3>2, <3>3, <3>4, <3>5 DEF Access!Buy
      <3> QED
        BY <3>1, <3>6 DEF Access!AccessNext
    <2>3. ASSUME NEW r \in Requests, CommitSwitch(r) PROVE Access!AccessNext
      <3>1. PICK u \in Users, k \in Skus, old \in Subs :
              /\ u = req[r].user /\ k = req[r].sku /\ old = req[r].sub
              /\ balance[u] >= CoinCost[k]
              /\ owner[old] = u /\ status[old] # "NONE"
        BY <2>3, SkusAssumption, UsersAssumption DEF IInv, Handled, CommitSwitch, Affords, Sold
      <3>2. PICK s \in Subs :
              /\ status[s] = "NONE"
              /\ status' = [EndOld(old) EXCEPT ![s] = "ACTIVE"]
              /\ owner' = [owner EXCEPT ![s] = u]
              /\ sku' = [sku EXCEPT ![s] = k]
        BY <2>3, <3>1 DEF CommitSwitch
      <3>3. balance' = [balance EXCEPT ![u] = balance[u] - CoinCost[k]]
        BY <2>3, <3>1 DEF CommitSwitch, Debit
      <3>4. active' = (active \ {old}) \cup {s}
        BY <3>1, <3>2 DEF IInv, TypeOK, EndOld
      <3>5. owner[s] = NoUser
        BY <3>2 DEF IInv, Sold
      <3>6. Access!Buy(u, k, s, {old})
        BY <3>1, <3>2, <3>3, <3>4, <3>5 DEF Access!Buy
      <3>7. {old} \in SUBSET Subs
        BY <3>1
      <3> QED
        BY <3>6, <3>7 DEF Access!AccessNext
    <2>4. ASSUME NEW r \in Requests, SetCancelled(r)
          PROVE  Access!AccessNext \/ UNCHANGED Access!accessVars
      <3>1. PICK s \in Subs :
            /\ status' = [status EXCEPT ![s] = "CANCELLED"]
            /\ UNCHANGED <<owner, sku, balance>>
            /\ status[s] # "NONE"
        BY <2>4 DEF SetCancelled, IInv, Handled
      <3>2. active' = active \ {s}
        BY <3>1 DEF IInv, TypeOK
      <3>3. CASE s \in active
        <4>1. Access!End(s)
          BY <3>1, <3>2, <3>3 DEF Access!End
        <4> QED
          BY <4>1 DEF Access!AccessNext
      <3>4. CASE s \notin active
        <4>1. status' = status
          BY <3>1, <3>4 DEF IInv, TypeOK, Statuses
        <4> QED
          BY <3>1, <4>1 DEF Access!accessVars
      <3> QED
        BY <3>3, <3>4
    <2> QED
      BY <2>1, <2>2, <2>3, <2>4 DEF Next, Request, vars, rows, BeginSubscribe, BeginCancel,
          BeginSwitch, Begin, RecordCancelled, EmitWebhook, Abort
  <1> QED
    BY <1>1, <1>2, Invariance, PTL DEF Spec, ImplementsPaidAccess, Access!AccessSpec

-----------------------------------------------------------------------------
(* What Domain 2 knows of a user whose requests have not overlapped: one    *)
(* request at a time, and one package; the last event tells what is the     *)
(* case but between a change and its own event.                             *)
ToldTruly(u) ==
    \/ ActivePackages(u) = {} /\ told[u].plan = NoSku
    \/ /\ ActivePackages(u) = {told[u].external_subscription_id}
       /\ told[u].plan = sku[told[u].external_subscription_id]
    \/ /\ told[u].enforcement = "full_lockout"
       /\ told[u].external_subscription_id \in Subs
       /\ status[told[u].external_subscription_id] # "NONE"
       /\ sku[told[u].external_subscription_id] \notin Packages

(* What the request r of user u has yet to do, and to tell.                 *)
Underway(u, r) ==
    /\ req[r].pc = "subscribing" /\ req[r].sku \in Packages => ActivePackages(u) = {}
    /\ req[r].pc \in {"switching", "cancelling"} => status[req[r].sub] = "ACTIVE"
    /\ req[r].pc \in {"subscribing", "switching", "cancelling"} => ToldTruly(u)
    /\ \/ req[r].pc = "recording"
       \/ req[r].pc = "emitting" /\ req[r].event = "cancelled"
       => (sku[req[r].sub] \in Packages => ActivePackages(u) = {})
    /\ req[r].pc = "emitting" /\ req[r].event # "cancelled" =>
          ActivePackages(u) = {req[r].sub}

Known(u) ==
    /\ \A q, r \in InFlight(u) : q = r
    /\ \A s, t \in ActivePackages(u) : s = t
    /\ InFlight(u) = {} => ToldTruly(u)
    /\ \A r \in InFlight(u) : Underway(u, r)

KnownInv == \A u \in Users \ drifted : Known(u)
-----------------------------------------------------------------------------
(* What a step of request r for user u leaves alone.                        *)
Acts(r, u) ==
    /\ OthersKeep(r)
    /\ Busy(r) => UserOf(r) = u
    /\ Busy(r)' => UserOf(r)' = u
    /\ \A v \in Users \ {u} : told'[v] = told[v]
    /\ drifted \subseteq drifted'
    /\ drifted' \subseteq drifted \cup {u}
    /\ \A s \in Subs :
          \/ status'[s] = status[s] /\ owner'[s] = owner[s] /\ sku'[s] = sku[s]
          \/ owner[s] \in {u, NoUser} /\ owner'[s] = u

(* The users of the other requests, and their plans, stay what they are.    *)
LEMMA ActsFrame ==
  ASSUME IInv, Forward, NEW r \in Requests, NEW u \in Users, Acts(r, u)
  PROVE  /\ \A o \in Requests \ {r} : (Busy(o)' <=> Busy(o)) /\ (Busy(o) => UserOf(o)' = UserOf(o))
         /\ \A v \in Users \ {u} : ActivePackages(v)' = ActivePackages(v)
         /\ \A v \in Users \ {u} : InFlight(v)' = InFlight(v)
         /\ InFlight(u)' \ {r} = InFlight(u) \ {r}
  <1>1. ASSUME NEW o \in Requests \ {r}
        PROVE  (Busy(o)' <=> Busy(o)) /\ (Busy(o) => UserOf(o)' = UserOf(o))
    <2>1. req'[o] = req[o]
      BY DEF Acts, OthersKeep
    <2>2. Busy(o)' <=> Busy(o)
      BY <2>1 DEF Busy
    <2>3. ASSUME Busy(o) PROVE UserOf(o)' = UserOf(o)
      <3>1. CASE req[o].user # NoUser
        BY <2>1, <3>1 DEF UserOf
      <3>2. CASE req[o].user = NoUser
        <4>1. req[o] \in RequestStates /\ Handled(o)
          BY DEF IInv, TypeOK
        <4>2. req[o].pc \in {"cancelling", "recording", "emitting"}
          BY <2>3, <3>2, <4>1, UsersAssumption DEF Handled, Busy, RequestStates
        <4>3. req[o].sub \in Subs /\ status[req[o].sub] # "NONE"
          BY <4>1, <4>2 DEF Handled
        <4> QED
          BY <2>1, <3>2, <4>3 DEF UserOf, Forward
      <3> QED
        BY <3>1, <3>2
    <2> QED
      BY <2>2, <2>3
  <1>2. ASSUME NEW v \in Users \ {u} PROVE ActivePackages(v)' = ActivePackages(v)
    <2>1. ASSUME NEW s \in Subs
          PROVE  (status'[s] = "ACTIVE" /\ owner'[s] = v /\ sku'[s] \in Packages)
                 <=> (status[s] = "ACTIVE" /\ owner[s] = v /\ sku[s] \in Packages)
      BY UsersAssumption DEF Acts
    <2> QED
      BY <2>1 DEF ActivePackages
  <1>3. ASSUME NEW v \in Users \ {u} PROVE InFlight(v)' = InFlight(v)
    <2>1. ~ (Busy(r) /\ UserOf(r) = v) /\ ~ (Busy(r)' /\ UserOf(r)' = v)
      BY DEF Acts
    <2> QED
      BY <1>1, <2>1 DEF InFlight
  <1>4. InFlight(u)' \ {r} = InFlight(u) \ {r}
    BY <1>1 DEF InFlight
  <1> QED
    BY <1>1, <1>2, <1>3, <1>4

(* An undisturbed user is still told the truth.                             *)
LEMMA StillTold ==
  ASSUME IInv, Forward, NEW v \in Users, ToldTruly(v),
         ActivePackages(v)' = ActivePackages(v), told'[v] = told[v]
  PROVE  ToldTruly(v)'
  <1> DEFINE about == told[v].external_subscription_id
  <1>1. CASE ActivePackages(v) = {} /\ told[v].plan = NoSku
    BY <1>1 DEF ToldTruly
  <1>2. CASE ActivePackages(v) = {about} /\ told[v].plan = sku[about]
    <2>1. about \in Subs /\ status[about] # "NONE"
      BY <1>2 DEF ActivePackages
    <2> QED
      BY <1>2, <2>1 DEF ToldTruly, Forward
  <1>3. CASE /\ told[v].enforcement = "full_lockout"
             /\ about \in Subs
             /\ status[about] # "NONE"
             /\ sku[about] \notin Packages
    BY <1>3 DEF ToldTruly, Forward
  <1> QED
    BY <1>1, <1>2, <1>3 DEF ToldTruly

LEMMA OtherUsers ==
  ASSUME IInv, Forward, NEW r \in Requests, NEW u \in Users, Acts(r, u),
         NEW v \in Users \ {u}, Known(v)
  PROVE  Known(v)'
  <1>1. ActivePackages(v)' = ActivePackages(v) /\ InFlight(v)' = InFlight(v) /\ told'[v] = told[v]
    BY ActsFrame DEF Acts
  <1>2. ASSUME ToldTruly(v) PROVE ToldTruly(v)'
    BY <1>1, <1>2, StillTold
  <1>3. ASSUME NEW o \in InFlight(v) PROVE Underway(v, o)'
    <2>1. o \in Requests \ {r} /\ Busy(o) /\ UserOf(o) = v
      BY <1>3 DEF InFlight, Acts
    <2>2. req'[o] = req[o] /\ Handled(o) /\ Underway(v, o)
      BY <2>1, <1>3 DEF Acts, OthersKeep, IInv, Known
    <2>3. ASSUME req[o].pc \in {"switching", "cancelling"}
          PROVE  status'[req[o].sub] = "ACTIVE"
      <3>1. req[o].sub \in Subs /\ owner[req[o].sub] = v
        BY <2>1, <2>2, <2>3, UsersAssumption DEF Handled, UserOf
      <3> QED
        BY <2>2, <2>3, <3>1, UsersAssumption DEF Acts, Underway
    <2>4. ASSUME req[o].pc \in {"recording", "emitting"}
          PROVE  sku'[req[o].sub] = sku[req[o].sub]
      BY <2>2, <2>4 DEF Handled, Forward
    <2> QED
      BY <1>1, <1>2, <2>2, <2>3, <2>4 DEF Underway
  <1> QED
    BY <1>1, <1>2, <1>3 DEF Known

-----------------------------------------------------------------------------
(* The user whose request takes the step.                                   *)

LEMMA BeginKnown ==
  ASSUME IInv, IInv', Forward, NEW r \in Requests, NEW u \in Users, NEW q \in RequestStates,
         Begin(r, u, q), q.pc # "idle",
         q.user = u \/ (q.user = NoUser /\ owner[q.sub] = u)
  PROVE  /\ Acts(r, u)
         /\ ActivePackages(u)' = ActivePackages(u) /\ req'[r] = q
         /\ u \notin drifted' => InFlight(u) = {} /\ InFlight(u)' = {r}
  <1>1. req'[r] = q /\ OthersKeep(r) /\ ~ Busy(r) /\ UNCHANGED <<rows, told>>
    BY DEF Begin, IInv, TypeOK, OthersKeep, Busy
  <1>2. Busy(r)' /\ UserOf(r)' = u
    BY <1>1, UsersAssumption DEF Busy, UserOf, rows
  <1>3. drifted \subseteq drifted' /\ drifted' \subseteq drifted \cup {u}
    BY DEF Begin
  <1>4. Acts(r, u)
    BY <1>1, <1>2, <1>3 DEF Acts, rows
  <1>5. ASSUME u \notin drifted' PROVE InFlight(u) = {} /\ InFlight(u)' = {r}
    <2>1. InFlight(u) = {}
      BY <1>5 DEF Begin
    <2>2. InFlight(u)' \ {r} = {}
      BY <1>4, <2>1, ActsFrame
    <2>3. r \in InFlight(u)'
      BY <1>2 DEF InFlight
    <2> QED
      BY <2>1, <2>2, <2>3
  <1>6. ActivePackages(u)' = ActivePackages(u)
    BY <1>1 DEF ActivePackages, rows
  <1> QED
    BY <1>1, <1>4, <1>5, <1>6

LEMMA BeginTold ==
  ASSUME IInv, IInv', Forward, NEW r \in Requests, NEW u \in Users, KnownInv,
         Acts(r, u), told' = told,
         ActivePackages(u)' = ActivePackages(u),
         u \notin drifted' => InFlight(u) = {} /\ InFlight(u)' = {r},
         u \notin drifted' /\ ToldTruly(u)' => Underway(u, r)'
  PROVE  u \notin drifted' => Known(u)'
  <1> SUFFICES ASSUME u \notin drifted' PROVE Known(u)'
    OBVIOUS
  <1>1. InFlight(u) = {} /\ InFlight(u)' = {r} /\ Known(u)
    BY DEF Acts, KnownInv
  <1>2. ToldTruly(u)'
    BY <1>1, StillTold DEF Known
  <1> QED
    BY <1>1, <1>2 DEF Known

(* A request that is alone is the only one of its user before and after.    *)
LEMMA Alone ==
  ASSUME IInv, Forward, NEW r \in Requests, NEW u \in Users, Acts(r, u), Busy(r), Known(u)
  PROVE  InFlight(u) = {r} /\ InFlight(u)' \subseteq {r} /\ Underway(u, r)
  <1>1. r \in InFlight(u)
    BY DEF InFlight, Acts
  <1>2. InFlight(u) = {r} /\ Underway(u, r)
    BY <1>1 DEF Known
  <1> QED
    BY <1>2, ActsFrame

LEMMA SubscribeBeginsTold ==
  ASSUME IInv, IInv', Forward, KnownInv, NEW r \in Requests, NEW u \in Users, NEW k \in Skus,
         BeginSubscribe(r, u, k)
  PROVE  Acts(r, u) /\ (u \notin drifted' => Known(u)')
  <1> DEFINE q == [Idle EXCEPT !.pc = "subscribing", !.user = u, !.sku = k]
  <1>1. q \in RequestStates /\ q.pc = "subscribing" /\ q.user = u /\ q.sku = k
    BY IdleType DEF RequestStates, Idle
  <1>2. Begin(r, u, q) /\ (k \in Packages <=> ActivePackages(u) = {}) /\ told' = told
    BY DEF BeginSubscribe, MaySubscribe, Begin
  <1> HIDE DEF q
  <1>3. /\ Acts(r, u)
        /\ ActivePackages(u)' = ActivePackages(u) /\ req'[r] = q
        /\ u \notin drifted' => InFlight(u) = {} /\ InFlight(u)' = {r}
    BY <1>1, <1>2, BeginKnown
  <1>4. u \notin drifted' /\ ToldTruly(u)' => Underway(u, r)'
    BY <1>1, <1>2, <1>3 DEF Underway
  <1> QED
    BY <1>2, <1>3, <1>4, BeginTold

LEMMA CancelBeginsTold ==
  ASSUME IInv, IInv', Forward, KnownInv, NEW r \in Requests, NEW s \in Subs, BeginCancel(r, s)
  PROVE  \E u \in Users : Acts(r, u) /\ (u \notin drifted' => Known(u)')
  <1>1. PICK u \in Users : u = owner[s]
    BY DEF BeginCancel, IInv, Sold, TypeOK
  <1> DEFINE q == [Idle EXCEPT !.pc = "cancelling", !.sub = s]
  <1>2. q \in RequestStates /\ q.pc = "cancelling" /\ q.user = NoUser /\ q.sub = s
    BY IdleType DEF RequestStates, Idle
  <1>3. Begin(r, u, q) /\ status[s] = "ACTIVE" /\ status' = status /\ told' = told
    BY <1>1 DEF BeginCancel, WillCancel, Begin, rows, IInv, TypeOK, Statuses
  <1> HIDE DEF q
  <1>4. /\ Acts(r, u)
        /\ ActivePackages(u)' = ActivePackages(u) /\ req'[r] = q
        /\ u \notin drifted' => InFlight(u) = {} /\ InFlight(u)' = {r}
    BY <1>1, <1>2, <1>3, BeginKnown
  <1>5. u \notin drifted' /\ ToldTruly(u)' => Underway(u, r)'
    BY <1>2, <1>3, <1>4 DEF Underway
  <1>6. u \notin drifted' => Known(u)'
    BY <1>3, <1>4, <1>5, BeginTold
  <1> QED
    BY <1>4, <1>6

LEMMA SwitchBeginsTold ==
  ASSUME IInv, IInv', Forward, KnownInv, NEW r \in Requests, NEW s \in Subs, NEW k \in Skus,
         BeginSwitch(r, s, k)
  PROVE  \E u \in Users : Acts(r, u) /\ (u \notin drifted' => Known(u)')
  <1>1. PICK u \in Users : u = owner[s]
    BY DEF BeginSwitch, IInv, Sold, TypeOK
  <1> DEFINE q == [pc |-> "switching", user |-> u, sub |-> s, sku |-> k,
                   event |-> SwitchEvent(s, k)]
  <1>2. /\ q \in RequestStates /\ q.pc = "switching" /\ q.user = u /\ q.sub = s
    BY DEF SwitchEvent, Events, RequestStates
  <1>3. Begin(r, u, q) /\ status[s] = "ACTIVE" /\ status' = status /\ told' = told
    BY <1>1 DEF BeginSwitch, Begin, rows
  <1> HIDE DEF q
  <1>4. /\ Acts(r, u)
        /\ ActivePackages(u)' = ActivePackages(u) /\ req'[r] = q
        /\ u \notin drifted' => InFlight(u) = {} /\ InFlight(u)' = {r}
    BY <1>2, <1>3, BeginKnown
  <1>5. u \notin drifted' /\ ToldTruly(u)' => Underway(u, r)'
    BY <1>2, <1>3, <1>4 DEF Underway
  <1>6. u \notin drifted' => Known(u)'
    BY <1>3, <1>4, <1>5, BeginTold
  <1> QED
    BY <1>4, <1>6

LEMMA SubscribeCommitsTold ==
  ASSUME IInv, IInv', Forward, KnownInv, NEW r \in Requests, CommitSubscribe(r)
  PROVE  \E u \in Users : Acts(r, u) /\ (u \notin drifted' => Known(u)')
  <1>1. PICK u \in Users, k \in Skus : u = req[r].user /\ k = req[r].sku
    BY DEF IInv, Handled, CommitSubscribe
  <1>2. PICK s \in Subs :
          /\ status[s] = "NONE"
          /\ status' = [status EXCEPT ![s] = "ACTIVE"]
          /\ owner' = [owner EXCEPT ![s] = u]
          /\ sku' = [sku EXCEPT ![s] = k]
          /\ req' = [req EXCEPT ![r] =
                IF k \in Packages
                THEN [Idle EXCEPT !.pc = "emitting", !.sub = s, !.event = "created"]
                ELSE Idle]
    BY <1>1 DEF CommitSubscribe
  <1>3. req[r].pc = "subscribing" /\ UNCHANGED <<told, drifted>>
    BY DEF CommitSubscribe
  <1>4. /\ OthersKeep(r)
        /\ k \notin Packages => req'[r].pc = "idle"
        /\ k \in Packages =>
              /\ req'[r].pc = "emitting" /\ req'[r].user = NoUser
              /\ req'[r].sub = s /\ req'[r].event = "created"
    BY <1>2 DEF IInv, TypeOK, OthersKeep, Idle
  <1>5. owner[s] = NoUser /\ owner'[s] = u /\ sku'[s] = k /\ status'[s] = "ACTIVE"
    BY <1>2 DEF IInv, TypeOK, Sold
  <1>6. Busy(r) /\ UserOf(r) = u
    BY <1>1, <1>3, UsersAssumption DEF Busy, UserOf
  <1>7. Busy(r)' => UserOf(r)' = u
    BY <1>4, <1>5 DEF Busy, UserOf
  <1>8. Acts(r, u)
    BY <1>2, <1>3, <1>4, <1>5, <1>6, <1>7 DEF Acts, IInv, TypeOK
  <1>9. ActivePackages(u)' = IF k \in Packages THEN ActivePackages(u) \cup {s} ELSE ActivePackages(u)
    BY <1>2, <1>5 DEF ActivePackages, IInv, TypeOK
  <1>10. ASSUME u \notin drifted' PROVE Known(u)'
    <2>1. Known(u) /\ InFlight(u) = {r} /\ InFlight(u)' \subseteq {r} /\ Underway(u, r)
      BY <1>3, <1>6, <1>8, <1>10, Alone DEF KnownInv
    <2>2. CASE k \in Packages
      <3>1. ActivePackages(u)' = {s}
        BY <1>1, <1>3, <1>9, <2>1, <2>2 DEF Underway
      <3>2. r \in InFlight(u)'
        BY <1>4, <1>7, <2>2 DEF InFlight, Busy
      <3>3. Underway(u, r)'
        BY <1>4, <2>2, <3>1 DEF Underway
      <3> QED
        BY <2>1, <3>1, <3>2, <3>3 DEF Known
    <2>3. CASE k \notin Packages
      <3>1. ActivePackages(u)' = ActivePackages(u) /\ ToldTruly(u)'
        BY <1>3, <1>9, <2>1, <2>3, StillTold DEF Underway
      <3>2. InFlight(u)' = {}
        BY <1>4, <2>1, <2>3 DEF InFlight, Busy
      <3> QED
        BY <2>1, <3>1, <3>2 DEF Known
    <2> QED
      BY <2>2, <2>3
  <1> QED
    BY <1>8, <1>10

LEMMA SwitchCommitsTold ==
  ASSUME IInv, IInv', Forward, KnownInv, NEW r \in Requests, CommitSwitch(r)
  PROVE  \E u \in Users : Acts(r, u) /\ (u \notin drifted' => Known(u)')
  <1>1. PICK u \in Users, k \in Packages, old \in Subs :
          /\ u = req[r].user /\ k = req[r].sku /\ old = req[r].sub
          /\ owner[old] = u /\ sku[old] \in Packages /\ status[old] # "NONE"
          /\ req[r].event # "cancelled"
    BY UsersAssumption DEF IInv, Handled, CommitSwitch, Sold
  <1>2. PICK s \in Subs :
          /\ status[s] = "NONE"
          /\ status' = [EndOld(old) EXCEPT ![s] = "ACTIVE"]
          /\ owner' = [owner EXCEPT ![s] = u]
          /\ sku' = [sku EXCEPT ![s] = k]
          /\ req' = [req EXCEPT ![r] =
                [Idle EXCEPT !.pc = "emitting", !.sub = s, !.event = req[r].event]]
    BY <1>1 DEF CommitSwitch
  <1>3. req[r].pc = "switching" /\ UNCHANGED <<told, drifted>>
    BY DEF CommitSwitch
  <1>4. /\ OthersKeep(r)
        /\ req'[r].pc = "emitting" /\ req'[r].user = NoUser
        /\ req'[r].sub = s /\ req'[r].event = req[r].event
    BY <1>2 DEF IInv, TypeOK, OthersKeep, Idle
  <1>5. /\ owner[s] = NoUser /\ owner'[s] = u /\ sku'[s] = k
        /\ status'[s] = "ACTIVE" /\ status'[old] = "CANCELLED" /\ s # old
    BY <1>1, <1>2 DEF IInv, TypeOK, Sold, EndOld
  <1>6. Busy(r) /\ UserOf(r) = u
    BY <1>1, <1>3, UsersAssumption DEF Busy, UserOf
  <1>7. Busy(r)' /\ UserOf(r)' = u
    BY <1>4, <1>5 DEF Busy, UserOf
  <1>8. ASSUME NEW t \in Subs
        PROVE  \/ status'[t] = status[t] /\ owner'[t] = owner[t] /\ sku'[t] = sku[t]
               \/ owner[t] \in {u, NoUser} /\ owner'[t] = u
    <2>1. CASE t \in {s, old}
      BY <1>1, <1>2, <1>5, <2>1 DEF IInv, TypeOK
    <2>2. CASE t \notin {s, old}
      BY <1>2, <2>2 DEF IInv, TypeOK, EndOld
    <2> QED
      BY <2>1, <2>2
  <1>9. Acts(r, u)
    BY <1>3, <1>4, <1>6, <1>7, <1>8 DEF Acts
  <1>10. ActivePackages(u)' = (ActivePackages(u) \ {old}) \cup {s}
    BY <1>1, <1>2, <1>5 DEF ActivePackages, IInv, TypeOK, EndOld
  <1>11. ASSUME u \notin drifted' PROVE Known(u)'
    <2>1. Known(u) /\ InFlight(u)' \subseteq {r} /\ Underway(u, r)
      BY <1>3, <1>6, <1>9, <1>11, Alone DEF KnownInv
    <2>2. old \in ActivePackages(u)
      BY <1>1, <1>3, <2>1 DEF ActivePackages, Underway
    <2>3. ActivePackages(u)' = {s}
      BY <1>10, <2>1, <2>2 DEF Known
    <2>4. r \in InFlight(u)'
      BY <1>7 DEF InFlight
    <2>5. Underway(u, r)'
      BY <1>1, <1>4, <2>3 DEF Underway
    <2> QED
      BY <2>1, <2>3, <2>4, <2>5 DEF Known
  <1> QED
    BY <1>9, <1>11

LEMMA CancelSetsTold ==
  ASSUME IInv, IInv', Forward, KnownInv, NEW r \in Requests, SetCancelled(r)
  PROVE  \E u \in Users : Acts(r, u) /\ (u \notin drifted' => Known(u)')
  <1>1. PICK s \in Subs : s = req[r].sub /\ status[s] # "NONE" /\ req[r].user = NoUser
    BY DEF SetCancelled, IInv, Handled
  <1>2. PICK u \in Users : u = owner[s]
    BY <1>1 DEF IInv, TypeOK, Sold
  <1>3. /\ req[r].pc = "cancelling"
        /\ status' = [status EXCEPT ![s] = "CANCELLED"]
        /\ UNCHANGED <<owner, sku, told, drifted>>
    BY <1>1 DEF SetCancelled
  <1>4. /\ OthersKeep(r)
        /\ req'[r].pc = "recording" /\ req'[r].user = NoUser /\ req'[r].sub = s
    BY <1>1 DEF SetCancelled, IInv, TypeOK, OthersKeep, Idle
  <1>5. Busy(r) /\ UserOf(r) = u /\ Busy(r)' /\ UserOf(r)' = u
    BY <1>1, <1>2, <1>3, <1>4 DEF Busy, UserOf
  <1>6. Acts(r, u)
    BY <1>2, <1>3, <1>4, <1>5 DEF Acts, IInv, TypeOK
  <1>7. ActivePackages(u)' = ActivePackages(u) \ {s}
    BY <1>1, <1>3 DEF ActivePackages, IInv, TypeOK
  <1>8. ASSUME u \notin drifted' PROVE Known(u)'
    <2>1. Known(u) /\ InFlight(u)' \subseteq {r} /\ Underway(u, r)
      BY <1>3, <1>5, <1>6, <1>8, Alone DEF KnownInv
    <2>2. ASSUME sku[s] \in Packages PROVE ActivePackages(u)' = {}
      <3>1. s \in ActivePackages(u)
        BY <1>1, <1>2, <1>3, <2>1, <2>2 DEF ActivePackages, Underway
      <3> QED
        BY <1>7, <2>1, <3>1 DEF Known
    <2>3. r \in InFlight(u)'
      BY <1>5 DEF InFlight
    <2>4. Underway(u, r)'
      BY <1>3, <1>4, <2>2 DEF Underway
    <2> QED
      BY <1>7, <2>1, <2>3, <2>4 DEF Known
  <1> QED
    BY <1>6, <1>8

LEMMA CancelRecordsTold ==
  ASSUME IInv, IInv', Forward, KnownInv, NEW r \in Requests, RecordCancelled(r)
  PROVE  \E u \in Users : Acts(r, u) /\ (u \notin drifted' => Known(u)')
  <1>1. PICK s \in Subs : s = req[r].sub /\ status[s] # "NONE" /\ req[r].user = NoUser
    BY DEF RecordCancelled, IInv, Handled
  <1>2. PICK u \in Users : u = owner[s]
    BY <1>1 DEF IInv, TypeOK, Sold
  <1>3. req[r].pc = "recording" /\ UNCHANGED <<status, owner, sku, told, drifted>>
    BY DEF RecordCancelled
  <1>4. /\ OthersKeep(r)
        /\ req'[r].pc = "emitting" /\ req'[r].user = NoUser /\ req'[r].sub = s
        /\ req'[r].event = "cancelled"
    BY <1>1 DEF RecordCancelled, IInv, TypeOK, OthersKeep, Idle
  <1>5. Busy(r) /\ UserOf(r) = u /\ Busy(r)' /\ UserOf(r)' = u
    BY <1>1, <1>2, <1>3, <1>4 DEF Busy, UserOf
  <1>6. Acts(r, u)
    BY <1>3, <1>4, <1>5 DEF Acts
  <1>7. ActivePackages(u)' = ActivePackages(u)
    BY <1>3 DEF ActivePackages
  <1>8. ASSUME u \notin drifted' PROVE Known(u)'
    <2>1. Known(u) /\ InFlight(u)' \subseteq {r} /\ Underway(u, r)
      BY <1>3, <1>5, <1>6, <1>8, Alone DEF KnownInv
    <2>2. r \in InFlight(u)'
      BY <1>5 DEF InFlight
    <2>3. Underway(u, r)'
      BY <1>1, <1>3, <1>4, <1>7, <2>1 DEF Underway
    <2> QED
      BY <1>7, <2>1, <2>2, <2>3 DEF Known
  <1> QED
    BY <1>6, <1>8

(* The event says what the change has made the case.                        *)
LEMMA EmitTold ==
  ASSUME IInv, IInv', Forward, KnownInv, NEW r \in Requests, EmitWebhook(r)
  PROVE  \E u \in Users : Acts(r, u) /\ (u \notin drifted' => Known(u)')
  <1>1. PICK s \in Subs : s = req[r].sub /\ status[s] # "NONE" /\ req[r].user = NoUser
    BY DEF EmitWebhook, IInv, Handled
  <1>2. PICK u \in Users : u = owner[s]
    BY <1>1 DEF IInv, TypeOK, Sold
  <1>3. req[r].pc = "emitting" /\ UNCHANGED <<status, owner, sku>>
    BY DEF EmitWebhook, rows
  <1>4. OthersKeep(r) /\ req'[r] = Idle
    BY DEF EmitWebhook, IInv, TypeOK, OthersKeep
  <1>5. Busy(r) /\ UserOf(r) = u /\ ~ Busy(r)'
    BY <1>1, <1>2, <1>3, <1>4 DEF Busy, UserOf, Idle
  <1>6. \/ told' = [told EXCEPT ![u] = Payload(req[r].event, s)] /\ UNCHANGED drifted
        \/ drifted' = drifted \cup {u} /\ UNCHANGED told
    BY <1>1, <1>2 DEF EmitWebhook
  <1>7. Acts(r, u)
    BY <1>3, <1>4, <1>5, <1>6 DEF Acts, IInv, TypeOK
  <1>8. ActivePackages(u)' = ActivePackages(u)
    BY <1>3 DEF ActivePackages
  <1>9. ASSUME u \notin drifted' PROVE Known(u)'
    <2>1. told'[u] = Payload(req[r].event, s) /\ u \notin drifted
      BY <1>6, <1>9 DEF IInv, TypeOK
    <2>2. Known(u) /\ InFlight(u)' \subseteq {r} /\ Underway(u, r)
      BY <1>5, <1>7, <2>1, Alone DEF KnownInv
    <2>3. InFlight(u)' = {}
      BY <1>5, <2>2 DEF InFlight
    <2>4. ToldTruly(u)'
      <3>1. CASE req[r].event = "cancelled"
        <4>1. told'[u] = [external_subscription_id |-> s, plan |-> NoSku,
                          enforcement |-> "full_lockout"]
          BY <2>1, <3>1 DEF Payload, formatSubscriptionCancelled
        <4>2. CASE sku[s] \in Packages
          BY <1>1, <1>3, <1>8, <2>2, <3>1, <4>1, <4>2 DEF Underway, ToldTruly
        <4>3. CASE sku[s] \notin Packages
          BY <1>1, <1>3, <4>1, <4>3 DEF ToldTruly
        <4> QED
          BY <4>2, <4>3
      <3>2. CASE req[r].event # "cancelled"
        <4>1. told'[u].external_subscription_id = s /\ told'[u].plan = sku[s]
          BY <2>1, <3>2 DEF Payload, buildSubscriptionUpdate
        <4>2. ActivePackages(u)' = {s}
          BY <1>1, <1>3, <1>8, <2>2, <3>2 DEF Underway
        <4> QED
          BY <1>3, <4>1, <4>2 DEF ToldTruly
      <3> QED
        BY <3>1, <3>2
    <2> QED
      BY <1>8, <2>2, <2>3, <2>4 DEF Known
  <1> QED
    BY <1>7, <1>9

LEMMA AbortTold ==
  ASSUME IInv, IInv', Forward, KnownInv, NEW r \in Requests, Abort(r)
  PROVE  \E u \in Users : Acts(r, u) /\ (u \notin drifted' => Known(u)')
  <1>1. PICK u \in Users : u = UserOf(r)
    BY UserOfType DEF Abort, IInv
  <1>2. /\ Busy(r) /\ OthersKeep(r) /\ req'[r] = Idle
        /\ UNCHANGED <<status, owner, sku, told>>
        /\ drifted' = IF req[r].pc \in {"recording", "emitting"} THEN drifted \cup {u} ELSE drifted
    BY <1>1 DEF Abort, IInv, TypeOK, OthersKeep, rows
  <1>3. ~ Busy(r)'
    BY <1>2 DEF Busy, Idle
  <1>4. Acts(r, u)
    BY <1>1, <1>2, <1>3 DEF Acts
  <1>5. ActivePackages(u)' = ActivePackages(u)
    BY <1>2 DEF ActivePackages
  <1>6. ASSUME u \notin drifted' PROVE Known(u)'
    <2>1. Known(u) /\ InFlight(u)' \subseteq {r} /\ Underway(u, r)
      BY <1>2, <1>4, <1>6, Alone DEF KnownInv
    <2>2. req[r] \in RequestStates /\ req[r].pc \notin {"recording", "emitting", "idle"}
      BY <1>2, <1>6 DEF IInv, TypeOK, Busy
    <2>3. ToldTruly(u)
      BY <2>1, <2>2 DEF Underway, RequestStates
    <2>4. ToldTruly(u)'
      BY <1>2, <1>5, <2>3, StillTold
    <2>5. InFlight(u)' = {}
      BY <1>3, <2>1 DEF InFlight
    <2> QED
      BY <1>5, <2>1, <2>4, <2>5 DEF Known
  <1> QED
    BY <1>4, <1>6

LEMMA KnownInvariance == Spec => []KnownInv
  <1>1. Init => KnownInv
    <2> SUFFICES ASSUME Init, NEW u \in Users PROVE Known(u)
      BY DEF KnownInv
    <2>1. ActivePackages(u) = {}
      BY DEF Init, ActivePackages
    <2>2. InFlight(u) = {}
      BY DEF Init, InFlight, Busy, Idle
    <2>3. ToldTruly(u)
      BY <2>1 DEF Init, ToldTruly, Nothing
    <2> QED
      BY <2>1, <2>2, <2>3 DEF Known
  <1>2. IInv /\ IInv' /\ KnownInv /\ [Next]_vars => KnownInv'
    <2> SUFFICES ASSUME IInv, IInv', KnownInv, [Next]_vars PROVE KnownInv'
      OBVIOUS
    <2>1. Forward
      BY NextIInv
    <2>2. ASSUME NEW r \in Requests, NEW u \in Users, Acts(r, u), u \notin drifted' => Known(u)'
          PROVE  KnownInv'
      <3> SUFFICES ASSUME NEW v \in Users, v \notin drifted' PROVE Known(v)'
        BY DEF KnownInv
      <3>1. CASE v = u
        BY <2>2, <3>1
      <3>2. CASE v # u
        BY <2>1, <2>2, <3>2, OtherUsers DEF KnownInv, Acts
      <3> QED
        BY <3>1, <3>2
    <2>3. ASSUME NEW r \in Requests, Request(r)
          PROVE  \E u \in Users : Acts(r, u) /\ (u \notin drifted' => Known(u)')
      BY <2>1, <2>3, SubscribeBeginsTold, SubscribeCommitsTold, CancelBeginsTold, CancelSetsTold,
         CancelRecordsTold, SwitchBeginsTold, SwitchCommitsTold, EmitTold, AbortTold DEF Request
    <2>4. CASE UNCHANGED vars
      BY <2>4 DEF vars, rows, KnownInv, Known, Underway, ToldTruly, InFlight, Busy, UserOf,
                  ActivePackages
    <2> QED
      BY <2>2, <2>3, <2>4 DEF Next
  <1> QED
    BY <1>1, <1>2, Invariance, PTL DEF Spec

(* Domain 2 was last told what is the case, of every user whose requests    *)
(* never overlapped and whose changes were all announced.                   *)
THEOREM Told == Spec => []ToldAsItIs
  <1>1. KnownInv => ToldAsItIs
    <2> SUFFICES ASSUME KnownInv, NEW u \in Users \ drifted, InFlight(u) = {}
                 PROVE  ToldTruly(u)
      BY DEF ToldAsItIs, ToldTruly
    <2> QED
      BY DEF KnownInv, Known
  <1> QED
    BY <1>1, KnownInvariance, PTL

=============================================================================
