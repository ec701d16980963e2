---------------------------- MODULE OutboxProofs ----------------------------
(***************************************************************************)
(* Theorems of Outbox, for any number of events and workers, any number of *)
(* attempts and any size of a batch.                                       *)
(***************************************************************************)
EXTENDS Outbox, TLAPS

(* A worker has an event in hand from its claim to its outcome, and a reply *)
(* "ok" came from Domain 2.                                                 *)
InHand ==
    \A w \in Workers :
        /\ worker[w].event # NoEvent <=> worker[w].pc \in {"posting", "settling"}
        /\ worker[w].pc = "settling" /\ worker[w].reply = "ok" =>
              worker[w].event \in accepted

IInv == TypeOK /\ InHand /\ OneSender /\ CompletedIsAccepted

-----------------------------------------------------------------------------
LEMMA IdleType == Idle \in WorkerStates
  BY DEF Idle, WorkerStates, Replies

LEMMA InitIInv == Init => IInv
  <1> SUFFICES ASSUME Init PROVE IInv
    OBVIOUS
  <1>1. TypeOK
    BY IdleType DEF Init, TypeOK, Statuses
  <1>2. InHand
    BY DEF Init, InHand, Idle
  <1>3. OneSender
    BY NoEventAssumption DEF Init, OneSender, Delivering, Idle
  <1>4. CompletedIsAccepted
    BY DEF Init, CompletedIsAccepted
  <1> QED
    BY <1>1, <1>2, <1>3, <1>4 DEF IInv

(* The worker that goes on has nothing in hand, the others what they had.   *)
LEMMA NextRowLets ==
  ASSUME TypeOK, InHand, NEW w \in Workers, NextRow(w)
  PROVE  /\ worker' \in [Workers -> WorkerStates]
         /\ worker'[w].event = NoEvent
         /\ worker'[w].pc \notin {"posting", "settling"}
         /\ \A v \in Workers \ {w} : worker'[v] = worker[v]
  <1>1. worker[w] \in WorkerStates
    BY DEF TypeOK
  <1>2. CASE worker[w].batch = {}
    BY <1>2, IdleType DEF NextRow, TypeOK, Idle
  <1>3. CASE worker[w].batch # {}
    <2> DEFINE s == [worker[w] EXCEPT !.pc = "claiming", !.event = NoEvent, !.reply = "none"]
    <2>1. s \in WorkerStates /\ s.event = NoEvent /\ s.pc = "claiming"
      BY <1>1 DEF WorkerStates, Replies
    <2>2. worker' = [worker EXCEPT ![w] = s]
      BY <1>3 DEF NextRow
    <2> HIDE DEF s
    <2> QED
      BY <2>1, <2>2 DEF TypeOK
  <1> QED
    BY <1>2, <1>3

-----------------------------------------------------------------------------
(* Every step preserves the inductive invariant.                            *)
LEMMA NextIInv == IInv /\ [Next]_vars => IInv'
  <1> SUFFICES ASSUME IInv, [Next]_vars PROVE IInv'
    OBVIOUS
  <1> USE DEF IInv
  <1>1. ASSUME NEW e \in Events, Insert(e) PROVE IInv'
    <2> USE <1>1 DEF Insert
    <2>1. TypeOK'
      BY DEF TypeOK, Statuses
    <2>2. InHand'
      BY DEF InHand
    <2>3. OneSender'
      BY DEF TypeOK, OneSender, Delivering
    <2>4. CompletedIsAccepted'
      BY DEF TypeOK, CompletedIsAccepted
    <2> QED
      BY <2>1, <2>2, <2>3, <2>4
  <1>2. ASSUME NEW e \in Events, BecomeDue(e) PROVE IInv'
    BY <1>2 DEF BecomeDue, TypeOK, InHand, OneSender, Delivering, CompletedIsAccepted
  <1>3. ASSUME NEW w \in Workers, Recover(w) PROVE IInv'
    <2>1. PICK old \in SUBSET {e \in Events : Stranded(e)} :
              /\ status' = [e \in Events |-> IF e \in old THEN "PENDING" ELSE status[e]]
              /\ due' = due \cup old
      BY <1>3 DEF Recover
    <2> DEFINE s == [Idle EXCEPT !.pc = "fetching"]
    <2>2. /\ s \in WorkerStates /\ s.event = NoEvent /\ s.pc = "fetching"
          /\ worker' = [worker EXCEPT ![w] = s]
          /\ UNCHANGED <<attempts, accepted>>
      BY <1>3, IdleType DEF Recover, Idle, WorkerStates
    <2> HIDE DEF s
    <2>3. TypeOK'
      BY <2>1, <2>2 DEF TypeOK, Statuses
    <2>4. InHand'
      BY <2>2 DEF TypeOK, InHand
    <2>5. OneSender'
      BY <2>1, <2>2, NoEventAssumption DEF TypeOK, OneSender, Delivering, Stranded
    <2>6. CompletedIsAccepted'
      BY <2>1, <2>2 DEF TypeOK, CompletedIsAccepted
    <2> QED
      BY <2>3, <2>4, <2>5, <2>6
  <1>4. ASSUME NEW w \in Workers, Fetch(w) PROVE IInv'
    <2>1. PICK batch \in SUBSET Fetchable :
              worker' = [worker EXCEPT ![w] =
                IF batch = {} THEN Idle
                ELSE [Idle EXCEPT !.pc = "claiming", !.batch = batch,
                        !.seen = [e \in Events |-> IF e \in batch THEN attempts[e] ELSE 0]]]
      BY <1>4 DEF Fetch
    <2> DEFINE s == IF batch = {} THEN Idle
                ELSE [Idle EXCEPT !.pc = "claiming", !.batch = batch,
                        !.seen = [e \in Events |-> IF e \in batch THEN attempts[e] ELSE 0]]
    <2>2. batch \subseteq Events
      BY DEF Fetchable, TypeOK
    <2>3. s \in WorkerStates /\ s.event = NoEvent /\ s.pc \notin {"posting", "settling"}
      <3>1. [e \in Events |-> IF e \in batch THEN attempts[e] ELSE 0] \in [Events -> Nat]
        BY DEF TypeOK
      <3> QED
        BY <2>2, <3>1, IdleType DEF Idle, WorkerStates, Replies
    <2>4. worker' = [worker EXCEPT ![w] = s] /\ UNCHANGED <<status, attempts, due, accepted>>
      BY <1>4, <2>1 DEF Fetch
    <2> HIDE DEF s
    <2>5. TypeOK'
      BY <2>3, <2>4 DEF TypeOK
    <2>6. InHand'
      BY <2>3, <2>4 DEF TypeOK, InHand
    <2>7. OneSender' /\ CompletedIsAccepted'
      BY <2>3, <2>4, NoEventAssumption DEF TypeOK, OneSender, Delivering, CompletedIsAccepted
    <2> QED
      BY <2>5, <2>6, <2>7
  <1>5. ASSUME NEW w \in Workers, Claim(w) PROVE IInv'
    <2>1. PICK e \in worker[w].batch :
              /\ Claimable(e)
              /\ status' = [status EXCEPT ![e] = "PROCESSING"]
              /\ worker' = [worker EXCEPT ![w] =
                    [worker[w] EXCEPT !.pc = "posting", !.batch = worker[w].batch \ {e}, !.event = e]]
      BY <1>5 DEF Claim, TypeOK
    <2> DEFINE s == [worker[w] EXCEPT !.pc = "posting", !.batch = worker[w].batch \ {e}, !.event = e]
    <2>2. worker[w] \in WorkerStates /\ e \in Events
      BY DEF TypeOK, WorkerStates
    <2>3. s \in WorkerStates /\ s.event = e /\ s.pc = "posting"
      BY <2>2 DEF WorkerStates
    <2>4. worker' = [worker EXCEPT ![w] = s] /\ UNCHANGED <<attempts, due, accepted>>
      BY <1>5, <2>1 DEF Claim
    <2> HIDE DEF s
    <2>5. TypeOK'
      BY <2>1, <2>2, <2>3, <2>4 DEF TypeOK, Statuses
    <2>6. InHand'
      BY <2>2, <2>3, <2>4, NoEventAssumption DEF TypeOK, InHand
    <2>7. OneSender'
      BY <2>1, <2>2, <2>3, <2>4 DEF TypeOK, OneSender, Delivering, Claimable
    <2>8. CompletedIsAccepted'
      BY <2>1, <2>2, <2>4 DEF TypeOK, CompletedIsAccepted
    <2> QED
      BY <2>5, <2>6, <2>7, <2>8
  <1>6. ASSUME NEW w \in Workers, Skip(w) PROVE IInv'
    <2>1. PICK e \in worker[w].batch :
              worker' = [worker EXCEPT ![w] =
                  IF worker[w].batch = {e} THEN Idle
                  ELSE [worker[w] EXCEPT !.batch = worker[w].batch \ {e}]]
      BY <1>6 DEF Skip, TypeOK
    <2> DEFINE s == IF worker[w].batch = {e} THEN Idle
                    ELSE [worker[w] EXCEPT !.batch = worker[w].batch \ {e}]
    <2>2. worker[w] \in WorkerStates /\ worker[w].event = NoEvent /\ worker[w].pc = "claiming"
      BY <1>6 DEF Skip, TypeOK, InHand
    <2>3. s \in WorkerStates /\ s.event = NoEvent /\ s.pc \notin {"posting", "settling"}
      <3>1. CASE worker[w].batch = {e}
        BY <3>1, IdleType DEF Idle
      <3>2. CASE worker[w].batch # {e}
        BY <2>2, <3>2 DEF WorkerStates
      <3> QED
        BY <3>1, <3>2
    <2>4. worker' = [worker EXCEPT ![w] = s] /\ UNCHANGED <<status, attempts, due, accepted>>
      BY <1>6, <2>1 DEF Skip
    <2> HIDE DEF s
    <2>5. TypeOK'
      BY <2>3, <2>4 DEF TypeOK
    <2>6. InHand'
      BY <2>3, <2>4 DEF TypeOK, InHand
    <2>7. OneSender' /\ CompletedIsAccepted'
      BY <2>3, <2>4, NoEventAssumption DEF TypeOK, OneSender, Delivering, CompletedIsAccepted
    <2> QED
      BY <2>5, <2>6, <2>7
  <1>7. ASSUME NEW w \in Workers, Post(w) PROVE IInv'
    <2>1. PICK reply \in Replies \ {"none"} :
              /\ worker' = [worker EXCEPT ![w] =
                    [worker[w] EXCEPT !.pc = "settling", !.reply = reply]]
              /\ accepted' \in
                    CASE reply = "ok" -> {accepted \cup {worker[w].event}}
                      [] reply = "fatal" -> {accepted}
                      [] reply = "transient" -> {accepted, accepted \cup {worker[w].event}}
      BY <1>7 DEF Post, TypeOK
    <2> DEFINE s == [worker[w] EXCEPT !.pc = "settling", !.reply = reply]
    <2>2. /\ worker[w] \in WorkerStates
          /\ worker[w].event \in Events
      BY <1>7 DEF Post, TypeOK, InHand, WorkerStates
    <2>3. s \in WorkerStates /\ s.event = worker[w].event /\ s.pc = "settling" /\ s.reply = reply
      BY <2>2 DEF WorkerStates
    <2>4. worker' = [worker EXCEPT ![w] = s] /\ UNCHANGED <<status, attempts, due>>
      BY <1>7, <2>1 DEF Post
    <2>5. /\ accepted \subseteq accepted'
          /\ accepted' \subseteq accepted \cup {worker[w].event}
          /\ reply = "ok" => worker[w].event \in accepted'
      BY <2>1 DEF Replies
    <2> HIDE DEF s
    <2>6. TypeOK'
      BY <2>2, <2>3, <2>4, <2>5 DEF TypeOK
    <2>7. InHand'
      BY <2>2, <2>3, <2>4, <2>5, NoEventAssumption DEF TypeOK, InHand
    <2>8. OneSender'
      BY <2>3, <2>4 DEF TypeOK, OneSender, Delivering
    <2>9. CompletedIsAccepted'
      BY <2>4, <2>5 DEF CompletedIsAccepted
    <2> QED
      BY <2>6, <2>7, <2>8, <2>9
  <1>8. ASSUME NEW w \in Workers, Settle(w) PROVE IInv'
    <2> DEFINE e == worker[w].event
    <2>1. /\ worker[w].pc = "settling"
          /\ NextRow(w)
          /\ UNCHANGED accepted
      BY <1>8 DEF Settle, SettleOk, SettleFailed, SettleRetry
    <2>2. e \in Events /\ status[e] = "PROCESSING"
      BY <2>1 DEF TypeOK, InHand, OneSender, Delivering, WorkerStates
    <2>3. /\ worker' \in [Workers -> WorkerStates]
          /\ worker'[w].event = NoEvent
          /\ worker'[w].pc \notin {"posting", "settling"}
          /\ \A v \in Workers \ {w} : worker'[v] = worker[v]
      BY <2>1, NextRowLets
    <2>4. \/ status' = [status EXCEPT ![e] = "COMPLETED"] /\ worker[w].reply = "ok"
          \/ status' = [status EXCEPT ![e] = "FAILED"]
          \/ status' = [status EXCEPT ![e] = "PENDING"]
      BY <1>8 DEF Settle, SettleOk, SettleFailed, SettleRetry, Completes
    <2>5. attempts' \in [Events -> Nat] /\ due' \subseteq Events
      BY <1>8, <2>2 DEF Settle, SettleOk, SettleFailed, SettleRetry, CountUp, TypeOK
    <2>6. TypeOK'
      BY <2>1, <2>2, <2>3, <2>4, <2>5 DEF TypeOK, Statuses
    <2>7. InHand'
      BY <2>1, <2>3 DEF InHand
    <2>8. OneSender'
      <3> SUFFICES ASSUME NEW v \in Workers, NEW f \in Events, worker'[v].event = f
                   PROVE  /\ status'[f] = "PROCESSING"
                          /\ \A u \in Workers : worker'[u].event = f => u = v
        BY DEF OneSender, Delivering
      <3>1. v # w /\ worker[v].event = f
        BY <2>3, NoEventAssumption
      <3>2. f # e
        BY <3>1 DEF OneSender, Delivering
      <3>3. status'[f] = status[f]
        BY <2>4, <3>2 DEF TypeOK
      <3> QED
        BY <2>3, <3>1, <3>3, NoEventAssumption DEF OneSender, Delivering
    <2>9. CompletedIsAccepted'
      BY <2>1, <2>2, <2>4 DEF TypeOK, CompletedIsAccepted, InHand
    <2> QED
      BY <2>6, <2>7, <2>8, <2>9
  <1>9. ASSUME NEW w \in Workers, SettleThrows(w) PROVE IInv'
    <2> DEFINE s == [worker[w] EXCEPT !.reply = "transient"]
    <2>1. worker[w] \in WorkerStates /\ worker[w].pc = "settling"
      BY <1>9 DEF SettleThrows, TypeOK
    <2>2. /\ s \in WorkerStates /\ s.event = worker[w].event
          /\ s.pc = "settling" /\ s.reply = "transient"
      BY <2>1 DEF WorkerStates, Replies
    <2>3. worker' = [worker EXCEPT ![w] = s] /\ UNCHANGED <<status, attempts, due, accepted>>
      BY <1>9 DEF SettleThrows, TypeOK
    <2> HIDE DEF s
    <2>4. TypeOK'
      BY <2>2, <2>3 DEF TypeOK
    <2>5. InHand'
      BY <2>1, <2>2, <2>3 DEF TypeOK, InHand
    <2>6. OneSender' /\ CompletedIsAccepted'
      BY <2>2, <2>3 DEF TypeOK, OneSender, Delivering, CompletedIsAccepted
    <2> QED
      BY <2>4, <2>5, <2>6
  <1>10. ASSUME NEW w \in Workers, LosePoll(w) PROVE IInv'
    <2>1. /\ worker' = [worker EXCEPT ![w] = Idle]
          /\ UNCHANGED <<status, attempts, due, accepted>>
          /\ Idle.event = NoEvent /\ Idle.pc = "idle"
      BY <1>10 DEF LosePoll, Idle
    <2>2. TypeOK'
      BY <2>1, IdleType DEF TypeOK
    <2>3. InHand'
      BY <2>1 DEF TypeOK, InHand
    <2>4. OneSender' /\ CompletedIsAccepted'
      BY <2>1, NoEventAssumption DEF TypeOK, OneSender, Delivering, CompletedIsAccepted
    <2> QED
      BY <2>2, <2>3, <2>4
  <1>11. CASE UNCHANGED vars
    BY <1>11 DEF vars, TypeOK, InHand, OneSender, Delivering, CompletedIsAccepted
  <1> QED
    BY <1>1, <1>2, <1>3, <1>4, <1>5, <1>6, <1>7, <1>8, <1>9, <1>10, <1>11 DEF Next, Poll

(* The inductive invariant holds in every reachable state of the outbox.    *)
THEOREM Invariance == Spec => []IInv
  BY InitIInv, NextIInv, PTL DEF Spec

(* The table and the workers' variables keep their types.                   *)
THEOREM TypeCorrect == Spec => []TypeOK
  BY Invariance, PTL DEF IInv

(* An event is delivered by one worker at a time, while it is PROCESSING.   *)
THEOREM OneSenderAtATime == Spec => []OneSender
  BY Invariance, PTL DEF IInv

(* A COMPLETED event was accepted by Domain 2.                              *)
THEOREM CompletedWasAccepted == Spec => []CompletedIsAccepted
  BY Invariance, PTL DEF IInv

-----------------------------------------------------------------------------
(* The outbox implements Delivery: an insert enqueues, a POST may be        *)
(* accepted, the outcome completes or gives up an event that is still open, *)
(* and every other step is a stutter.                                       *)
THEOREM Implementation == Spec => ImplementsDelivery
  <1>1. Init => Outcome!DeliveryInit
    BY DEF Init, Outcome!DeliveryInit
  <1>2. IInv /\ [Next]_vars => [Outcome!DeliveryNext]_(Outcome!deliveryVars)
    <2> SUFFICES ASSUME IInv, [Next]_vars
                 PROVE  Outcome!DeliveryNext \/ UNCHANGED Outcome!deliveryVars
      OBVIOUS
    <2> USE DEF IInv
    <2>1. ASSUME NEW e \in Events, Insert(e) PROVE Outcome!Enqueue(e)
      BY <2>1 DEF Insert, TypeOK, Outcome!Enqueue
    <2>2. ASSUME NEW w \in Workers, Recover(w) PROVE UNCHANGED Outcome!deliveryVars
      BY <2>2 DEF Recover, Stranded, TypeOK, Outcome!deliveryVars
    <2>3. ASSUME NEW w \in Workers, Claim(w) PROVE UNCHANGED Outcome!deliveryVars
      <3>1. worker[w].batch \subseteq Events
        BY DEF TypeOK, WorkerStates
      <3> QED
        BY <2>3, <3>1 DEF Claim, Claimable, TypeOK, Outcome!deliveryVars
    <2>4. ASSUME NEW w \in Workers, Post(w)
          PROVE  Outcome!DeliveryNext \/ UNCHANGED Outcome!deliveryVars
      <3> DEFINE e == worker[w].event
      <3>1. e \in Events /\ status[e] = "PROCESSING"
        BY <2>4 DEF Post, TypeOK, InHand, OneSender, Delivering, WorkerStates
      <3>2. /\ accepted' = accepted \/ accepted' = accepted \cup {e}
            /\ UNCHANGED status
        BY <2>4 DEF Post, Replies
      <3>3. CASE accepted' = accepted
        BY <3>2, <3>3 DEF Outcome!deliveryVars
      <3>4. CASE accepted' = accepted \cup {e}
        <4>1. Outcome!Accept(e)
          BY <3>1, <3>2, <3>4 DEF Outcome!Accept
        <4> QED
          BY <3>1, <4>1 DEF Outcome!DeliveryNext
      <3> QED
        BY <3>2, <3>3, <3>4
    <2>5. ASSUME NEW w \in Workers, Settle(w)
          PROVE  Outcome!DeliveryNext \/ UNCHANGED Outcome!deliveryVars
      <3>1. worker[w].pc = "settling" /\ UNCHANGED accepted
        BY <2>5 DEF Settle, SettleOk, SettleFailed, SettleRetry
      <3>2. PICK e \in Events : e = worker[w].event /\ status[e] = "PROCESSING"
        BY <3>1 DEF TypeOK, InHand, OneSender, Delivering, WorkerStates
      <3>3. CASE SettleOk(w)
        <4>1. e \in accepted
          BY <3>1, <3>2, <3>3 DEF SettleOk, Completes, InHand
        <4>2. Outcome!Complete(e)
          BY <3>1, <3>2, <3>3, <4>1 DEF SettleOk, TypeOK, Outcome!Complete
        <4> QED
          BY <4>2 DEF Outcome!DeliveryNext
      <3>4. CASE SettleFailed(w)
        <4>1. Outcome!GiveUp(e)
          BY <3>1, <3>2, <3>4 DEF SettleFailed, TypeOK, Outcome!GiveUp
        <4> QED
          BY <4>1 DEF Outcome!DeliveryNext
      <3>5. CASE SettleRetry(w)
        BY <3>1, <3>2, <3>5 DEF SettleRetry, TypeOK, Outcome!deliveryVars
      <3> QED
        BY <2>5, <3>3, <3>4, <3>5 DEF Settle
    <2>6. CASE UNCHANGED <<status, accepted>>
      BY <2>6 DEF Outcome!deliveryVars
    <2> QED
      BY <2>1, <2>2, <2>3, <2>4, <2>5, <2>6 DEF Next, Poll, vars, BecomeDue, Fetch, Skip,
          SettleThrows, LosePoll, Outcome!DeliveryNext
  <1> QED
    BY <1>1, <1>2, Invariance, PTL DEF Spec, ImplementsDelivery, Outcome!DeliverySpec

=============================================================================
