-------------------------- MODULE DailyExpiryProofs --------------------------
(***************************************************************************)
(* Theorems of DailyExpiry, for any number of subscriptions, of sweeps     *)
(* that overlap and of days, and any grace period.                         *)
(***************************************************************************)
EXTENDS DailyExpiry, TLAPS

Announcing == {"announcing", "announcingChild", "announcingAddon"}
Enforcing == {"enforcing", "announcing", "children", "announcingChild"}

(* A sweep has a row in hand while it is to announce it, and only then.     *)
InHand ==
    \A w \in Sweeps :
        /\ sweep[w].pc \in Announcing => sweep[w].sub \in Subs
        /\ sweep[w].pc = "announcing" => sweep[w].sub \in Packages
        /\ sweep[w].pc \in {"announcingChild", "announcingAddon"} => sweep[w].sub \in Addons
        /\ sweep[w].pc \notin Announcing => sweep[w].sub = NoSub

Typed == TypeOK /\ InHand

(* What a sweep has on its list is due: the day does not change before the  *)
(* sweep is over.                                                           *)
ListsAreDue ==
    \A w \in Sweeps :
        /\ sweep[w].pc = "holding" => \A s \in sweep[w].todo : today > BillEnd[s]
        /\ sweep[w].pc \in Enforcing \cup {"addons", "announcingAddon"} =>
              \A s \in sweep[w].todo : GraceEnds(s)
        /\ sweep[w].pc = "announcing" => GraceEnds(sweep[w].sub)
        /\ sweep[w].pc \in Enforcing \ {"enforcing"} => \E p \in Packages : GraceEnds(p)

(* The first half of ExpiryIsAnnounced, and why the second one holds.       *)
Announced ==
    \A s \in Subs : status[s] = "EXPIRED" /\ ~ cut =>
        (\E e \in outbox : e[1] = s) \/ (\E w \in Sweeps : sweep[w].sub = s)
KeyIsTheLastDay ==
    \A e \in outbox : e[1] \in Packages => e[2] = BillEnd[e[1]] + GraceDays

-----------------------------------------------------------------------------
LEMMA IdleType == Idle \in SweepStates /\ Idle.pc = "idle" /\ Idle.todo = {} /\ Idle.kids = {}
                     /\ Idle.sub = NoSub
  BY DEF Idle, SweepStates

LEMMA InitTyped == Init => Typed
  <1> SUFFICES ASSUME Init PROVE Typed
    OBVIOUS
  <1>1. today \in 0..LastDay
    BY DaysAssumption DEF Init
  <1>2. TypeOK
    BY <1>1, IdleType DEF Init, TypeOK, Statuses
  <1>3. InHand
    BY IdleType DEF Init, InHand, Announcing
  <1> QED
    BY <1>2, <1>3 DEF Typed

(* A sweep that goes on to a state of the right type.                       *)
LEMMA GoesType ==
  ASSUME Typed, NEW w \in Sweeps, NEW r \in SweepStates, Goes(w, r),
         r.pc \in {"enforcing", "announcing", "children", "announcingChild"} =>
            r.todo \subseteq Packages,
         r.pc \in {"addons", "announcingAddon"} => r.todo \subseteq Addons,
         r.pc = "announcing" => r.sub \in Packages,
         r.pc \in {"announcingChild", "announcingAddon"} => r.sub \in Addons,
         r.pc \notin Announcing => r.sub = NoSub
  PROVE  /\ sweep' \in [Sweeps -> SweepStates]
         /\ \A v \in Sweeps :
              /\ sweep'[v].pc \in {"enforcing", "announcing", "children", "announcingChild"} =>
                    sweep'[v].todo \subseteq Packages
              /\ sweep'[v].pc \in {"addons", "announcingAddon"} => sweep'[v].todo \subseteq Addons
         /\ InHand'
  BY DEF Typed, TypeOK, InHand, Goes, Announcing, Subs

(* The state of the sweeps, in the words of TypeOK, and InHand.              *)
SweepsTyped ==
    /\ sweep \in [Sweeps -> SweepStates]
    /\ \A w \in Sweeps :
          /\ sweep[w].pc \in {"enforcing", "announcing", "children", "announcingChild"} =>
                sweep[w].todo \subseteq Packages
          /\ sweep[w].pc \in {"addons", "announcingAddon"} => sweep[w].todo \subseteq Addons
    /\ InHand

LEMMA CutShortType ==
  ASSUME Typed, NEW w \in Sweeps, CutShort(w)
  PROVE  SweepsTyped' /\ cut' = TRUE
  BY IdleType, GoesType DEF CutShort, Announcing, SweepsTyped

LEMMA MailThenType ==
  ASSUME Typed, NEW w \in Sweeps, NEW r \in SweepStates, MailThen(w, r),
         r.pc = "holding", r.sub = NoSub
  PROVE  SweepsTyped' /\ cut' \in BOOLEAN
  <1>1. CASE Goes(w, r) /\ UNCHANGED cut
    BY <1>1, GoesType DEF Announcing, SweepsTyped, Typed, TypeOK
  <1>2. CASE CutShort(w)
    BY <1>2, CutShortType
  <1> QED
    BY <1>1, <1>2 DEF MailThen

(* Every step keeps the types.                                              *)
LEMMA NextTyped == Typed /\ [Next]_vars => Typed'
  <1> SUFFICES ASSUME Typed, [Next]_vars PROVE Typed'
    OBVIOUS
  <1> USE DEF Typed
  <1>0. SweepsTyped
    BY DEF TypeOK, SweepsTyped
  <1>1. ASSUME SweepsTyped', cut' \in BOOLEAN,
               UNCHANGED <<today, started, status, outbox, ended>>
        PROVE  Typed'
    BY <1>1 DEF TypeOK, SweepsTyped
  <1>2. ASSUME NEW w \in Sweeps, StartSweep(w) PROVE Typed'
    <2> DEFINE r == [Idle EXCEPT !.pc = "warning"]
    <2>1. r \in SweepStates /\ r.pc = "warning" /\ r.sub = NoSub
      BY IdleType DEF SweepStates, Idle
    <2>2. Goes(w, r)
      BY <1>2 DEF StartSweep
    <2> HIDE DEF r
    <2>3. SweepsTyped'
      BY <2>1, <2>2, GoesType DEF Announcing, SweepsTyped
    <2> QED
      BY <1>2, <2>3 DEF StartSweep, TypeOK, SweepsTyped
  <1>3. ASSUME NEW w \in Sweeps, Warn(w) PROVE Typed'
    <2> DEFINE r == [Idle EXCEPT !.pc = "holding", !.todo = ToHold]
    <2>1. r \in SweepStates /\ r.pc = "holding" /\ r.sub = NoSub
      BY IdleType DEF SweepStates, Idle, ToHold
    <2>2. \/ Goes(w, r) /\ UNCHANGED cut
          \/ MailThen(w, r)
      BY <1>3 DEF Warn
    <2> HIDE DEF r
    <2>3. SweepsTyped' /\ cut' \in BOOLEAN
      BY <2>1, <2>2, MailThenType DEF MailThen
    <2> QED
      BY <1>1, <1>3, <2>3 DEF Warn
  <1>4. ASSUME NEW w \in Sweeps, HoldOne(w) PROVE Typed'
    <2>1. PICK s \in sweep[w].todo :
              /\ status' = [status EXCEPT ![s] = "ON_HOLD"]
              /\ MailThen(w, [sweep[w] EXCEPT !.todo = sweep[w].todo \ {s}])
      BY <1>4 DEF HoldOne
    <2> DEFINE r == [sweep[w] EXCEPT !.todo = sweep[w].todo \ {s}]
    <2>2. r \in SweepStates /\ r.pc = "holding" /\ r.sub = NoSub
      BY <1>4 DEF HoldOne, TypeOK, SweepStates, InHand, Announcing
    <2>3. MailThen(w, r)
      BY <2>1
    <2> HIDE DEF r
    <2>4. SweepsTyped' /\ cut' \in BOOLEAN
      BY <2>2, <2>3, MailThenType
    <2>5. status' \in [Subs -> Statuses]
      BY <2>1 DEF TypeOK, Statuses
    <2> QED
      BY <1>4, <2>4, <2>5 DEF HoldOne, TypeOK, SweepsTyped
  <1>5. ASSUME NEW w \in Sweeps, HoldDone(w) PROVE Typed'
    <2> DEFINE r == [Idle EXCEPT !.pc = "enforcing", !.todo = ToEnforce]
    <2>1. r \in SweepStates /\ r.pc = "enforcing" /\ r.sub = NoSub /\ r.todo \subseteq Packages
      BY IdleType DEF SweepStates, Idle, ToEnforce, Subs
    <2>2. Goes(w, r)
      BY <1>5 DEF HoldDone
    <2> HIDE DEF r
    <2>3. SweepsTyped'
      BY <2>1, <2>2, GoesType DEF Announcing, SweepsTyped
    <2> QED
      BY <1>1, <1>5, <2>3 DEF HoldDone, TypeOK
  <1>6. ASSUME NEW w \in Sweeps, EnforceOne(w) PROVE Typed'
    <2>1. PICK s \in sweep[w].todo :
              \/ /\ status' = [status EXCEPT ![s] = "EXPIRED"]
                 /\ Goes(w, [pc |-> "announcing", todo |-> sweep[w].todo \ {s},
                             kids |-> {}, sub |-> s])
                 /\ UNCHANGED cut
              \/ CutShort(w) /\ UNCHANGED status
      BY <1>6 DEF EnforceOne
    <2> DEFINE r == [pc |-> "announcing", todo |-> sweep[w].todo \ {s}, kids |-> {}, sub |-> s]
    <2>2. /\ r \in SweepStates /\ r.pc = "announcing" /\ r.sub \in Packages
          /\ r.todo \subseteq Packages
      BY <1>6 DEF EnforceOne, TypeOK, SweepStates, Subs
    <2>3. CASE status' = [status EXCEPT ![s] = "EXPIRED"] /\ Goes(w, r) /\ UNCHANGED cut
      <3> HIDE DEF r
      <3>1. SweepsTyped'
        BY <2>2, <2>3, GoesType DEF Announcing, SweepsTyped
      <3>2. status' \in [Subs -> Statuses]
        BY <2>3 DEF TypeOK, Statuses
      <3> QED
        BY <1>6, <2>3, <3>1, <3>2 DEF EnforceOne, TypeOK, SweepsTyped
    <2>4. CASE CutShort(w) /\ UNCHANGED status
      BY <1>1, <1>6, <2>4, CutShortType DEF EnforceOne
    <2> QED
      BY <2>1, <2>3, <2>4
  <1>7. ASSUME NEW w \in Sweeps, AnnounceExpiry(w) PROVE Typed'
    <2> DEFINE r == [sweep[w] EXCEPT !.pc = "children", !.sub = NoSub,
                                     !.kids = {a \in Addons : status[a] = "ON_HOLD"}]
    <2>1. r \in SweepStates /\ r.pc = "children" /\ r.sub = NoSub /\ r.todo \subseteq Packages
      BY <1>7 DEF AnnounceExpiry, TypeOK, SweepStates
    <2>2. Goes(w, r)
      BY <1>7 DEF AnnounceExpiry
    <2> HIDE DEF r
    <2>3. SweepsTyped'
      BY <2>1, <2>2, GoesType DEF Announcing, SweepsTyped
    <2>4. outbox' \subseteq Subs \X (0..LastDay)
      BY <1>7 DEF AnnounceExpiry, Enqueue, TypeOK, InHand, Announcing
    <2> QED
      BY <1>7, <2>3, <2>4 DEF AnnounceExpiry, TypeOK, SweepsTyped
  <1>8. ASSUME NEW w \in Sweeps, ExpireChild(w) PROVE Typed'
    <2>1. PICK a \in sweep[w].kids :
              /\ status' = [status EXCEPT ![a] = "EXPIRED"]
              /\ Goes(w, [sweep[w] EXCEPT !.pc = "announcingChild", !.sub = a,
                                          !.kids = sweep[w].kids \ {a}])
      BY <1>8 DEF ExpireChild
    <2> DEFINE r == [sweep[w] EXCEPT !.pc = "announcingChild", !.sub = a,
                                     !.kids = sweep[w].kids \ {a}]
    <2>2. /\ r \in SweepStates /\ r.pc = "announcingChild" /\ r.sub \in Addons
          /\ r.todo \subseteq Packages
      <3>1. sweep[w] \in SweepStates /\ sweep[w].todo \subseteq Packages
        BY <1>8 DEF ExpireChild, TypeOK
      <3>2. a \in Addons
        BY <3>1 DEF SweepStates
      <3> QED
        BY <3>1, <3>2 DEF SweepStates, Subs
    <2>3. Goes(w, r)
      BY <2>1
    <2> HIDE DEF r
    <2>4. SweepsTyped'
      BY <2>2, <2>3, GoesType DEF Announcing, SweepsTyped
    <2>5. status' \in [Subs -> Statuses]
      BY <2>1 DEF TypeOK, Statuses
    <2> QED
      BY <1>8, <2>4, <2>5 DEF ExpireChild, TypeOK, SweepsTyped
  <1>9. ASSUME NEW w \in Sweeps, AnnounceChild(w) PROVE Typed'
    <2> DEFINE r == [sweep[w] EXCEPT !.pc = "children", !.sub = NoSub]
    <2>1. r \in SweepStates /\ r.pc = "children" /\ r.sub = NoSub /\ r.todo \subseteq Packages
      BY <1>9 DEF AnnounceChild, TypeOK, SweepStates
    <2>2. Goes(w, r)
      BY <1>9 DEF AnnounceChild
    <2> HIDE DEF r
    <2>3. SweepsTyped'
      BY <2>1, <2>2, GoesType DEF Announcing, SweepsTyped
    <2>4. outbox' \subseteq Subs \X (0..LastDay)
      BY <1>9 DEF AnnounceChild, Enqueue, TypeOK, InHand, Announcing
    <2> QED
      BY <1>9, <2>3, <2>4 DEF AnnounceChild, TypeOK, SweepsTyped
  <1>10. ASSUME NEW w \in Sweeps, ChildrenDone(w) PROVE Typed'
    <2> DEFINE r == [sweep[w] EXCEPT !.pc = "enforcing"]
    <2>1. r \in SweepStates /\ r.pc = "enforcing" /\ r.sub = NoSub /\ r.todo \subseteq Packages
      BY <1>10 DEF ChildrenDone, TypeOK, SweepStates, InHand, Announcing
    <2>2. Goes(w, r)
      BY <1>10 DEF ChildrenDone
    <2> HIDE DEF r
    <2>3. SweepsTyped'
      BY <2>1, <2>2, GoesType DEF Announcing, SweepsTyped
    <2> QED
      BY <1>1, <1>10, <2>3 DEF ChildrenDone, TypeOK
  <1>11. ASSUME NEW w \in Sweeps, EnforceDone(w) PROVE Typed'
    <2> DEFINE r == [Idle EXCEPT !.pc = "addons", !.todo = ToExpire]
    <2>1. r \in SweepStates /\ r.pc = "addons" /\ r.sub = NoSub /\ r.todo \subseteq Addons
      BY IdleType DEF SweepStates, Idle, ToExpire, Subs
    <2>2. Goes(w, r)
      BY <1>11 DEF EnforceDone
    <2> HIDE DEF r
    <2>3. SweepsTyped'
      BY <2>1, <2>2, GoesType DEF Announcing, SweepsTyped
    <2> QED
      BY <1>1, <1>11, <2>3 DEF EnforceDone, TypeOK
  <1>12. ASSUME NEW w \in Sweeps, ExpireAddon(w) PROVE Typed'
    <2>1. PICK a \in sweep[w].todo :
              /\ status' = [status EXCEPT ![a] = "EXPIRED"]
              /\ Goes(w, [sweep[w] EXCEPT !.pc = "announcingAddon", !.sub = a,
                                          !.todo = sweep[w].todo \ {a}])
      BY <1>12 DEF ExpireAddon
    <2> DEFINE r == [sweep[w] EXCEPT !.pc = "announcingAddon", !.sub = a,
                                     !.todo = sweep[w].todo \ {a}]
    <2>2. /\ r \in SweepStates /\ r.pc = "announcingAddon" /\ r.sub \in Addons
          /\ r.todo \subseteq Addons
      <3>1. sweep[w] \in SweepStates /\ sweep[w].todo \subseteq Addons
        BY <1>12 DEF ExpireAddon, TypeOK
      <3> QED
        BY <3>1 DEF SweepStates, Subs
    <2>3. Goes(w, r)
      BY <2>1
    <2> HIDE DEF r
    <2>4. SweepsTyped'
      BY <2>2, <2>3, GoesType DEF Announcing, SweepsTyped
    <2>5. status' \in [Subs -> Statuses]
      BY <2>1 DEF TypeOK, Statuses
    <2> QED
      BY <1>12, <2>4, <2>5 DEF ExpireAddon, TypeOK, SweepsTyped
  <1>13. ASSUME NEW w \in Sweeps, AnnounceAddon(w) PROVE Typed'
    <2> DEFINE r == [sweep[w] EXCEPT !.pc = "addons", !.sub = NoSub]
    <2>1. r \in SweepStates /\ r.pc = "addons" /\ r.sub = NoSub /\ r.todo \subseteq Addons
      BY <1>13 DEF AnnounceAddon, TypeOK, SweepStates
    <2>2. Goes(w, r)
      BY <1>13 DEF AnnounceAddon
    <2> HIDE DEF r
    <2>3. SweepsTyped'
      BY <2>1, <2>2, GoesType DEF Announcing, SweepsTyped
    <2>4. outbox' \subseteq Subs \X (0..LastDay)
      BY <1>13 DEF AnnounceAddon, Enqueue, TypeOK, InHand, Announcing
    <2> QED
      BY <1>13, <2>3, <2>4 DEF AnnounceAddon, TypeOK, SweepsTyped
  <1>14. ASSUME NEW w \in Sweeps, SweepDone(w) PROVE Typed'
    <2>1. SweepsTyped'
      BY <1>14, IdleType, GoesType DEF SweepDone, Announcing, SweepsTyped
    <2> QED
      BY <1>1, <1>14, <2>1 DEF SweepDone, TypeOK
  <1>15. ASSUME NEW w \in Sweeps, LoseSweep(w) PROVE Typed'
    BY <1>1, <1>15, CutShortType DEF LoseSweep
  <1>16. ASSUME NEW s \in Subs, Cancel(s) PROVE Typed'
    BY <1>16 DEF Cancel, TypeOK, Statuses, InHand
  <1>17. CASE NextDay
    <2>1. today' \in 0..LastDay
      BY <1>17, DaysAssumption DEF NextDay, TypeOK
    <2> QED
      BY <1>17, <2>1 DEF NextDay, TypeOK, InHand
  <1>18. CASE UNCHANGED vars
    BY <1>18 DEF vars, TypeOK, InHand
  <1> QED
    BY <1>2, <1>3, <1>4, <1>5, <1>6, <1>7, <1>8, <1>9, <1>10, <1>11, <1>12, <1>13,
       <1>14, <1>15, <1>16, <1>17, <1>18 DEF Next, SweepRuns

-----------------------------------------------------------------------------
(* Every list is of rows that are due.                                      *)
LEMMA NextDue ==
  Typed /\ ListsAreDue /\ [Next]_vars => ListsAreDue'
  <1> SUFFICES ASSUME Typed, ListsAreDue, [Next]_vars
               PROVE  ListsAreDue'
    OBVIOUS
  <1> USE IdleType, BillEndAssumption, DaysAssumption DEF Typed, TypeOK,
     InHand, ListsAreDue, SweepStates, Subs, Announcing, Enforcing, GraceEnds
  <1>1. ASSUME NEW w \in Sweeps, StartSweep(w) PROVE ListsAreDue'
    BY <1>1 DEF StartSweep, Goes, Idle
  <1>2. ASSUME NEW w \in Sweeps, Warn(w) PROVE ListsAreDue'
    <2>1. \A s \in ToHold : today > BillEnd[s]
      BY DEF ToHold
    <2> DEFINE r == [Idle EXCEPT !.pc = "holding", !.todo = ToHold]
    <2>2. r.pc = "holding" /\ r.todo = ToHold
      BY DEF Idle
    <2>3. (sweep' = [sweep EXCEPT ![w] = r] \/ sweep' = [sweep EXCEPT ![w] = Idle])
          /\ today' = today
      BY <1>2 DEF Warn, MailThen, CutShort, Goes
    <2> HIDE DEF r
    <2> QED
      BY <2>1, <2>2, <2>3
  <1>3. ASSUME NEW w \in Sweeps, HoldOne(w) PROVE ListsAreDue'
    BY <1>3 DEF HoldOne, Goes, MailThen, CutShort
  <1>4. ASSUME NEW w \in Sweeps, HoldDone(w) PROVE ListsAreDue'
    BY <1>4 DEF HoldDone, Goes, Idle, ToEnforce
  <1>5. ASSUME NEW w \in Sweeps, EnforceOne(w) PROVE ListsAreDue'
    BY <1>5 DEF EnforceOne, Goes, CutShort
  <1>6. ASSUME NEW w \in Sweeps, AnnounceExpiry(w) PROVE ListsAreDue'
    BY <1>6 DEF AnnounceExpiry, Goes
  <1>7. ASSUME NEW w \in Sweeps, ExpireChild(w) PROVE ListsAreDue'
    BY <1>7 DEF ExpireChild, Goes
  <1>8. ASSUME NEW w \in Sweeps, AnnounceChild(w) PROVE ListsAreDue'
    BY <1>8 DEF AnnounceChild, Goes
  <1>9. ASSUME NEW w \in Sweeps, ChildrenDone(w) PROVE ListsAreDue'
    BY <1>9 DEF ChildrenDone, Goes
  <1>10. ASSUME NEW w \in Sweeps, EnforceDone(w) PROVE ListsAreDue'
    BY <1>10 DEF EnforceDone, Goes, Idle, ToExpire
  <1>11. ASSUME NEW w \in Sweeps, ExpireAddon(w) PROVE ListsAreDue'
    BY <1>11 DEF ExpireAddon, Goes
  <1>12. ASSUME NEW w \in Sweeps, AnnounceAddon(w) PROVE ListsAreDue'
    BY <1>12 DEF AnnounceAddon, Goes
  <1>13. ASSUME NEW w \in Sweeps, SweepDone(w) PROVE ListsAreDue'
    BY <1>13 DEF SweepDone, Goes
  <1>14. ASSUME NEW w \in Sweeps, LoseSweep(w) PROVE ListsAreDue'
    BY <1>14 DEF LoseSweep, Goes, CutShort
  <1>15. ASSUME NEW s \in Subs, Cancel(s) PROVE ListsAreDue'
    BY <1>15 DEF Cancel
  <1>16. CASE NextDay
    BY <1>16 DEF NextDay
  <1>17. CASE UNCHANGED vars
    BY <1>17 DEF vars
  <1> QED
    BY <1>1, <1>2, <1>3, <1>4, <1>5, <1>6, <1>7, <1>8, <1>9, <1>10, <1>11,
       <1>12, <1>13, <1>14, <1>15, <1>16, <1>17 DEF Next, SweepRuns

(* The grace period.                                                       *)
LEMMA NextGrace ==
  Typed /\ ListsAreDue /\ GraceIsKept /\ [Next]_vars => GraceIsKept'
  <1> SUFFICES ASSUME Typed, ListsAreDue, GraceIsKept, [Next]_vars
               PROVE  GraceIsKept'
    OBVIOUS
  <1> USE IdleType, BillEndAssumption, DaysAssumption DEF Typed, TypeOK,
     ListsAreDue, GraceIsKept, SweepStates, Subs, Enforcing, GraceEnds
  <1>1. ASSUME NEW w \in Sweeps, StartSweep(w) PROVE GraceIsKept'
    BY <1>1 DEF StartSweep, Goes
  <1>2. ASSUME NEW w \in Sweeps, Warn(w) PROVE GraceIsKept'
    BY <1>2 DEF Warn, Goes
  <1>3. ASSUME NEW w \in Sweeps, HoldOne(w) PROVE GraceIsKept'
    BY <1>3 DEF HoldOne, Goes, MailThen, CutShort
  <1>4. ASSUME NEW w \in Sweeps, HoldDone(w) PROVE GraceIsKept'
    BY <1>4 DEF HoldDone, Goes
  <1>5. ASSUME NEW w \in Sweeps, EnforceOne(w) PROVE GraceIsKept'
    BY <1>5 DEF EnforceOne, Goes
  <1>6. ASSUME NEW w \in Sweeps, AnnounceExpiry(w) PROVE GraceIsKept'
    BY <1>6 DEF AnnounceExpiry, Goes
  <1>7. ASSUME NEW w \in Sweeps, ExpireChild(w) PROVE GraceIsKept'
    BY <1>7 DEF ExpireChild, Goes
  <1>8. ASSUME NEW w \in Sweeps, AnnounceChild(w) PROVE GraceIsKept'
    BY <1>8 DEF AnnounceChild, Goes
  <1>9. ASSUME NEW w \in Sweeps, ChildrenDone(w) PROVE GraceIsKept'
    BY <1>9 DEF ChildrenDone, Goes
  <1>10. ASSUME NEW w \in Sweeps, EnforceDone(w) PROVE GraceIsKept'
    BY <1>10 DEF EnforceDone, Goes
  <1>11. ASSUME NEW w \in Sweeps, ExpireAddon(w) PROVE GraceIsKept'
    BY <1>11 DEF ExpireAddon, Goes
  <1>12. ASSUME NEW w \in Sweeps, AnnounceAddon(w) PROVE GraceIsKept'
    BY <1>12 DEF AnnounceAddon, Goes
  <1>13. ASSUME NEW w \in Sweeps, SweepDone(w) PROVE GraceIsKept'
    BY <1>13 DEF SweepDone, Goes
  <1>14. ASSUME NEW w \in Sweeps, LoseSweep(w) PROVE GraceIsKept'
    BY <1>14 DEF LoseSweep, Goes
  <1>15. ASSUME NEW s \in Subs, Cancel(s) PROVE GraceIsKept'
    BY <1>15 DEF Cancel
  <1>16. CASE NextDay
    BY <1>16 DEF NextDay
  <1>17. CASE UNCHANGED vars
    BY <1>17 DEF vars
  <1> QED
    BY <1>1, <1>2, <1>3, <1>4, <1>5, <1>6, <1>7, <1>8, <1>9, <1>10, <1>11,
       <1>12, <1>13, <1>14, <1>15, <1>16, <1>17 DEF Next, SweepRuns

(* A sweep finds only what is ACTIVE or ON_HOLD, and takes up only what it  *)
(* has found.                                                               *)
LEMMA NextEnded ==
  Typed /\ CancelledStays /\ [Next]_vars => CancelledStays'
  <1> SUFFICES ASSUME Typed, CancelledStays, [Next]_vars
               PROVE  CancelledStays'
    OBVIOUS
  <1> USE IdleType, SubsAssumption DEF Typed, TypeOK, InHand, CancelledStays, Found,
     SweepStates, Announcing, Subs
  <1>1. ASSUME NEW w \in Sweeps, StartSweep(w) PROVE CancelledStays'
    BY <1>1 DEF StartSweep, Goes, Idle
  <1>2. ASSUME NEW w \in Sweeps, Warn(w) PROVE CancelledStays'
    <2>1. ToHold \cap ended = {}
      BY DEF ToHold
    <2> DEFINE r == [Idle EXCEPT !.pc = "holding", !.todo = ToHold]
    <2>2. r.todo = ToHold /\ r.kids = {} /\ r.sub = NoSub
      BY DEF Idle
    <2>3. (sweep' = [sweep EXCEPT ![w] = r] \/ sweep' = [sweep EXCEPT ![w] = Idle])
          /\ UNCHANGED <<status, ended>>
      BY <1>2 DEF Warn, MailThen, CutShort, Goes
    <2> HIDE DEF r
    <2> QED
      BY <2>1, <2>2, <2>3
  <1>3. ASSUME NEW w \in Sweeps, HoldOne(w) PROVE CancelledStays'
    BY <1>3 DEF HoldOne, Goes, MailThen, CutShort
  <1>4. ASSUME NEW w \in Sweeps, HoldDone(w) PROVE CancelledStays'
    BY <1>4 DEF HoldDone, Goes, Idle, ToEnforce
  <1>5. ASSUME NEW w \in Sweeps, EnforceOne(w) PROVE CancelledStays'
    BY <1>5 DEF EnforceOne, Goes, CutShort
  <1>6. ASSUME NEW w \in Sweeps, AnnounceExpiry(w) PROVE CancelledStays'
    BY <1>6 DEF AnnounceExpiry, Goes
  <1>7. ASSUME NEW w \in Sweeps, ExpireChild(w) PROVE CancelledStays'
    BY <1>7 DEF ExpireChild, Goes
  <1>8. ASSUME NEW w \in Sweeps, AnnounceChild(w) PROVE CancelledStays'
    BY <1>8 DEF AnnounceChild, Goes
  <1>9. ASSUME NEW w \in Sweeps, ChildrenDone(w) PROVE CancelledStays'
    BY <1>9 DEF ChildrenDone, Goes
  <1>10. ASSUME NEW w \in Sweeps, EnforceDone(w) PROVE CancelledStays'
    BY <1>10 DEF EnforceDone, Goes, Idle, ToExpire
  <1>11. ASSUME NEW w \in Sweeps, ExpireAddon(w) PROVE CancelledStays'
    BY <1>11 DEF ExpireAddon, Goes
  <1>12. ASSUME NEW w \in Sweeps, AnnounceAddon(w) PROVE CancelledStays'
    BY <1>12 DEF AnnounceAddon, Goes
  <1>13. ASSUME NEW w \in Sweeps, SweepDone(w) PROVE CancelledStays'
    BY <1>13 DEF SweepDone, Goes
  <1>14. ASSUME NEW w \in Sweeps, LoseSweep(w) PROVE CancelledStays'
    BY <1>14 DEF LoseSweep, Goes, CutShort
  <1>15. ASSUME NEW s \in Subs, Cancel(s) PROVE CancelledStays'
    BY <1>15 DEF Cancel
  <1>16. CASE NextDay
    BY <1>16 DEF NextDay
  <1>17. CASE UNCHANGED vars
    BY <1>17 DEF vars
  <1> QED
    BY <1>1, <1>2, <1>3, <1>4, <1>5, <1>6, <1>7, <1>8, <1>9, <1>10, <1>11,
       <1>12, <1>13, <1>14, <1>15, <1>16, <1>17 DEF Next, SweepRuns

(* The row that expires is the one in hand until its event is enqueued.     *)
Tells(w) ==
    /\ \A v \in Sweeps \ {w} : sweep'[v] = sweep[v]
    /\ outbox \subseteq outbox'
    /\ cut' \in {cut, TRUE}
    /\ \A s \in Subs :
          status'[s] = "EXPIRED" /\ status[s] # "EXPIRED" => cut' \/ sweep'[w].sub = s
    /\ \/ sweep[w].sub \notin Subs
       \/ cut'
       \/ sweep'[w].sub = sweep[w].sub
       \/ \E e \in outbox' : e[1] = sweep[w].sub

LEMMA NextAnnounced ==
  Typed /\ Announced /\ [Next]_vars => Announced'
  <1> SUFFICES ASSUME Typed, Announced, [Next]_vars
               PROVE  Announced'
    OBVIOUS
  <1>0. ASSUME NEW w \in Sweeps, Tells(w) PROVE Announced'
    <2> SUFFICES ASSUME NEW s \in Subs, status'[s] = "EXPIRED", ~ cut'
                 PROVE  (\E e \in outbox' : e[1] = s) \/ (\E v \in Sweeps : sweep'[v].sub = s)
      BY DEF Announced
    <2>1. ~ cut
      BY <1>0 DEF Tells
    <2>2. CASE status[s] # "EXPIRED"
      BY <1>0, <2>2 DEF Tells
    <2>3. CASE \E e \in outbox : e[1] = s
      BY <1>0, <2>3 DEF Tells
    <2>4. ASSUME NEW v \in Sweeps, sweep[v].sub = s
          PROVE  (\E e \in outbox' : e[1] = s) \/ (\E u \in Sweeps : sweep'[u].sub = s)
      <3>1. CASE v = w
        BY <1>0, <2>4, <3>1 DEF Tells
      <3>2. CASE v # w
        BY <1>0, <2>4, <3>2 DEF Tells
      <3> QED
        BY <3>1, <3>2
    <2> QED
      BY <2>1, <2>2, <2>3, <2>4 DEF Announced
  <1> USE IdleType, SubsAssumption DEF Typed, TypeOK, InHand, Announcing, Tells, Goes, SweepStates
  <1>1. ASSUME NEW w \in Sweeps, StartSweep(w) PROVE Tells(w)
    BY <1>1 DEF StartSweep, Idle
  <1>2. ASSUME NEW w \in Sweeps, Warn(w) PROVE Tells(w)
    BY <1>2 DEF Warn, Idle, MailThen, CutShort
  <1>3. ASSUME NEW w \in Sweeps, HoldOne(w) PROVE Tells(w)
    <2>1. PICK s \in sweep[w].todo :
              /\ status' = [status EXCEPT ![s] = "ON_HOLD"]
              /\ MailThen(w, [sweep[w] EXCEPT !.todo = sweep[w].todo \ {s}])
      BY <1>3 DEF HoldOne
    <2>2. \A q \in Subs : status'[q] = "EXPIRED" => status[q] = "EXPIRED"
      BY <2>1
    <2> DEFINE r == [sweep[w] EXCEPT !.todo = sweep[w].todo \ {s}]
    <2>3. r.sub = sweep[w].sub
      OBVIOUS
    <2>4. (Goes(w, r) /\ UNCHANGED cut) \/ CutShort(w)
      BY <2>1 DEF MailThen
    <2>5. outbox' = outbox
      BY <1>3 DEF HoldOne
    <2> HIDE DEF r
    <2>6. CASE Goes(w, r) /\ UNCHANGED cut
      BY <2>2, <2>3, <2>5, <2>6
    <2>7. CASE CutShort(w)
      BY <2>2, <2>5, <2>7 DEF CutShort
    <2> QED
      BY <2>4, <2>6, <2>7
  <1>4. ASSUME NEW w \in Sweeps, HoldDone(w) PROVE Tells(w)
    BY <1>4 DEF HoldDone, Idle
  <1>5. ASSUME NEW w \in Sweeps, EnforceOne(w) PROVE Tells(w)
    <2>1. PICK s \in sweep[w].todo :
              \/ /\ status' = [status EXCEPT ![s] = "EXPIRED"]
                 /\ Goes(w, [pc |-> "announcing", todo |-> sweep[w].todo \ {s},
                             kids |-> {}, sub |-> s])
                 /\ UNCHANGED cut
              \/ CutShort(w) /\ UNCHANGED status
      BY <1>5 DEF EnforceOne
    <2>2. outbox' = outbox /\ sweep[w].sub = NoSub
      BY <1>5 DEF EnforceOne
    <2>3. CASE CutShort(w) /\ UNCHANGED status
      BY <2>2, <2>3 DEF CutShort
    <2>4. CASE ~ (CutShort(w) /\ UNCHANGED status)
      <3> DEFINE r == [pc |-> "announcing", todo |-> sweep[w].todo \ {s}, kids |-> {}, sub |-> s]
      <3>1. r.sub = s
        OBVIOUS
      <3>2. status' = [status EXCEPT ![s] = "EXPIRED"] /\ Goes(w, r) /\ UNCHANGED cut
        BY <2>1, <2>4
      <3> HIDE DEF r
      <3> QED
        BY <2>2, <3>1, <3>2 DEF Subs
    <2> QED
      BY <2>3, <2>4
  <1>6. ASSUME NEW w \in Sweeps, AnnounceExpiry(w) PROVE Tells(w)
    <2>1. <<sweep[w].sub, today>> \in outbox' /\ outbox \subseteq outbox'
      BY <1>6 DEF AnnounceExpiry, Enqueue
    <2>2. \E e \in outbox' : e[1] = sweep[w].sub
      BY <2>1
    <2> QED
      BY <1>6, <2>1, <2>2 DEF AnnounceExpiry
  <1>7. ASSUME NEW w \in Sweeps, ExpireChild(w) PROVE Tells(w)
    BY <1>7 DEF ExpireChild
  <1>8. ASSUME NEW w \in Sweeps, AnnounceChild(w) PROVE Tells(w)
    <2>1. <<sweep[w].sub, today>> \in outbox' /\ outbox \subseteq outbox'
      BY <1>8 DEF AnnounceChild, Enqueue
    <2>2. \E e \in outbox' : e[1] = sweep[w].sub
      BY <2>1
    <2> QED
      BY <1>8, <2>1, <2>2 DEF AnnounceChild
  <1>9. ASSUME NEW w \in Sweeps, ChildrenDone(w) PROVE Tells(w)
    BY <1>9 DEF ChildrenDone
  <1>10. ASSUME NEW w \in Sweeps, EnforceDone(w) PROVE Tells(w)
    BY <1>10 DEF EnforceDone, Idle
  <1>11. ASSUME NEW w \in Sweeps, ExpireAddon(w) PROVE Tells(w)
    BY <1>11 DEF ExpireAddon
  <1>12. ASSUME NEW w \in Sweeps, AnnounceAddon(w) PROVE Tells(w)
    <2>1. <<sweep[w].sub, today>> \in outbox' /\ outbox \subseteq outbox'
      BY <1>12 DEF AnnounceAddon, Enqueue
    <2>2. \E e \in outbox' : e[1] = sweep[w].sub
      BY <2>1
    <2> QED
      BY <1>12, <2>1, <2>2 DEF AnnounceAddon
  <1>13. ASSUME NEW w \in Sweeps, SweepDone(w) PROVE Tells(w)
    BY <1>13 DEF SweepDone
  <1>14. ASSUME NEW w \in Sweeps, LoseSweep(w) PROVE Tells(w)
    BY <1>14 DEF LoseSweep, CutShort
  <1>15. ASSUME NEW s \in Subs, Cancel(s) PROVE Announced'
    BY <1>15 DEF Cancel, Announced
  <1>16. CASE NextDay
    BY <1>16 DEF NextDay, Announced
  <1>17. CASE UNCHANGED vars
    BY <1>17 DEF vars, Announced
  <1> HIDE DEF Typed, TypeOK, InHand, Announcing, Tells, Goes, SweepStates
  <1> QED
    BY <1>0, <1>1, <1>2, <1>3, <1>4, <1>5, <1>6, <1>7, <1>8, <1>9, <1>10, <1>11, <1>12,
       <1>13, <1>14, <1>15, <1>16, <1>17 DEF Next, SweepRuns

(* A package is announced on the last day of its grace period.              *)
LEMMA NextKey ==
  Typed /\ ListsAreDue /\ KeyIsTheLastDay /\ [Next]_vars => KeyIsTheLastDay'
  <1> SUFFICES ASSUME Typed, ListsAreDue, KeyIsTheLastDay, [Next]_vars
               PROVE  KeyIsTheLastDay'
    OBVIOUS
  <1> USE IdleType, BillEndAssumption, DaysAssumption, SubsAssumption DEF
     Typed, TypeOK, InHand, ListsAreDue, KeyIsTheLastDay, Announcing,
     Enforcing, GraceEnds, Subs
  <1>1. ASSUME NEW w \in Sweeps, StartSweep(w) PROVE KeyIsTheLastDay'
    BY <1>1 DEF StartSweep, Goes
  <1>2. ASSUME NEW w \in Sweeps, Warn(w) PROVE KeyIsTheLastDay'
    BY <1>2 DEF Warn, Goes
  <1>3. ASSUME NEW w \in Sweeps, HoldOne(w) PROVE KeyIsTheLastDay'
    BY <1>3 DEF HoldOne, Goes
  <1>4. ASSUME NEW w \in Sweeps, HoldDone(w) PROVE KeyIsTheLastDay'
    BY <1>4 DEF HoldDone, Goes
  <1>5. ASSUME NEW w \in Sweeps, EnforceOne(w) PROVE KeyIsTheLastDay'
    BY <1>5 DEF EnforceOne, Goes
  <1>6. ASSUME NEW w \in Sweeps, AnnounceExpiry(w) PROVE KeyIsTheLastDay'
    BY <1>6 DEF AnnounceExpiry, Goes, Enqueue
  <1>7. ASSUME NEW w \in Sweeps, ExpireChild(w) PROVE KeyIsTheLastDay'
    BY <1>7 DEF ExpireChild, Goes
  <1>8. ASSUME NEW w \in Sweeps, AnnounceChild(w) PROVE KeyIsTheLastDay'
    BY <1>8 DEF AnnounceChild, Goes, Enqueue
  <1>9. ASSUME NEW w \in Sweeps, ChildrenDone(w) PROVE KeyIsTheLastDay'
    BY <1>9 DEF ChildrenDone, Goes
  <1>10. ASSUME NEW w \in Sweeps, EnforceDone(w) PROVE KeyIsTheLastDay'
    BY <1>10 DEF EnforceDone, Goes
  <1>11. ASSUME NEW w \in Sweeps, ExpireAddon(w) PROVE KeyIsTheLastDay'
    BY <1>11 DEF ExpireAddon, Goes
  <1>12. ASSUME NEW w \in Sweeps, AnnounceAddon(w) PROVE KeyIsTheLastDay'
    BY <1>12 DEF AnnounceAddon, Goes, Enqueue
  <1>13. ASSUME NEW w \in Sweeps, SweepDone(w) PROVE KeyIsTheLastDay'
    BY <1>13 DEF SweepDone, Goes
  <1>14. ASSUME NEW w \in Sweeps, LoseSweep(w) PROVE KeyIsTheLastDay'
    BY <1>14 DEF LoseSweep, Goes
  <1>15. ASSUME NEW s \in Subs, Cancel(s) PROVE KeyIsTheLastDay'
    BY <1>15 DEF Cancel
  <1>16. CASE NextDay
    BY <1>16 DEF NextDay
  <1>17. CASE UNCHANGED vars
    BY <1>17 DEF vars
  <1> QED
    BY <1>1, <1>2, <1>3, <1>4, <1>5, <1>6, <1>7, <1>8, <1>9, <1>10, <1>11,
       <1>12, <1>13, <1>14, <1>15, <1>16, <1>17 DEF Next, SweepRuns

-----------------------------------------------------------------------------
IInv ==
    /\ Typed
    /\ ListsAreDue
    /\ GraceIsKept
    /\ CancelledStays
    /\ Announced
    /\ KeyIsTheLastDay

LEMMA InitIInv == Init => IInv
  <1> SUFFICES ASSUME Init PROVE IInv
    OBVIOUS
  <1>1. Typed
    BY InitTyped
  <1>2. ListsAreDue
    BY IdleType DEF Init, ListsAreDue, Enforcing
  <1>3. GraceIsKept
    BY DEF Init, GraceIsKept
  <1>4. CancelledStays
    BY DEF Init, CancelledStays
  <1>5. Announced /\ KeyIsTheLastDay
    BY DEF Init, Announced, KeyIsTheLastDay
  <1> QED
    BY <1>1, <1>2, <1>3, <1>4, <1>5 DEF IInv

LEMMA Invariant == Spec => []IInv
  <1>1. IInv /\ [Next]_vars => IInv'
    BY NextTyped, NextDue, NextGrace, NextEnded, NextAnnounced, NextKey DEF IInv
  <1> QED
    BY InitIInv, <1>1, PTL DEF Spec

-----------------------------------------------------------------------------
(* The table and the local variables of the sweeps keep their types, for    *)
(* any subscriptions and sweeps: what processGracePeriodEnforcements works  *)
(* through are packages, what processAddonExpiries does are add-ons.        *)
THEOREM TypeCorrect == Spec => []TypeOK
  <1>1. IInv => TypeOK
    BY DEF IInv, Typed
  <1> QED
    BY Invariant, <1>1, PTL

(* However runs of the sweep overlap, are lost or repeated, nobody is put   *)
(* on hold before the paid period is over, or expires before the grace      *)
(* period is.                                                               *)
THEOREM Grace == Spec => []GraceIsKept
  <1>1. IInv => GraceIsKept
    BY DEF IInv
  <1> QED
    BY Invariant, <1>1, PTL

(* A subscription cancelled while no run of the sweep had found it is never *)
(* put on hold, expired or announced as expired afterwards: it stays        *)
(* CANCELLED, and no run has it to hold, to expire or to announce.          *)
THEOREM Cancelled == Spec => []CancelledStays
  <1>1. IInv => CancelledStays
    BY DEF IInv
  <1> QED
    BY Invariant, <1>1, PTL

(* Unless a run of the sweep was cut short, what is EXPIRED was announced,  *)
(* or a run is about to announce it; and, cut short or not, a package is    *)
(* announced under one idempotency key, that of the day its grace period is *)
(* over, and not on any day before.                                         *)
THEOREM ExpiryAnnounced == Spec => []ExpiryIsAnnounced
  <1>1. IInv => ExpiryIsAnnounced
    BY DEF IInv, Announced, KeyIsTheLastDay, ExpiryIsAnnounced
  <1> QED
    BY Invariant, <1>1, PTL
=============================================================================
