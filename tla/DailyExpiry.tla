----------------------------- MODULE DailyExpiry -----------------------------
(***************************************************************************)
(* The nightly sweep, POST /cron/daily-expiry, over the subscriptions of   *)
(* one account: warnings, the start of the grace period, its enforcement,  *)
(* and the expiry of add-ons.  Each part queries the rows of one billing   *)
(* day, then works through that list; a mail that cannot be sent ends the  *)
(* whole sweep.                                                            *)
(*                                                                         *)
(* A scheduler triggers the sweep every day; runs may overlap (a manual    *)
(* run, a retry), and users cancel while it runs.  A step is a query with  *)
(* the update that follows it, or one statement.  Days are numbers: the    *)
(* comparison of a DATE with local midnight is taken as exact.             *)
(***************************************************************************)
EXTENDS Naturals

CONSTANTS
    Packages,    \* package subscriptions of the account
    Addons,      \* its add-on subscriptions
    BillEnd,     \* current_billing_end of each, a day
    GraceDays,   \* 7
    WarnDays,    \* days before the end on which a warning is mailed
    LastDay,     \* the last day looked at (bounds the runs)
    Sweeps,      \* runs of the sweep a day can see (a bound); they may overlap
    NoSub        \* no subscription

Subs == Packages \cup Addons

ASSUME SubsAssumption == Packages \cap Addons = {} /\ NoSub \notin Subs
ASSUME BillEndAssumption == BillEnd \in [Subs -> Nat]
ASSUME DaysAssumption == GraceDays \in Nat \ {0} /\ WarnDays \subseteq Nat /\ LastDay \in Nat

VARIABLES
    today,       \* the day
    started,     \* the sweeps triggered today
    status,      \* status of each subscription
    sweep,       \* the sweeps
    outbox,      \* events: <<subscription, day of the idempotency key>>
    cut,         \* whether some sweep did not get to its end (for properties)
    ended        \* those cancelled while no sweep had found them (likewise)

vars == <<today, started, status, sweep, outbox, cut, ended>>

Statuses == {"ACTIVE", "ON_HOLD", "EXPIRED", "CANCELLED"}
SweepStates ==
    [pc : {"idle", "warning", "holding", "enforcing", "announcing", "children",
           "announcingChild", "addons", "announcingAddon"},
     todo : SUBSET Subs,              \* rows the current part has left
     kids : SUBSET Addons,            \* add-ons to expire with the package
     sub : Subs \cup {NoSub}]         \* the row to announce

Idle == [pc |-> "idle", todo |-> {}, kids |-> {}, sub |-> NoSub]

Init ==
    /\ today = 0
    /\ started = {}
    /\ status = [s \in Subs |-> "ACTIVE"]
    /\ sweep = [w \in Sweeps |-> Idle]
    /\ outbox = {}
    /\ cut = FALSE
    /\ ended = {}

Goes(w, record) == sweep' = [sweep EXCEPT ![w] = record]

(* A mail is sent, or it throws and the sweep ends.                         *)
CutShort(w) == Goes(w, Idle) /\ cut' = TRUE
MailThen(w, record) == (Goes(w, record) /\ UNCHANGED cut) \/ CutShort(w)

-----------------------------------------------------------------------------
(* The rows each part queries.                                              *)

ToWarn == {s \in Subs : status[s] = "ACTIVE" /\ \E d \in WarnDays : BillEnd[s] = today + d}

(* H+1.                                                                     *)
HoldNever == {}
HoldAnyStatus == {s \in Subs : BillEnd[s] + 1 = today}
ToHold == {s \in Subs : status[s] = "ACTIVE" /\ BillEnd[s] + 1 = today}

(* The end of the grace period.                                             *)
DayEarly(s) == BillEnd[s] + GraceDays = today + 1
GraceEnds(s) == BillEnd[s] + GraceDays = today

ToEnforce == {s \in Packages : status[s] = "ON_HOLD" /\ GraceEnds(s)}
ToExpire == {s \in Addons : status[s] = "ON_HOLD" /\ GraceEnds(s)}

-----------------------------------------------------------------------------
StartSweep(w) ==
    /\ sweep[w].pc = "idle"
    /\ w \notin started
    /\ started' = started \cup {w}
    /\ Goes(w, [Idle EXCEPT !.pc = "warning"])
    /\ UNCHANGED <<today, status, outbox, cut, ended>>

(* processPreExpiryNotifications; then the query of the next part.          *)
Warn(w) ==
    /\ sweep[w].pc = "warning"
    /\ LET next == [Idle EXCEPT !.pc = "holding", !.todo = ToHold] IN
       IF ToWarn = {} THEN Goes(w, next) /\ UNCHANGED cut ELSE MailThen(w, next)
    /\ UNCHANGED <<today, started, status, outbox, ended>>

(* processGracePeriodStarts: ON_HOLD by id, whatever the status is by now,  *)
(* then the mail.                                                           *)
HoldOne(w) ==
    /\ sweep[w].pc = "holding"
    /\ \E s \in sweep[w].todo :
          /\ status' = [status EXCEPT ![s] = "ON_HOLD"]
          /\ MailThen(w, [sweep[w] EXCEPT !.todo = @ \ {s}])
    /\ UNCHANGED <<today, started, outbox, ended>>

HoldDone(w) ==
    /\ sweep[w].pc = "holding"
    /\ sweep[w].todo = {}
    /\ Goes(w, [Idle EXCEPT !.pc = "enforcing", !.todo = ToEnforce])
    /\ UNCHANGED <<today, started, status, outbox, cut, ended>>

(* processGracePeriodEnforcements: the mail, then EXPIRED.                  *)
EnforceOne(w) ==
    /\ sweep[w].pc = "enforcing"
    /\ \E s \in sweep[w].todo :
          \/ /\ status' = [status EXCEPT ![s] = "EXPIRED"]
             /\ Goes(w, [pc |-> "announcing", todo |-> sweep[w].todo \ {s},
                         kids |-> {}, sub |-> s])
             /\ UNCHANGED cut
          \/ CutShort(w) /\ UNCHANGED status
    /\ UNCHANGED <<today, started, outbox, ended>>

(* insertEvent subscription.expired or addon.expired, under a key that the  *)
(* next run of the same day makes again (the add-ons are taken to hold      *)
(* slots: one without is not announced).                                    *)
EnqueueNothing(s) == outbox' = outbox
Enqueue(s) == outbox' = outbox \cup {<<s, today>>}

(* Then the add-ons on hold are read.                                       *)
AnnounceExpiry(w) ==
    /\ sweep[w].pc = "announcing"
    /\ Enqueue(sweep[w].sub)
    /\ Goes(w, [sweep[w] EXCEPT !.pc = "children", !.sub = NoSub,
                                !.kids = {a \in Addons : status[a] = "ON_HOLD"}])
    /\ UNCHANGED <<today, started, status, cut, ended>>

ExpireChild(w) ==
    /\ sweep[w].pc = "children"
    /\ \E a \in sweep[w].kids :
          /\ status' = [status EXCEPT ![a] = "EXPIRED"]
          /\ Goes(w, [sweep[w] EXCEPT !.pc = "announcingChild", !.sub = a, !.kids = @ \ {a}])
    /\ UNCHANGED <<today, started, outbox, cut, ended>>

AnnounceChild(w) ==
    /\ sweep[w].pc = "announcingChild"
    /\ Enqueue(sweep[w].sub)
    /\ Goes(w, [sweep[w] EXCEPT !.pc = "children", !.sub = NoSub])
    /\ UNCHANGED <<today, started, status, cut, ended>>

ChildrenDone(w) ==
    /\ sweep[w].pc = "children"
    /\ sweep[w].kids = {}
    /\ Goes(w, [sweep[w] EXCEPT !.pc = "enforcing"])
    /\ UNCHANGED <<today, started, status, outbox, cut, ended>>

EnforceDone(w) ==
    /\ sweep[w].pc = "enforcing"
    /\ sweep[w].todo = {}
    /\ Goes(w, [Idle EXCEPT !.pc = "addons", !.todo = ToExpire])
    /\ UNCHANGED <<today, started, status, outbox, cut, ended>>

(* processAddonExpiries: EXPIRED in a transaction (see Slots for the rest   *)
(* of it), then addon.expired.                                              *)
ExpireAddon(w) ==
    /\ sweep[w].pc = "addons"
    /\ \E a \in sweep[w].todo :
          /\ status' = [status EXCEPT ![a] = "EXPIRED"]
          /\ Goes(w, [sweep[w] EXCEPT !.pc = "announcingAddon", !.sub = a, !.todo = @ \ {a}])
    /\ UNCHANGED <<today, started, outbox, cut, ended>>

AnnounceAddon(w) ==
    /\ sweep[w].pc = "announcingAddon"
    /\ Enqueue(sweep[w].sub)
    /\ Goes(w, [sweep[w] EXCEPT !.pc = "addons", !.sub = NoSub])
    /\ UNCHANGED <<today, started, status, cut, ended>>

SweepDone(w) ==
    /\ sweep[w].pc = "addons"
    /\ sweep[w].todo = {}
    /\ Goes(w, Idle)
    /\ UNCHANGED <<today, started, status, outbox, cut, ended>>

(* The process is lost, or a statement fails.                               *)
LoseSweep(w) ==
    /\ sweep[w].pc # "idle"
    /\ CutShort(w)
    /\ UNCHANGED <<today, started, status, outbox, ended>>

-----------------------------------------------------------------------------
(* What sweep w has found and is not done with: the rows it has yet to come *)
(* to, and the one it has yet to announce.                                  *)
Found(w) == sweep[w].todo \cup sweep[w].kids \cup {sweep[w].sub}

(* cancelSubscription (see Subscription), of anything not CANCELLED.        *)
Cancel(s) ==
    /\ status[s] # "CANCELLED"
    /\ status' = [status EXCEPT ![s] = "CANCELLED"]
    /\ ended' = IF \E w \in Sweeps : s \in Found(w) THEN ended ELSE ended \cup {s}
    /\ UNCHANGED <<today, started, sweep, outbox, cut>>

(* The next day, once a sweep was triggered today and all of them are over. *)
NextDay ==
    /\ today < LastDay
    /\ started # {}
    /\ \A w \in Sweeps : sweep[w].pc = "idle"
    /\ today' = today + 1
    /\ started' = {}
    /\ UNCHANGED <<status, sweep, outbox, cut, ended>>

SweepRuns(w) ==
    \/ Warn(w)
    \/ HoldOne(w)
    \/ HoldDone(w)
    \/ EnforceOne(w)
    \/ AnnounceExpiry(w)
    \/ ExpireChild(w)
    \/ AnnounceChild(w)
    \/ ChildrenDone(w)
    \/ EnforceDone(w)
    \/ ExpireAddon(w)
    \/ AnnounceAddon(w)
    \/ SweepDone(w)
    \/ LoseSweep(w)

Next ==
    \/ \E w \in Sweeps : StartSweep(w) \/ SweepRuns(w)
    \/ \E s \in Subs : Cancel(s)
    \/ NextDay

Spec == Init /\ [][Next]_vars

-----------------------------------------------------------------------------
(* Properties.                                                              *)

(* The table and the local variables of the sweeps keep their types: only   *)
(* packages are enforced with their add-ons, only add-ons on their own.     *)
TypeOK ==
    /\ today \in 0..LastDay
    /\ started \subseteq Sweeps
    /\ status \in [Subs -> Statuses]
    /\ sweep \in [Sweeps -> SweepStates]
    /\ \A w \in Sweeps :
          /\ sweep[w].pc \in {"enforcing", "announcing", "children", "announcingChild"} =>
                sweep[w].todo \subseteq Packages
          /\ sweep[w].pc \in {"addons", "announcingAddon"} => sweep[w].todo \subseteq Addons
    /\ outbox \subseteq Subs \X (0..LastDay)
    /\ cut \in BOOLEAN
    /\ ended \subseteq Subs

(* Nobody is put on hold before the paid period is over, or expires before  *)
(* the grace period is, its own or, for an add-on, that of its package:     *)
(* overlapping sweeps, lost and repeated ones never shorten it.             *)
GraceIsKept ==
    \A s \in Subs :
        /\ status[s] = "ON_HOLD" => today > BillEnd[s]
        /\ status[s] = "EXPIRED" =>
              \/ today >= BillEnd[s] + GraceDays
              \/ s \in Addons /\ \E p \in Packages : today >= BillEnd[p] + GraceDays

(* What was cancelled while no sweep had found it stays cancelled, and no   *)
(* sweep, running or started later, takes it up: to hold it, to expire it   *)
(* or to announce it.  (One that had found it by then goes on: it updates   *)
(* by id, whatever the status is, and announces what it set to EXPIRED.)    *)
CancelledStays ==
    \A s \in ended : status[s] = "CANCELLED" /\ \A w \in Sweeps : s \notin Found(w)

(* Domain 2 hears of every expiry: unless a sweep was cut short, what is    *)
(* EXPIRED was announced, or a sweep is about to.  And of a package never   *)
(* before its grace period is over, and once, under the key of that day:    *)
(* overlapping sweeps, or one run again after a failure, make no other.     *)
ExpiryIsAnnounced ==
    /\ \A s \in Subs : status[s] = "EXPIRED" /\ ~ cut =>
          (\E e \in outbox : e[1] = s) \/ (\E w \in Sweeps : sweep[w].sub = s)
    /\ \A e \in outbox : e[1] \in Packages => e[2] = BillEnd[e[1]] + GraceDays

-----------------------------------------------------------------------------
(* Liveness.                                                                *)

(* Days pass, a sweep is triggered every day, and it runs on.               *)
DailyFairness ==
    /\ WF_vars(NextDay)
    /\ WF_vars(\E w \in Sweeps : started = {} /\ StartSweep(w))
    /\ \A w \in Sweeps : WF_vars(SweepRuns(w))

(* "EXPIRED is set by a cron job when current_period_end passes without     *)
(* successful payment": a subscription past its period is in the end        *)
(* EXPIRED, or cancelled, unless a sweep was cut short: a day missed is not *)
(* made up for.                                                             *)
LapsedExpires ==
    DailyFairness =>
        \A s \in Subs :
            (status[s] = "ACTIVE" /\ today > BillEnd[s])
                ~> (cut \/ status[s] \in {"EXPIRED", "CANCELLED"})

=============================================================================
