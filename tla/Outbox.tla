------------------------------- MODULE Outbox -------------------------------
(***************************************************************************)
(* The webhook outbox: services insert events for Domain 2 into a table,   *)
(* a worker in every server process polls it, claims due rows one by one,  *)
(* posts them, and completes, retries or fails them.                       *)
(*                                                                         *)
(* Workers share nothing but the table; a step is one statement or one     *)
(* HTTP call.  A worker may be lost between any two steps, and a new one   *)
(* starts with the next poll.                                              *)
(***************************************************************************)
EXTENDS Naturals, FiniteSets

CONSTANTS
    Events,        \* logical events, one per idempotency key
    NoEvent,       \* none
    Workers,       \* server processes that run an OutboxWorker
    MaxAttempts,   \* MAX_RETRY_ATTEMPTS
    BatchSize      \* OUTBOX_BATCH_SIZE

ASSUME NoEventAssumption == NoEvent \notin Events
ASSUME MaxAttemptsAssumption == MaxAttempts \in Nat \ {0}
ASSUME BatchSizeAssumption == BatchSize \in Nat \ {0}

VARIABLES
    status,        \* status of each row, "NONE" before the insert
    attempts,      \* its attempts
    due,           \* rows whose next_attempt_at is past
    worker,        \* what each worker is doing
    accepted       \* events Domain 2 has accepted

vars == <<status, attempts, due, worker, accepted>>

Statuses == {"NONE", "PENDING", "PROCESSING", "COMPLETED", "FAILED"}
Replies == {"none", "ok", "fatal", "transient"}

WorkerStates ==
    [pc : {"idle", "fetching", "claiming", "posting", "settling"},
     batch : SUBSET Events,                 \* rows fetched, not yet processed
     seen : [Events -> Nat],                \* their attempts when fetched
     event : Events \cup {NoEvent},         \* the row being processed
     reply : Replies]                       \* what became of its POST

Idle ==
    [pc |-> "idle", batch |-> {}, seen |-> [e \in Events |-> 0],
     event |-> NoEvent, reply |-> "none"]

Init ==
    /\ status = [e \in Events |-> "NONE"]
    /\ attempts = [e \in Events |-> 0]
    /\ due = {}
    /\ worker = [w \in Workers |-> Idle]
    /\ accepted = {}

(* The worker goes on with its batch, or its poll is over.                  *)
NextRow(w) ==
    worker' = [worker EXCEPT ![w] =
        IF worker[w].batch = {} THEN Idle
        ELSE [worker[w] EXCEPT !.pc = "claiming", !.event = NoEvent, !.reply = "none"]]

Delivering(w, e) == worker[w].event = e

-----------------------------------------------------------------------------
(* insertEvent: the unique idempotency_key lets a logical event in once.    *)
Insert(e) ==
    /\ status[e] = "NONE"
    /\ status' = [status EXCEPT ![e] = "PENDING"]
    /\ due' = due \cup {e}
    /\ UNCHANGED <<attempts, worker, accepted>>

(* Time reaches next_attempt_at.                                            *)
BecomeDue(e) ==
    /\ status[e] = "PENDING"
    /\ due' = due \cup {e}
    /\ UNCHANGED <<status, attempts, worker, accepted>>

-----------------------------------------------------------------------------
(* Rows PROCESSING for OUTBOX_PROCESSING_TIMEOUT_MS.  A POST is cut off     *)
(* after 30 s, a quarter of it: no worker is still delivering them.         *)
AnyProcessing(e) == status[e] = "PROCESSING"
NeverStranded(e) == FALSE
Stranded(e) == status[e] = "PROCESSING" /\ \A w \in Workers : ~ Delivering(w, e)

(* poll: recoverStaleProcessing, at any age of the stranded rows.           *)
Recover(w) ==
    /\ worker[w].pc = "idle"
    /\ \E old \in SUBSET {e \in Events : Stranded(e)} :
          /\ status' = [e \in Events |-> IF e \in old THEN "PENDING" ELSE status[e]]
          /\ due' = due \cup old
    /\ worker' = [worker EXCEPT ![w] = [Idle EXCEPT !.pc = "fetching"]]
    /\ UNCHANGED <<attempts, accepted>>

(* poll: fetchPending; a batch at most.                                     *)
Fetchable == {e \in due : status[e] = "PENDING"}

Fetch(w) ==
    /\ worker[w].pc = "fetching"
    /\ \E batch \in SUBSET Fetchable :
          /\ Cardinality(batch) <= BatchSize
          /\ batch # Fetchable => Cardinality(batch) = BatchSize
          /\ worker' = [worker EXCEPT ![w] =
                IF batch = {} THEN Idle
                ELSE [Idle EXCEPT !.pc = "claiming", !.batch = batch,
                        !.seen = [e \in Events |-> IF e \in batch THEN attempts[e] ELSE 0]]]
    /\ UNCHANGED <<status, attempts, due, accepted>>

-----------------------------------------------------------------------------
(* markProcessing: the row is still PENDING.                                *)
ClaimsFailedToo(e) == status[e] \in {"PENDING", "FAILED"}
Claimable(e) == status[e] = "PENDING"

(* processEvent claims the row.                                             *)
Claim(w) ==
    /\ worker[w].pc = "claiming"
    /\ \E e \in worker[w].batch :
          /\ Claimable(e)
          /\ status' = [status EXCEPT ![e] = "PROCESSING"]
          /\ worker' = [worker EXCEPT ![w] =
                [worker[w] EXCEPT !.pc = "posting", !.batch = @ \ {e}, !.event = e]]
    /\ UNCHANGED <<attempts, due, accepted>>

(* The row is no longer PENDING, or the update failed: on to the next one.  *)
Skip(w) ==
    /\ worker[w].pc = "claiming"
    /\ \E e \in worker[w].batch :
          worker' = [worker EXCEPT ![w] =
              IF worker[w].batch = {e} THEN Idle
              ELSE [worker[w] EXCEPT !.batch = @ \ {e}]]
    /\ UNCHANGED <<status, attempts, due, accepted>>

(* The POST: accepted, refused for good (401, 422), refused for now, or     *)
(* without an answer, accepted or not.                                      *)
Post(w) ==
    /\ worker[w].pc = "posting"
    /\ \E reply \in Replies \ {"none"} :
          /\ worker' = [worker EXCEPT ![w] = [worker[w] EXCEPT !.pc = "settling", !.reply = reply]]
          /\ accepted' \in
                CASE reply = "ok" -> {accepted \cup {worker[w].event}}
                  [] reply = "fatal" -> {accepted}
                  [] reply = "transient" -> {accepted, accepted \cup {worker[w].event}}
    /\ UNCHANGED <<status, attempts, due>>

(* What a reply makes of the row.                                           *)
Completes(w) == worker[w].reply = "ok"

(* scheduleRetry counts from the attempts seen by the fetch.                *)
Exhausted(w) == worker[w].seen[worker[w].event] + 1 >= MaxAttempts

SettleOk(w) ==
    /\ worker[w].pc = "settling"
    /\ Completes(w)
    /\ status' = [status EXCEPT ![worker[w].event] = "COMPLETED"]
    /\ NextRow(w)
    /\ UNCHANGED <<attempts, due, accepted>>

(* markFailed, after a fatal reply or too many attempts.                    *)
SettleFailed(w) ==
    /\ worker[w].pc = "settling"
    /\ ~ Completes(w)
    /\ worker[w].reply = "fatal" \/ Exhausted(w)
    /\ status' = [status EXCEPT ![worker[w].event] = "FAILED"]
    /\ NextRow(w)
    /\ UNCHANGED <<attempts, due, accepted>>

(* The attempts after one more.                                             *)
CountUp(e) == [attempts EXCEPT ![e] = @ + 1]

(* scheduleRetry: PENDING again, one attempt more, due later.               *)
SettleRetry(w) ==
    /\ worker[w].pc = "settling"
    /\ worker[w].reply = "transient"
    /\ ~ Exhausted(w)
    /\ status' = [status EXCEPT ![worker[w].event] = "PENDING"]
    /\ attempts' = CountUp(worker[w].event)
    /\ due' = due \ {worker[w].event}
    /\ NextRow(w)
    /\ UNCHANGED accepted

(* markCompleted or markFailed throws: the catch block retries a delivered, *)
(* or a refused, event.                                                     *)
SettleThrows(w) ==
    /\ worker[w].pc = "settling"
    /\ worker[w].reply \in {"ok", "fatal"}
    /\ worker' = [worker EXCEPT ![w] = [worker[w] EXCEPT !.reply = "transient"]]
    /\ UNCHANGED <<status, attempts, due, accepted>>

(* The process is lost, or the poll fails on a database error.              *)
LosePoll(w) ==
    /\ worker[w].pc # "idle"
    /\ worker' = [worker EXCEPT ![w] = Idle]
    /\ UNCHANGED <<status, attempts, due, accepted>>

-----------------------------------------------------------------------------
Settle(w) == SettleOk(w) \/ SettleFailed(w) \/ SettleRetry(w)

Poll(w) ==
    \/ Recover(w)
    \/ Fetch(w)
    \/ Claim(w)
    \/ Skip(w)
    \/ Post(w)
    \/ Settle(w)
    \/ SettleThrows(w)
    \/ LosePoll(w)

Next ==
    \/ \E e \in Events : Insert(e) \/ BecomeDue(e)
    \/ \E w \in Workers : Poll(w)

Spec == Init /\ [][Next]_vars

-----------------------------------------------------------------------------
(* Properties.                                                              *)

(* The table and the local variables of the workers keep their types.       *)
TypeOK ==
    /\ status \in [Events -> Statuses]
    /\ attempts \in [Events -> Nat]
    /\ due \subseteq Events
    /\ worker \in [Workers -> WorkerStates]
    /\ accepted \subseteq Events

(* "Mark as PROCESSING (prevents duplicate pickup)": however polls, retries *)
(* and reclaims of several processes overlap, a row is delivered by one     *)
(* worker at a time, and nobody settles it meanwhile.                       *)
OneSender ==
    \A w \in Workers, e \in Events : Delivering(w, e) =>
        /\ status[e] = "PROCESSING"
        /\ \A v \in Workers : Delivering(v, e) => v = w

(* An event is COMPLETED only if Domain 2 accepted it: lost answers, stale  *)
(* batches and reclaimed rows never count as delivered.                     *)
CompletedIsAccepted ==
    \A e \in Events : status[e] = "COMPLETED" => e \in accepted

Outcome == INSTANCE Delivery WITH
    open <- {e \in Events : status[e] \in {"PENDING", "PROCESSING"}},
    completed <- {e \in Events : status[e] = "COMPLETED"},
    failed <- {e \in Events : status[e] = "FAILED"}

(* The outbox implements Delivery: no enqueued event is forgotten, and what *)
(* is settled stays settled, whichever worker is late.                      *)
ImplementsDelivery == Outcome!DeliverySpec

(* "If max attempts exceeded (6), mark as FAILED": a row that is tried      *)
(* again has been tried less often than that.                               *)
AttemptsBelowMax == \A e \in Events : attempts[e] < MaxAttempts

-----------------------------------------------------------------------------
(* Liveness.                                                                *)

(* Polls are repeated by a timer, time passes, a poll goes on or is lost;   *)
(* and not every poll is lost before it claims the row of e, nor every      *)
(* delivery of it before its end.                                           *)
PollFairness(e) ==
    /\ WF_vars(BecomeDue(e))
    /\ SF_vars(\E w \in Workers : Claim(w) /\ worker'[w].event = e)
    /\ SF_vars(\E w \in Workers : Delivering(w, e) /\ Post(w))
    /\ SF_vars(\E w \in Workers : Delivering(w, e) /\ Settle(w))
    /\ SF_vars(\E w \in Workers : Recover(w) /\ (Stranded(e) => status'[e] = "PENDING"))
    /\ SF_vars(\E w \in Workers : Fetch(w) /\ e \in worker'[w].batch)
    /\ \A w \in Workers : WF_vars(Fetch(w) \/ Claim(w) \/ Skip(w) \/ Post(w) \/ Settle(w) \/ LosePoll(w))

(* An enqueued event is delivered or given up in the end, whatever crashes, *)
(* lost answers and refusals come first, and whatever becomes of the other  *)
(* events: it is not retried for ever, and not stranded in PROCESSING.      *)
Settles(e) == PollFairness(e) => (status[e] = "PENDING" ~> status[e] \in {"COMPLETED", "FAILED"})

EventuallySettled == \A e \in Events : Settles(e)

=============================================================================
