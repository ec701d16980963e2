------------------------------- MODULE Gateway -------------------------------
(***************************************************************************)
(* The checkout's call to the payment gateway.                             *)
(*                                                                         *)
(* Bank Mega: up to MaxRetries attempts, each with an access token and a   *)
(* fresh external id, with a delay between them.  The token is kept by the *)
(* process; whoever finds none that is fresh enough fetches one, and the   *)
(* others await the same promise.  Midtrans: one call, without a timeout.  *)
(*                                                                         *)
(* Time is in ticks of 30 seconds, the timeout of a request's headers.     *)
(* The timer is cleared when they are there: the body of an answer may     *)
(* take as long as the bank likes.  The bank may act on a request at any   *)
(* moment of its flight.  (It may act on an abandoned one later: an        *)
(* attempt without its word counts as possibly open from then on.)         *)
(***************************************************************************)
EXTENDS Naturals, FiniteSets

CONSTANTS
    Clients,         \* clients at their checkout
    NoClient,
    MaxRetries,      \* attempts of one checkout
    TtlTicks,        \* lifetimes the bank gives its tokens
    DefaultTtl,      \* assumed when the answer does not say
    RefreshBuffer    \* what must be left of a token for it to be used again

HeaderTimeout == 1

(* 30 seconds are one tick, the buffer of 60 seconds two.  A token that    *)
(* does not outlive the buffer by a tick is never used again.              *)
ASSUME RetriesAssumption == MaxRetries \in Nat \ {0}
ASSUME TicksAssumption ==
    /\ RefreshBuffer \in Nat /\ RefreshBuffer >= 2 * HeaderTimeout
    /\ DefaultTtl \in Nat
    /\ TtlTicks \subseteq Nat /\ \A t \in TtlTicks : t > RefreshBuffer
ASSUME NoClientAssumption == NoClient \notin Clients

VARIABLES
    call,        \* the call of each client's checkout
    promise,     \* tokenAcquisitionPromise: the call that fetches a token
    cached       \* cachedToken

gatewayVars == <<call, promise, cached>>

Attempts == 1 .. MaxRetries

(* left: until expiresAt, as the process reckons it; life: at the bank.    *)
(* timely: the token's answer came at once, and named its lifetime.        *)
NoToken == [left |-> 0, life |-> 0, timely |-> TRUE]
CachedTokens == [left : Nat, life : Nat, timely : BOOLEAN]

Calls ==
    [pc : {"idle", "token", "fetching", "reading", "waiting", "sending",
           "receiving", "sleeping", "snap", "ok", "failed"},
     attempt : 0 .. MaxRetries,
     age : 0 .. HeaderTimeout,     \* of what it does, in ticks
     ttl : Nat,                    \* of the token being fetched, once issued
     life : Nat,                   \* what is left of it, or of its bearer
     timely : BOOLEAN,
     reply : {"none", "ok", "refused", "expired", "error"},
     opened : SUBSET Attempts,     \* attempts that opened an inquiry at the bank
     unsure : SUBSET Attempts]     \* attempts that ended without its word
NoCall ==
    [pc |-> "idle", attempt |-> 0, age |-> 0, ttl |-> 0, life |-> 0,
     timely |-> TRUE, reply |-> "none", opened |-> {}, unsure |-> {}]

InCall(c) == call[c].pc \notin {"idle", "ok", "failed"}
Answered(c) == call[c].pc \in {"ok", "failed"}

GatewayInit ==
    /\ call = [c \in Clients |-> NoCall]
    /\ promise = NoClient
    /\ cached = NoToken

Become(c, r) == call' = [call EXCEPT ![c] = r]
At(r, pc) == [r EXCEPT !.pc = pc, !.age = 0, !.ttl = 0, !.life = 0,
                       !.timely = TRUE, !.reply = "none"]

-----------------------------------------------------------------------------
(* One attempt: a token, then the inquiry.                                 *)

createCheckout(c, gateway) ==
    /\ call[c].pc = "idle"
    /\ Become(c, IF gateway = "megabank"
                 THEN [NoCall EXCEPT !.pc = "token", !.attempt = 1]
                 ELSE [NoCall EXCEPT !.pc = "snap"])
    /\ UNCHANGED <<promise, cached>>

Send(r, token) ==
    [At(r, "sending") EXCEPT !.life = token.life, !.timely = token.timely]

(* An attempt fails: there is another one, after a delay, but for a 4xx.   *)
ShouldRetry(r) == r.reply \notin {"refused", "expired"} /\ r.attempt < MaxRetries
AfterFailure(r) == At(r, IF ShouldRetry(r) THEN "sleeping" ELSE "failed")

FetchAlways(c) ==
    /\ promise' = c
    /\ Become(c, At(call[c], "fetching"))
FetchOrWait(c) ==
    IF promise # NoClient
    THEN /\ Become(c, At(call[c], "waiting"))
         /\ UNCHANGED promise
    ELSE /\ promise' = c
         /\ Become(c, At(call[c], "fetching"))

HasNotExpired == cached.left > 0
FreshEnough == cached.left > RefreshBuffer
getAccessToken(c) ==
    /\ call[c].pc = "token"
    /\ IF FreshEnough
       THEN Become(c, Send(call[c], cached)) /\ UNCHANGED promise
       ELSE FetchOrWait(c)
    /\ UNCHANGED cached

(* The bank issues the token, at some moment of the request.               *)
BankIssues(c) ==
    /\ call[c].pc = "fetching" /\ call[c].ttl = 0
    /\ \E t \in TtlTicks : Become(c, [call[c] EXCEPT !.ttl = t, !.life = t])
    /\ UNCHANGED <<promise, cached>>

(* The headers of its answer, or of a refusal.                             *)
TokenHeaders(c) ==
    /\ call[c].pc = "fetching"
    /\ Become(c, [call[c] EXCEPT !.pc = "reading", !.age = 0])
    /\ UNCHANGED <<promise, cached>>

(* The promise settles: whoever awaited it goes on.                        *)
ServedBy(c) == {c} \cup {b \in Clients : call[b].pc = "waiting"}

TokenRead(c) ==
    \E named \in BOOLEAN :
        LET token == [left |-> IF named THEN call[c].ttl ELSE DefaultTtl,
                      life |-> call[c].life,
                      timely |-> named /\ call[c].age = 0] IN
        /\ call[c].pc = "reading" /\ call[c].ttl # 0
        /\ cached' = token
        /\ promise' = NoClient
        /\ call' = [b \in Clients |->
              IF b \in ServedBy(c) THEN Send(call[b], token) ELSE call[b]]

AcquisitionFails(c) ==
    /\ promise' = NoClient
    /\ call' = [b \in Clients |->
          IF b \in ServedBy(c) THEN AfterFailure(call[b]) ELSE call[b]]
    /\ UNCHANGED cached

(* No headers in time, or no connection; what is cached stays.             *)
TokenTimesOut(c) == call[c].pc = "fetching" /\ AcquisitionFails(c)

(* An error status, no token in the answer, a broken body.                 *)
TokenFails(c) == call[c].pc = "reading" /\ AcquisitionFails(c)

-----------------------------------------------------------------------------
(* The inquiry.                                                             *)

(* The bank takes the request: it opens an inquiry, or refuses, or fails   *)
(* before or after it opened one; a token that has expired it refuses.     *)
BankReceives(c) ==
    /\ call[c].pc = "sending" /\ call[c].reply = "none"
    /\ \/ /\ call[c].life = 0
          /\ Become(c, [call[c] EXCEPT !.reply = "expired"])
       \/ /\ call[c].life > 0
          /\ \E reply \in {"ok", "refused", "error"}, opens \in BOOLEAN :
                /\ reply = "ok" => opens
                /\ reply = "refused" => ~ opens
                /\ Become(c, [call[c] EXCEPT !.reply = reply, !.life = 0,
                       !.opened = call[c].opened \cup
                          (IF opens THEN {call[c].attempt} ELSE {})])
    /\ UNCHANGED <<promise, cached>>

Headers(c) ==
    /\ call[c].pc = "sending" /\ call[c].reply # "none"
    /\ Become(c, [call[c] EXCEPT !.pc = "receiving", !.age = 0])
    /\ UNCHANGED <<promise, cached>>

AnyResponse(r) == r.reply \in {"ok", "error"}
ResponseOk(r) == r.reply = "ok"
Success(c) ==
    /\ call[c].pc = "receiving"
    /\ ResponseOk(call[c])
    /\ Become(c, At(call[c], "ok"))
    /\ UNCHANGED <<promise, cached>>

ErrorStatus(c) ==
    /\ call[c].pc = "receiving"
    /\ call[c].reply \in {"refused", "expired", "error"}
    /\ Become(c, [AfterFailure(call[c]) EXCEPT !.unsure = call[c].unsure \cup
           (IF call[c].reply = "error" THEN {call[c].attempt} ELSE {})])
    /\ UNCHANGED <<promise, cached>>

(* Without the bank's word: no headers in time, a lost connection, or a    *)
(* body that breaks off or does not parse.                                 *)
EndsUnsure(c) ==
    /\ Become(c, [AfterFailure([call[c] EXCEPT !.reply = "none"])
                     EXCEPT !.unsure = call[c].unsure \cup {call[c].attempt}])
    /\ UNCHANGED <<promise, cached>>
NoTimer(c) == call[c].pc = "sending" /\ call[c].reply # "none" /\ EndsUnsure(c)
NoAnswer(c) == call[c].pc = "sending" /\ EndsUnsure(c)
BrokenBody(c) == call[c].pc = "receiving" /\ EndsUnsure(c)

Wake(c) ==
    /\ call[c].pc = "sleeping"
    /\ Become(c, [At(call[c], "token") EXCEPT !.attempt = call[c].attempt + 1])
    /\ UNCHANGED <<promise, cached>>

SnapAnswers(c) ==
    /\ call[c].pc = "snap"
    /\ \E pc \in {"ok", "failed"} : Become(c, At(call[c], pc))
    /\ UNCHANGED <<promise, cached>>

(* 30 seconds pass: every timer that is due by then has fired before, and  *)
(* nothing that takes no time is left to do.  A token past expiresAt is as *)
(* good as none.                                                           *)
MayTakeLonger(r) ==
    \/ r.pc \in {"idle", "reading", "waiting", "receiving", "snap", "ok", "failed"}
    \/ r.pc \in {"fetching", "sending", "sleeping"} /\ r.age < HeaderTimeout
Less(n) == IF n = 0 THEN 0 ELSE n - 1
Tick ==
    /\ \A c \in Clients : MayTakeLonger(call[c])
    /\ call' = [c \in Clients |->
          [call[c] EXCEPT
              !.age = IF call[c].pc \in {"fetching", "reading", "sending", "sleeping"}
                      THEN HeaderTimeout ELSE 0,
              !.life = Less(call[c].life)]]
    /\ cached' = IF cached.left > 1
                 THEN [cached EXCEPT !.left = @ - 1, !.life = Less(@)]
                 ELSE NoToken
    /\ UNCHANGED promise

(* What the process does of itself, by its timers if by nothing else; and  *)
(* what it does when the body of an answer ends, for which it has none.    *)
Proceed(c) ==
    \/ getAccessToken(c) \/ TokenHeaders(c) \/ TokenTimesOut(c)
    \/ Headers(c) \/ NoAnswer(c) \/ Wake(c)
BodyEnds(c) ==
    \/ TokenRead(c) \/ TokenFails(c)
    \/ Success(c) \/ ErrorStatus(c) \/ BrokenBody(c)
BankStep(c) == BankIssues(c) \/ BankReceives(c)

-----------------------------------------------------------------------------

GatewayTypeOK ==
    /\ call \in [Clients -> Calls]
    /\ promise \in Clients \cup {NoClient}
    /\ cached \in CachedTokens

(* A token the bank's answer delivered at once, with its lifetime, is in   *)
(* date when the bank receives it, whichever call uses it and whenever:    *)
(* the refresh buffer covers the flight of the token and the flight of the *)
(* inquiry, which is all it covers.                                        *)
BearerInDate ==
    \A c \in Clients : call[c].reply = "expired" => ~ call[c].timely

(* Calls share one acquisition: at most one asks the bank for a token, and *)
(* while calls wait there is one that does.                                *)
OneTokenFetch ==
    \A c \in Clients :
        /\ call[c].pc \in {"fetching", "reading"} => promise = c
        /\ call[c].pc = "waiting" =>
              promise # NoClient /\ call[promise].pc \in {"fetching", "reading"}

(* A checkout that succeeds has an inquiry at the bank, the one of its     *)
(* last attempt.  Any other inquiry of the order, the only kind a checkout *)
(* that failed can leave open and payable, is of an attempt that ended     *)
(* without the bank's word.                                                *)
InquiryIsAccounted ==
    \A c \in Clients :
        /\ call[c].pc = "ok" /\ call[c].attempt > 0 =>
              call[c].attempt \in call[c].opened
        /\ Answered(c) =>
              call[c].opened \subseteq
                 call[c].unsure \cup (IF call[c].pc = "ok" THEN {call[c].attempt} ELSE {})
=============================================================================
