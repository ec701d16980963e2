---------------------------- MODULE ProcessProofs ----------------------------
(***************************************************************************)
(* Theorems of Process and of the gateway's calls it composes, for any     *)
(* number of clients, attempts and lifetimes of tokens.                    *)
(***************************************************************************)
EXTENDS Process, TLAPS

(* A call of the gateway, on its own.  How many attempts it has made, and   *)
(* what is left of the token it waits for or bears:                        *)
Timed(r) ==
    /\ r.pc \in {"token", "fetching", "reading", "waiting", "sending", "receiving",
                  "sleeping"} =>
          r.attempt \in Attempts
    /\ r.pc = "sleeping" => r.attempt < MaxRetries
    /\ r.pc = "snap" => r.attempt = 0
    /\ r.pc \notin {"sending", "receiving"} => r.reply = "none"
    /\ r.pc = "fetching" /\ r.ttl # 0 =>
          r.ttl \in TtlTicks /\ (r.age = 0 => r.life = r.ttl) /\ r.life + 1 >= r.ttl
    /\ r.pc = "reading" /\ r.ttl # 0 =>
          r.ttl \in TtlTicks /\ (r.age = 0 => r.life + 1 >= r.ttl)
    /\ r.pc = "sending" /\ r.timely /\ r.reply = "none" => r.life + r.age >= RefreshBuffer
    /\ r.reply = "expired" => ~ r.timely

(* and which inquiries it knows to be open, or may have left open.         *)
Accounted(r) ==
    /\ r.opened \subseteq
          r.unsure \cup (IF r.pc = "ok" \/ r.reply \in {"ok", "error"}
                         THEN {r.attempt} ELSE {})
    /\ r.pc = "ok" => r.attempt = 0 \/ r.attempt \in r.opened
    /\ r.reply = "ok" => r.attempt \in r.opened

Sound(r) == r \in Calls /\ Timed(r) /\ Accounted(r)

Fetching(c) == call[c].pc \in {"fetching", "reading"}

GInv ==
    /\ \A c \in Clients : Sound(call[c])
    /\ promise \in Clients \cup {NoClient}
    /\ cached \in CachedTokens
    /\ cached.timely /\ cached.left > 0 => cached.life + 1 >= cached.left
    /\ call = [c \in Clients |-> call[c]]
    /\ \A c \in Clients : Fetching(c) => promise = c
    /\ promise # NoClient => Fetching(promise)
    /\ \A c \in Clients : call[c].pc = "waiting" => promise # NoClient

(* A connection needs the server, and the server all that it serves with.  *)
PInv ==
    /\ wired \in 0 .. Len(BootOrder)
    /\ phase \in Phases /\ db \in BOOLEAN /\ stopTimer \in BOOLEAN
    /\ exit \in {NoExit, 0, 1, Killed}
    /\ open \subseteq Clients /\ cut \subseteq Clients
    /\ open # {} => phase \in {"listening", "draining"}
    /\ phase \notin {"loading", "exited"} => AllWired
    /\ phase \in {"probing", "listening", "deaf", "draining", "disconnecting"} => db
    /\ exit = 0 => cut = {}
    /\ stopTimer => phase \in {"draining", "disconnecting"}

IInv == GInv /\ PInv

-----------------------------------------------------------------------------
(* One call.                                                                *)

LEMMA Ages == 0 \in 0 .. HeaderTimeout /\ HeaderTimeout \in 0 .. HeaderTimeout
  BY DEF HeaderTimeout

LEMMA FirstAttempt == 0 \in 0 .. MaxRetries /\ 1 \in 0 .. MaxRetries /\ 1 \in Attempts
  BY RetriesAssumption DEF Attempts

LEMMA NoCallSound == Sound(NoCall) /\ NoCall.pc = "idle"
  BY RetriesAssumption DEF NoCall, Sound, Calls, Timed, Accounted, Attempts, HeaderTimeout

(* A call leaves what it did, with every inquiry accounted for.            *)
LEMMA AtSound ==
  ASSUME NEW r \in Calls,
         NEW pc \in {"token", "fetching", "waiting", "sleeping", "failed", "snap"},
         r.opened \subseteq r.unsure,
         pc \notin {"failed", "snap"} => r.attempt \in Attempts,
         pc = "sleeping" => r.attempt < MaxRetries,
         pc = "snap" => r.attempt = 0
  PROVE  Sound(At(r, pc)) /\ At(r, pc).pc = pc /\ At(r, pc).attempt = r.attempt
  <1> DEFINE q == At(r, pc)
  <1>1. /\ q \in Calls
        /\ q.pc = pc /\ q.attempt = r.attempt /\ q.age = 0 /\ q.ttl = 0 /\ q.life = 0
        /\ q.reply = "none" /\ q.opened = r.opened /\ q.unsure = r.unsure
    BY Ages DEF At, Calls
  <1> HIDE DEF q
  <1>2. Timed(q)
    BY <1>1 DEF Timed
  <1>3. Accounted(q)
    BY <1>1 DEF Accounted
  <1> QED
    BY <1>1, <1>2, <1>3 DEF Sound, q

LEMMA AfterFailureSound ==
  ASSUME NEW r \in Calls, r.opened \subseteq r.unsure, r.attempt \in Attempts
  PROVE  /\ Sound(AfterFailure(r))
         /\ AfterFailure(r).pc \in {"sleeping", "failed"}
  <1>1. CASE ShouldRetry(r)
    <2>1. r.attempt < MaxRetries
      BY <1>1 DEF ShouldRetry
    <2>2. AfterFailure(r) = At(r, "sleeping")
      BY <1>1 DEF AfterFailure
    <2> QED
      BY <2>1, <2>2, AtSound
  <1>2. CASE ~ ShouldRetry(r)
    <2>1. AfterFailure(r) = At(r, "failed")
      BY <1>2 DEF AfterFailure
    <2> QED
      BY <2>1, AtSound
  <1> QED
    BY <1>1, <1>2

(* The token it sends is in date, and stays so while the headers may take. *)
LEMMA SendSound ==
  ASSUME NEW r \in Calls, r.opened \subseteq r.unsure, r.attempt \in Attempts,
         NEW token \in CachedTokens, token.timely => token.life >= RefreshBuffer
  PROVE  Sound(Send(r, token)) /\ Send(r, token).pc = "sending"
  <1> DEFINE q == Send(r, token)
  <1>1. /\ q \in Calls
        /\ q.pc = "sending" /\ q.attempt = r.attempt /\ q.age = 0 /\ q.life = token.life
        /\ q.timely = token.timely
        /\ q.reply = "none" /\ q.opened = r.opened /\ q.unsure = r.unsure
    BY Ages DEF Send, At, Calls, CachedTokens
  <1>2. token.life \in Nat
    BY DEF CachedTokens
  <1> HIDE DEF q
  <1>3. Timed(q)
    BY <1>1, <1>2, TicksAssumption DEF Timed
  <1>4. Accounted(q)
    BY <1>1 DEF Accounted
  <1> QED
    BY <1>1, <1>3, <1>4 DEF Sound, q

(* Its fields may be changed without a word of the bank.                    *)
LEMMA Trying ==
  ASSUME NEW r, Sound(r), r.pc \in {"token", "fetching", "reading", "waiting", "sleeping"}
  PROVE  r \in Calls /\ r.opened \subseteq r.unsure /\ r.attempt \in Attempts
  BY DEF Sound, Timed, Accounted

-----------------------------------------------------------------------------
(* One call changes, of a client that neither fetches nor waits then.      *)
LEMMA OneCall ==
  ASSUME GInv, NEW c \in Clients, NEW r, Sound(r), call' = [call EXCEPT ![c] = r],
         UNCHANGED <<promise, cached>>,
         (r.pc \in {"fetching", "reading"}) <=> Fetching(c),
         r.pc = "waiting" => promise # NoClient
  PROVE  GInv'
  <1>1. call'[c] = r /\ \A b \in Clients \ {c} : call'[b] = call[b]
    BY DEF GInv
  <1>2. \A b \in Clients : Fetching(b)' <=> Fetching(b)
    BY <1>1 DEF Fetching
  <1>3. \A b \in Clients : Sound(call'[b])
    BY <1>1 DEF GInv
  <1>4. promise # NoClient => Fetching(promise)'
    BY <1>2 DEF GInv
  <1>5. call' = [b \in Clients |-> call'[b]]
    BY DEF GInv
  <1>6. \A b \in Clients : call'[b].pc = "waiting" => promise # NoClient
    BY <1>1 DEF GInv
  <1> QED
    BY <1>2, <1>3, <1>4, <1>5, <1>6 DEF GInv

LEMMA CheckoutInv ==
  ASSUME GInv, NEW c \in Clients, NEW g, createCheckout(c, g) PROVE GInv'
  <1>1. NoCall \in Calls /\ NoCall.opened = {} /\ NoCall.unsure = {} /\ NoCall.attempt = 0
    BY NoCallSound DEF Sound, NoCall
  <1>2. call[c].pc = "idle" /\ UNCHANGED <<promise, cached>> /\ ~ Fetching(c)
    BY DEF createCheckout, Fetching
  <1>3. CASE g = "megabank"
    <2> DEFINE r == [NoCall EXCEPT !.pc = "token", !.attempt = 1]
    <2>1. /\ r \in Calls /\ r.pc = "token" /\ r.attempt = 1 /\ r.reply = "none"
          /\ r.opened = {} /\ r.unsure = {}
      BY Ages, FirstAttempt DEF NoCall, Calls
    <2>2. call' = [call EXCEPT ![c] = r]
      BY <1>3 DEF createCheckout, Become
    <2> HIDE DEF r
    <2>3. Sound(r)
      BY <2>1, FirstAttempt DEF Sound, Timed, Accounted
    <2> QED
      BY <1>2, <2>1, <2>2, <2>3, OneCall
  <1>4. CASE g # "megabank"
    <2> DEFINE r == [NoCall EXCEPT !.pc = "snap"]
    <2>1. /\ r \in Calls /\ r.pc = "snap" /\ r.attempt = 0 /\ r.reply = "none"
          /\ r.opened = {} /\ r.unsure = {}
      BY Ages, FirstAttempt DEF NoCall, Calls
    <2>2. call' = [call EXCEPT ![c] = r]
      BY <1>4 DEF createCheckout, Become
    <2> HIDE DEF r
    <2>3. Sound(r)
      BY <2>1, FirstAttempt DEF Sound, Timed, Accounted
    <2> QED
      BY <1>2, <2>1, <2>2, <2>3, OneCall
  <1> QED
    BY <1>3, <1>4

LEMMA GetAccessTokenInv == ASSUME GInv, NEW c \in Clients, getAccessToken(c) PROVE GInv'
  <1>1. call[c].pc = "token" /\ cached' = cached /\ ~ Fetching(c)
    BY DEF getAccessToken, Fetching
  <1>2. call[c] \in Calls /\ call[c].opened \subseteq call[c].unsure /\ call[c].attempt \in Attempts
    BY <1>1, Trying DEF GInv
  <1>3. CASE FreshEnough
    <2>1. cached \in CachedTokens /\ cached.left \in Nat /\ cached.life \in Nat
      BY DEF GInv, CachedTokens
    <2>2. cached.timely => cached.life >= RefreshBuffer
      BY <1>3, <2>1, TicksAssumption DEF FreshEnough, GInv
    <2>3. Sound(Send(call[c], cached)) /\ Send(call[c], cached).pc = "sending"
      BY <1>2, <2>1, <2>2, SendSound
    <2>4. call' = [call EXCEPT ![c] = Send(call[c], cached)] /\ promise' = promise
      BY <1>3 DEF getAccessToken, Become
    <2> QED
      BY <1>1, <2>3, <2>4, OneCall
  <1>4. CASE ~ FreshEnough /\ promise # NoClient
    <2>1. Sound(At(call[c], "waiting")) /\ At(call[c], "waiting").pc = "waiting"
      BY <1>2, AtSound
    <2>2. call' = [call EXCEPT ![c] = At(call[c], "waiting")] /\ promise' = promise
      BY <1>4 DEF getAccessToken, FetchOrWait, Become
    <2> QED
      BY <1>1, <1>4, <2>1, <2>2, OneCall
  <1>5. CASE ~ FreshEnough /\ promise = NoClient
    <2> DEFINE r == At(call[c], "fetching")
    <2>1. Sound(r) /\ r.pc = "fetching"
      BY <1>2, AtSound
    <2>2. call' = [call EXCEPT ![c] = r] /\ promise' = c
      BY <1>5 DEF getAccessToken, FetchOrWait, Become
    <2> HIDE DEF r
    <2>3. call'[c] = r /\ \A b \in Clients \ {c} : call'[b] = call[b]
      BY <2>2 DEF GInv
    <2>4. \A b \in Clients : Sound(call'[b])
      BY <2>1, <2>3 DEF GInv
    <2>5. Fetching(c)' /\ \A b \in Clients \ {c} : ~ Fetching(b)'
      BY <1>5, <2>1, <2>3, NoClientAssumption DEF GInv, Fetching
    <2>6. call' = [b \in Clients |-> call'[b]]
      BY <2>2 DEF GInv
    <2>7. Fetching(promise)'
      BY <2>2, <2>5 DEF Fetching
    <2> QED
      BY <1>1, <2>2, <2>4, <2>5, <2>6, <2>7, NoClientAssumption DEF GInv
  <1> QED
    BY <1>3, <1>4, <1>5

LEMMA BankIssuesInv == ASSUME GInv, NEW c \in Clients, BankIssues(c) PROVE GInv'
  <1>1. PICK t \in TtlTicks : call' = [call EXCEPT ![c] = [call[c] EXCEPT !.ttl = t, !.life = t]]
    BY DEF BankIssues, Become
  <1> DEFINE r == [call[c] EXCEPT !.ttl = t, !.life = t]
  <1>2. call[c].pc = "fetching" /\ Sound(call[c]) /\ UNCHANGED <<promise, cached>>
    BY DEF BankIssues, GInv
  <1>3. t \in Nat
    BY TicksAssumption
  <1>4. /\ r \in Calls /\ r.pc = "fetching" /\ r.ttl = t /\ r.life = t
        /\ r.attempt = call[c].attempt /\ r.reply = call[c].reply
        /\ r.opened = call[c].opened /\ r.unsure = call[c].unsure
    BY <1>2, <1>3 DEF Sound, Calls
  <1>5. call' = [call EXCEPT ![c] = r]
    BY <1>1
  <1> HIDE DEF r
  <1>6. Sound(r)
    BY <1>2, <1>3, <1>4 DEF Sound, Timed, Accounted
  <1> QED
    BY <1>2, <1>4, <1>5, <1>6, OneCall DEF Fetching

LEMMA TokenHeadersInv == ASSUME GInv, NEW c \in Clients, TokenHeaders(c) PROVE GInv'
  <1> DEFINE r == [call[c] EXCEPT !.pc = "reading", !.age = 0]
  <1>1. /\ call[c].pc = "fetching" /\ Sound(call[c])
        /\ UNCHANGED <<promise, cached>>
        /\ call' = [call EXCEPT ![c] = r]
    BY DEF TokenHeaders, GInv, Become
  <1>2. /\ r \in Calls /\ r.pc = "reading" /\ r.ttl = call[c].ttl /\ r.life = call[c].life
        /\ r.attempt = call[c].attempt /\ r.reply = call[c].reply
        /\ r.opened = call[c].opened /\ r.unsure = call[c].unsure
    BY <1>1, Ages DEF Sound, Calls
  <1> HIDE DEF r
  <1>3. Sound(r)
    BY <1>1, <1>2 DEF Sound, Timed, Accounted
  <1> QED
    BY <1>1, <1>2, <1>3, OneCall DEF Fetching

(* The promise settles: those it serves are the one that fetched and those *)
(* that wait, so that nobody waits any more.                                *)
LEMMA Settled ==
  ASSUME GInv, NEW c \in Clients, Fetching(c), promise' = NoClient, NEW token, cached' = token,
         token \in CachedTokens, token.timely /\ token.left > 0 => token.life + 1 >= token.left,
         call' = [b \in Clients |-> call'[b]],
         \A b \in Clients \ ServedBy(c) : call'[b] = call[b],
         \A b \in ServedBy(c) :
            Sound(call'[b]) /\ call'[b].pc \in {"sending", "sleeping", "failed"}
  PROVE  GInv'
  <1>1. promise = c /\ \A b \in Clients \ {c} : ~ Fetching(b)
    BY DEF GInv
  <1>2. ServedBy(c) \subseteq Clients
    BY DEF ServedBy
  <1>3. \A b \in Clients : Sound(call'[b])
    BY DEF GInv
  <1>4. \A b \in Clients : call'[b].pc \notin {"fetching", "reading", "waiting"}
    BY <1>1, <1>2 DEF ServedBy, Fetching
  <1> QED
    BY <1>3, <1>4 DEF GInv, Fetching

LEMMA Served ==
  ASSUME GInv, NEW c \in Clients, Fetching(c), NEW b \in ServedBy(c)
  PROVE  call[b] \in Calls /\ call[b].opened \subseteq call[b].unsure /\ call[b].attempt \in Attempts
  <1>1. b \in Clients /\ call[b].pc \in {"fetching", "reading", "waiting"}
    BY DEF ServedBy, Fetching
  <1> QED
    BY <1>1, Trying DEF GInv

LEMMA TokenReadInv == ASSUME GInv, NEW c \in Clients, TokenRead(c) PROVE GInv'
  <1>1. PICK named \in BOOLEAN :
          LET token == [left |-> IF named THEN call[c].ttl ELSE DefaultTtl,
                        life |-> call[c].life,
                        timely |-> named /\ call[c].age = 0] IN
          /\ call[c].pc = "reading" /\ call[c].ttl # 0
          /\ cached' = token
          /\ promise' = NoClient
          /\ call' = [b \in Clients |->
                IF b \in ServedBy(c) THEN Send(call[b], token) ELSE call[b]]
    BY DEF TokenRead
  <1> DEFINE token == [left |-> IF named THEN call[c].ttl ELSE DefaultTtl,
                       life |-> call[c].life,
                       timely |-> named /\ call[c].age = 0]
  <1>2. Sound(call[c]) /\ call[c].pc = "reading" /\ call[c].ttl # 0 /\ Fetching(c)
    BY <1>1 DEF GInv, Fetching
  <1>3. call[c].ttl \in TtlTicks /\ call[c].ttl \in Nat /\ call[c].life \in Nat
        /\ call[c].ttl > RefreshBuffer
        /\ (call[c].age = 0 => call[c].life + 1 >= call[c].ttl)
    BY <1>2, TicksAssumption DEF Sound, Timed, Calls
  <1>4. token \in CachedTokens /\ token.life = call[c].life
        /\ (token.timely => token.left = call[c].ttl /\ call[c].age = 0)
    BY <1>3, TicksAssumption DEF CachedTokens
  <1>5. /\ cached' = token /\ promise' = NoClient
        /\ call' = [b \in Clients |-> IF b \in ServedBy(c) THEN Send(call[b], token) ELSE call[b]]
    BY <1>1
  <1> HIDE DEF token
  <1>6. /\ token.timely => token.life + 1 >= token.left
        /\ token.timely => token.life >= RefreshBuffer
    BY <1>3, <1>4, TicksAssumption
  <1>7. \A b \in ServedBy(c) : b \in Clients
    BY DEF ServedBy
  <1>8. \A b \in ServedBy(c) :
            Sound(call'[b]) /\ call'[b].pc \in {"sending", "sleeping", "failed"}
    BY <1>2, <1>4, <1>5, <1>6, <1>7, Served, SendSound
  <1>9. call' = [b \in Clients |-> call'[b]] /\ \A b \in Clients \ ServedBy(c) : call'[b] = call[b]
    BY <1>5
  <1> QED
    BY <1>2, <1>4, <1>5, <1>6, <1>8, <1>9, Settled

LEMMA TokenFailsInv ==
  ASSUME GInv, NEW c \in Clients, TokenTimesOut(c) \/ TokenFails(c) PROVE GInv'
  <1>1. Fetching(c) /\ promise' = NoClient /\ cached' = cached
        /\ call' = [b \in Clients |-> IF b \in ServedBy(c) THEN AfterFailure(call[b]) ELSE call[b]]
    BY DEF TokenTimesOut, TokenFails, AcquisitionFails, Fetching
  <1>2. \A b \in ServedBy(c) : b \in Clients
    BY DEF ServedBy
  <1>4. \A b \in ServedBy(c) :
            Sound(call'[b]) /\ call'[b].pc \in {"sending", "sleeping", "failed"}
    BY <1>1, <1>2, Served, AfterFailureSound
  <1>5. call' = [b \in Clients |-> call'[b]] /\ \A b \in Clients \ ServedBy(c) : call'[b] = call[b]
    BY <1>1
  <1>3. cached \in CachedTokens /\ (cached.timely /\ cached.left > 0 => cached.life + 1 >= cached.left)
    BY DEF GInv
  <1> QED
    BY <1>1, <1>3, <1>4, <1>5, Settled

(* The bank's word, or none.                                                *)
LEMMA BankReceivesInv == ASSUME GInv, NEW c \in Clients, BankReceives(c) PROVE GInv'
  <1>1. call[c].pc = "sending" /\ call[c].reply = "none" /\ UNCHANGED <<promise, cached>>
        /\ Sound(call[c])
    BY DEF BankReceives, GInv
  <1>2. /\ call[c] \in Calls /\ call[c].attempt \in Attempts /\ call[c].opened \subseteq call[c].unsure
        /\ (call[c].timely => call[c].life + call[c].age >= RefreshBuffer)
        /\ call[c].life \in Nat /\ call[c].age \in 0 .. 1
    BY <1>1 DEF Sound, Timed, Accounted, Calls, HeaderTimeout
  <1>3. CASE call[c].life = 0
    <2> DEFINE r == [call[c] EXCEPT !.reply = "expired"]
    <2>1. call' = [call EXCEPT ![c] = r]
      BY <1>3 DEF BankReceives, Become
    <2>2. /\ r \in Calls /\ r.pc = "sending" /\ r.reply = "expired" /\ r.timely = call[c].timely
          /\ r.attempt = call[c].attempt /\ r.opened = call[c].opened /\ r.unsure = call[c].unsure
      BY <1>1, <1>2 DEF Calls
    <2> HIDE DEF r
    <2>3. ~ call[c].timely
      BY <1>2, <1>3, TicksAssumption DEF HeaderTimeout
    <2>4. Sound(r)
      BY <1>2, <2>2, <2>3 DEF Sound, Timed, Accounted
    <2> QED
      BY <1>1, <2>1, <2>2, <2>4, OneCall DEF Fetching
  <1>4. CASE call[c].life # 0
    <2>1. PICK reply \in {"ok", "refused", "error"}, opens \in BOOLEAN :
             /\ reply = "ok" => opens
             /\ reply = "refused" => ~ opens
             /\ call' = [call EXCEPT ![c] =
                   [call[c] EXCEPT !.reply = reply, !.life = 0,
                       !.opened = call[c].opened \cup
                          (IF opens THEN {call[c].attempt} ELSE {})]]
      BY <1>4 DEF BankReceives, Become
    <2>2. PICK opened \in SUBSET Attempts :
             opened = call[c].opened \cup (IF opens THEN {call[c].attempt} ELSE {})
      BY <1>2 DEF Calls
    <2> DEFINE r == [call[c] EXCEPT !.reply = reply, !.life = 0, !.opened = opened]
    <2>3. call' = [call EXCEPT ![c] = r]
      BY <2>1, <2>2
    <2>4. /\ r \in Calls /\ r.pc = "sending" /\ r.reply = reply
          /\ r.attempt = call[c].attempt /\ r.opened = opened /\ r.unsure = call[c].unsure
      BY <1>1, <1>2 DEF Calls
    <2> HIDE DEF r
    <2>5. Timed(r)
      BY <1>2, <2>4 DEF Timed
    <2>6. Accounted(r)
      BY <1>2, <2>1, <2>2, <2>4 DEF Accounted
    <2> QED
      BY <1>1, <2>3, <2>4, <2>5, <2>6, OneCall DEF Fetching, Sound
  <1> QED
    BY <1>3, <1>4

LEMMA HeadersInv == ASSUME GInv, NEW c \in Clients, Headers(c) PROVE GInv'
  <1> DEFINE r == [call[c] EXCEPT !.pc = "receiving", !.age = 0]
  <1>1. /\ call[c].pc = "sending" /\ Sound(call[c])
        /\ UNCHANGED <<promise, cached>>
        /\ call' = [call EXCEPT ![c] = r]
    BY DEF Headers, GInv, Become
  <1>2. /\ r \in Calls /\ r.pc = "receiving" /\ r.timely = call[c].timely
        /\ r.attempt = call[c].attempt /\ r.reply = call[c].reply
        /\ r.opened = call[c].opened /\ r.unsure = call[c].unsure
    BY <1>1, Ages DEF Sound, Calls
  <1> HIDE DEF r
  <1>3. Sound(r)
    BY <1>1, <1>2 DEF Sound, Timed, Accounted
  <1> QED
    BY <1>1, <1>2, <1>3, OneCall DEF Fetching

LEMMA SuccessInv == ASSUME GInv, NEW c \in Clients, Success(c) PROVE GInv'
  <1> DEFINE r == At(call[c], "ok")
  <1>1. /\ call[c].pc = "receiving" /\ call[c].reply = "ok" /\ Sound(call[c])
        /\ UNCHANGED <<promise, cached>>
        /\ call' = [call EXCEPT ![c] = r]
    BY DEF Success, ResponseOk, GInv, Become
  <1>2. /\ r \in Calls /\ r.pc = "ok" /\ r.attempt = call[c].attempt /\ r.reply = "none"
        /\ r.opened = call[c].opened /\ r.unsure = call[c].unsure
    BY <1>1, Ages DEF At, Sound, Calls
  <1> HIDE DEF r
  <1>3. Sound(r)
    BY <1>1, <1>2 DEF Sound, Timed, Accounted
  <1> QED
    BY <1>1, <1>2, <1>3, OneCall DEF Fetching

(* An attempt that failed: its inquiry is one the bank gave no word of.    *)
LEMMA Failed ==
  ASSUME NEW r, Sound(r), r.pc \in {"sending", "receiving"}, NEW q,
         q = AfterFailure(r) \/ q = AfterFailure([r EXCEPT !.reply = "none"]),
         NEW s, s = [q EXCEPT !.unsure = r.unsure \cup {r.attempt}]
  PROVE  Sound(s) /\ s.pc \in {"sleeping", "failed"}
  <1>1. r \in Calls /\ r.attempt \in Attempts /\ r.opened \subseteq r.unsure \cup {r.attempt}
    BY DEF Sound, Timed, Accounted
  <1>2. /\ q \in Calls /\ q.pc \in {"sleeping", "failed"} /\ q.attempt = r.attempt /\ q.reply = "none"
        /\ q.opened = r.opened /\ (q.pc = "sleeping" => r.attempt < MaxRetries)
    <2> DEFINE p == [r EXCEPT !.reply = "none"]
    <2>1. p \in Calls /\ p.attempt = r.attempt /\ p.opened = r.opened
      BY <1>1 DEF Calls
    <2> HIDE DEF p
    <2>2. PICK o \in Calls : /\ q = AfterFailure(o) /\ o.attempt = r.attempt /\ o.opened = r.opened
      <3>1. CASE q = AfterFailure(r)
        BY <1>1, <3>1
      <3>2. CASE q = AfterFailure(p)
        BY <2>1, <3>2
      <3> QED
        BY <3>1, <3>2 DEF p
    <2>3. PICK pc \in {"sleeping", "failed"} :
             q = At(o, pc) /\ (pc = "sleeping" => o.attempt < MaxRetries)
      BY <2>2 DEF AfterFailure, ShouldRetry
    <2>4. /\ At(o, pc) \in Calls /\ At(o, pc).pc = pc /\ At(o, pc).reply = "none"
          /\ At(o, pc).attempt = o.attempt /\ At(o, pc).opened = o.opened
      BY Ages DEF At, Calls
    <2> QED
      BY <2>2, <2>3, <2>4
  <1>3. PICK unsure \in SUBSET Attempts : unsure = r.unsure \cup {r.attempt}
    BY <1>1 DEF Calls
  <1>4. s = [q EXCEPT !.unsure = unsure]
    BY <1>3
  <1>5. /\ s \in Calls /\ s.pc = q.pc /\ s.attempt = r.attempt /\ s.reply = "none"
        /\ s.opened = r.opened /\ s.unsure = unsure
    BY <1>2, <1>4 DEF Calls
  <1> QED
    BY <1>1, <1>2, <1>3, <1>5 DEF Sound, Timed, Accounted

LEMMA NoAnswerInv ==
  ASSUME GInv, NEW c \in Clients, NoAnswer(c) \/ BrokenBody(c) PROVE GInv'
  <1> DEFINE s == [AfterFailure([call[c] EXCEPT !.reply = "none"])
                      EXCEPT !.unsure = call[c].unsure \cup {call[c].attempt}]
  <1>1. /\ call[c].pc \in {"sending", "receiving"} /\ Sound(call[c])
        /\ UNCHANGED <<promise, cached>>
        /\ call' = [call EXCEPT ![c] = s]
    BY DEF NoAnswer, BrokenBody, EndsUnsure, GInv, Become
  <1>2. Sound(s) /\ s.pc \in {"sleeping", "failed"}
    BY <1>1, Failed
  <1> HIDE DEF s
  <1> QED
    BY <1>1, <1>2, OneCall DEF Fetching

LEMMA ErrorStatusInv == ASSUME GInv, NEW c \in Clients, ErrorStatus(c) PROVE GInv'
  <1>1. /\ call[c].pc = "receiving" /\ Sound(call[c]) /\ UNCHANGED <<promise, cached>>
        /\ call[c].reply \in {"refused", "expired", "error"}
    BY DEF ErrorStatus, GInv
  <1>2. CASE call[c].reply = "error"
    <2> DEFINE s == [AfterFailure(call[c]) EXCEPT !.unsure = call[c].unsure \cup {call[c].attempt}]
    <2>1. call' = [call EXCEPT ![c] = s]
      BY <1>2 DEF ErrorStatus, Become
    <2>2. Sound(s) /\ s.pc \in {"sleeping", "failed"}
      BY <1>1, Failed
    <2> HIDE DEF s
    <2> QED
      BY <1>1, <2>1, <2>2, OneCall DEF Fetching
  <1>3. CASE call[c].reply \in {"refused", "expired"}
    <2>1. call[c] \in Calls /\ call[c].attempt \in Attempts /\ call[c].opened \subseteq call[c].unsure
      BY <1>1, <1>3 DEF Sound, Timed, Accounted
    <2>2. AfterFailure(call[c]) = At(call[c], "failed")
      BY <1>3 DEF AfterFailure, ShouldRetry
    <2>3. Sound(At(call[c], "failed")) /\ At(call[c], "failed").pc = "failed"
      BY <2>1, AtSound
    <2>4. [At(call[c], "failed") EXCEPT !.unsure = call[c].unsure \cup {}] = At(call[c], "failed")
      BY <2>1 DEF At, Calls
    <2>5. call' = [call EXCEPT ![c] = At(call[c], "failed")]
      BY <1>3, <2>2, <2>4 DEF ErrorStatus, Become
    <2> QED
      BY <1>1, <2>3, <2>5, OneCall DEF Fetching
  <1> QED
    BY <1>1, <1>2, <1>3

LEMMA WakeInv == ASSUME GInv, NEW c \in Clients, Wake(c) PROVE GInv'
  <1>1. call[c].pc = "sleeping" /\ Sound(call[c]) /\ UNCHANGED <<promise, cached>>
    BY DEF Wake, GInv
  <1>2. call[c] \in Calls /\ call[c].opened \subseteq call[c].unsure /\ call[c].attempt \in Attempts
        /\ call[c].attempt < MaxRetries
    BY <1>1, Trying DEF Sound, Timed
  <1>3. PICK n \in Attempts : n = call[c].attempt + 1
    BY <1>2, RetriesAssumption DEF Attempts
  <1> DEFINE r == [At(call[c], "token") EXCEPT !.attempt = n]
  <1>4. call' = [call EXCEPT ![c] = r]
    BY <1>3 DEF Wake, Become
  <1>5. n \in 0 .. MaxRetries
    BY <1>3, RetriesAssumption DEF Attempts
  <1>6. /\ r \in Calls /\ r.pc = "token" /\ r.attempt = n /\ r.reply = "none"
        /\ r.opened = call[c].opened /\ r.unsure = call[c].unsure
    BY <1>2, <1>5, Ages DEF At, Calls
  <1> HIDE DEF r
  <1>7. Sound(r)
    BY <1>2, <1>3, <1>6 DEF Sound, Timed, Accounted
  <1> QED
    BY <1>1, <1>4, <1>6, <1>7, OneCall DEF Fetching

LEMMA SnapAnswersInv == ASSUME GInv, NEW c \in Clients, SnapAnswers(c) PROVE GInv'
  <1>1. /\ call[c].pc = "snap" /\ Sound(call[c]) /\ UNCHANGED <<promise, cached>>
    BY DEF SnapAnswers, GInv
  <1>2. PICK pc \in {"ok", "failed"} : call' = [call EXCEPT ![c] = At(call[c], pc)]
    BY DEF SnapAnswers, Become
  <1> DEFINE r == At(call[c], pc)
  <1>3. /\ r \in Calls /\ r.pc = pc /\ r.attempt = 0 /\ r.reply = "none"
        /\ r.opened = call[c].opened /\ r.unsure = call[c].unsure
    BY <1>1, Ages DEF At, Sound, Calls, Timed
  <1>4. call' = [call EXCEPT ![c] = r]
    BY <1>2
  <1> HIDE DEF r
  <1>5. Sound(r)
    BY <1>1, <1>3 DEF Sound, Timed, Accounted
  <1> QED
    BY <1>1, <1>3, <1>4, <1>5, OneCall DEF Fetching

LEMMA FinishInv ==
  ASSUME GInv, NEW c \in Clients, Finish(c), UNCHANGED <<promise, cached>> PROVE GInv'
  <1>1. ~ Fetching(c) /\ call' = [call EXCEPT ![c] = NoCall]
    BY DEF Finish, Answered, Fetching, Become
  <1> QED
    BY <1>1, NoCallSound, OneCall

(* Half a minute: the token in flight, or borne, is as much older.         *)
LEMMA TickInv == ASSUME GInv, Tick PROVE GInv'
  <1>1. ASSUME NEW n \in Nat
        PROVE  Less(n) \in Nat /\ Less(n) + 1 >= n /\ (n > 0 => Less(n) = n - 1)
    BY DEF Less
  <1>2. ASSUME NEW c \in Clients
        PROVE  Sound(call'[c]) /\ call'[c].pc = call[c].pc
    <2> DEFINE age == IF call[c].pc \in {"fetching", "reading", "sending", "sleeping"}
                      THEN HeaderTimeout ELSE 0
               r == [call[c] EXCEPT !.age = age, !.life = Less(call[c].life)]
    <2>1. call'[c] = r
      BY DEF Tick
    <2>2. Sound(call[c]) /\ MayTakeLonger(call[c])
      BY DEF GInv, Tick
    <2>3. age \in 0 .. HeaderTimeout /\ call[c].life \in Nat /\ call[c].age \in 0 .. HeaderTimeout
      BY <2>2, Ages DEF Sound, Calls
    <2>4. age # 0 <=> call[c].pc \in {"fetching", "reading", "sending", "sleeping"}
      BY DEF HeaderTimeout
    <2> HIDE DEF age
    <2>5. /\ r \in Calls /\ r.pc = call[c].pc /\ r.age = age /\ r.life = Less(call[c].life)
          /\ r.attempt = call[c].attempt /\ r.reply = call[c].reply /\ r.ttl = call[c].ttl
          /\ r.timely = call[c].timely
          /\ r.opened = call[c].opened /\ r.unsure = call[c].unsure
      BY <1>1, <2>2, <2>3 DEF Sound, Calls
    <2> HIDE DEF r
    <2>6. Accounted(r)
      BY <2>2, <2>5 DEF Sound, Accounted
    <2>7. call[c].pc = "fetching" /\ call[c].ttl # 0 =>
             call[c].ttl \in TtlTicks /\ call[c].ttl \in Nat /\ Less(call[c].life) + 1 >= call[c].ttl
      <3> SUFFICES ASSUME call[c].pc = "fetching", call[c].ttl # 0
                   PROVE  call[c].ttl \in TtlTicks /\ call[c].ttl \in Nat
                          /\ Less(call[c].life) + 1 >= call[c].ttl
        OBVIOUS
      <3>1. call[c].age = 0
        BY <2>2, <2>3 DEF MayTakeLonger, HeaderTimeout
      <3>2. call[c].ttl \in TtlTicks /\ call[c].life = call[c].ttl
        BY <2>2, <3>1 DEF Sound, Timed
      <3> QED
        BY <1>1, <2>3, <3>2
    <2>8. call[c].pc = "sending" /\ call[c].timely /\ call[c].reply = "none" =>
             Less(call[c].life) + age >= RefreshBuffer
      <3> SUFFICES ASSUME call[c].pc = "sending", call[c].timely, call[c].reply = "none"
                   PROVE  Less(call[c].life) + age >= RefreshBuffer
        OBVIOUS
      <3>1. call[c].age = 0
        BY <2>2, <2>3 DEF MayTakeLonger, HeaderTimeout
      <3>2. call[c].life >= RefreshBuffer
        BY <2>2, <2>3, <3>1, TicksAssumption DEF Sound, Timed
      <3>3. age = 1
        BY <2>4, <2>3 DEF HeaderTimeout
      <3> QED
        BY <1>1, <2>3, <3>2, <3>3, TicksAssumption
    <2>9. call[c].pc = "reading" /\ call[c].ttl # 0 => call[c].ttl \in TtlTicks
      BY <2>2 DEF Sound, Timed
    <2>10. Timed(r)
      BY <2>2, <2>4, <2>5, <2>7, <2>8, <2>9 DEF Sound, Timed
    <2> QED
      BY <2>1, <2>5, <2>6, <2>10 DEF Sound
  <1>3. /\ cached' \in CachedTokens
        /\ cached'.timely /\ cached'.left > 0 => cached'.life + 1 >= cached'.left
    <2>1. cached.left \in Nat /\ cached.life \in Nat /\ cached \in CachedTokens
      BY DEF GInv, CachedTokens
    <2>2. CASE cached.left > 1
      <3>1. cached' = [cached EXCEPT !.left = cached.left - 1, !.life = Less(cached.life)]
        BY <2>2 DEF Tick, CachedTokens
      <3>2. cached.left - 1 \in Nat /\ Less(cached.life) \in Nat
        BY <1>1, <2>1, <2>2
      <3>3. /\ cached' \in CachedTokens /\ cached'.left = cached.left - 1
            /\ cached'.life = Less(cached.life) /\ cached'.timely = cached.timely
        BY <2>1, <3>1, <3>2 DEF CachedTokens
      <3>4. cached.timely => Less(cached.life) + 1 >= cached.left - 1
        BY <2>1, <2>2 DEF GInv, Less
      <3> QED
        BY <3>3, <3>4
    <2>3. CASE ~ (cached.left > 1)
      <3>1. cached' = NoToken
        BY <2>3 DEF Tick
      <3>2. NoToken \in CachedTokens /\ NoToken.left = 0
        BY DEF NoToken, CachedTokens
      <3> QED
        BY <3>1, <3>2
    <2> QED
      BY <2>2, <2>3
  <1>4. promise' = promise /\ call' = [c \in Clients |-> call'[c]]
    BY DEF Tick
  <1> QED
    BY <1>2, <1>3, <1>4 DEF GInv, Fetching

LEMMA ServeInv ==
  ASSUME GInv, NEW c \in Clients, Proceed(c) \/ BodyEnds(c) \/ BankStep(c) \/ SnapAnswers(c)
  PROVE  GInv'
  BY GetAccessTokenInv, TokenHeadersInv, TokenReadInv, TokenFailsInv, HeadersInv, SuccessInv,
     ErrorStatusInv, NoAnswerInv, WakeInv, BankIssuesInv, BankReceivesInv, SnapAnswersInv
     DEF Proceed, BodyEnds, BankStep

-----------------------------------------------------------------------------
(* The process.                                                             *)

(* What it keeps in memory is gone with it, the calls too.                 *)
LEMMA ExitInv ==
  ASSUME IInv, NEW code \in {0, 1, Killed}, Exit(code), code = 0 => open = {} PROVE IInv'
  <1>1. GInv'
    BY NoCallSound DEF Exit, GInv, Fetching, NoToken, CachedTokens
  <1>2. cut' \subseteq Clients /\ (code = 0 => cut' = {})
    BY DEF Exit, Busy
  <1>3. PInv'
    BY <1>2 DEF Exit, IInv, PInv, wiringVars, Phases, AllWired
  <1> QED
    BY <1>1, <1>3 DEF IInv

LEMMA BootLength == Len(BootOrder) \in Nat
  BY DEF BootOrder

LEMMA StartInv == ASSUME IInv, Start PROVE IInv'
  <1>1. CASE LoadModules
    <2>1. phase = "loading" /\ UNCHANGED <<gatewayVars, lifeVars>>
      BY <1>1 DEF LoadModules
    <2>2. wired' \in 0 .. Len(BootOrder)
      <3>1. \/ wired' = wired
            \/ wired' = wired + 1 /\ wired # Len(BootOrder)
        BY <1>1 DEF LoadModules, Load, Enter, Construct, Wire, AllWired
      <3> QED
        BY <3>1, BootLength DEF IInv, PInv
    <2>3. GInv'
      BY <2>1 DEF IInv, GInv, gatewayVars, Fetching
    <2> QED
      BY <2>1, <2>2, <2>3 DEF IInv, PInv, gatewayVars, lifeVars, Busy
  <1>2. CASE bootstrap
    BY <1>2 DEF bootstrap, IInv, GInv, PInv, gatewayVars, wiringVars, Busy, AllWired, Phases, Fetching
  <1>3. CASE Connect
    BY <1>3 DEF Connect, IInv, GInv, PInv, gatewayVars, wiringVars, Busy, AllWired, Phases, Fetching
  <1>4. CASE Listen
    BY <1>4 DEF Listen, IInv, GInv, PInv, gatewayVars, wiringVars, Busy, AllWired, Phases, Fetching
  <1> QED
    BY <1>1, <1>2, <1>3, <1>4 DEF Start

LEMMA ConnectionInv ==
  ASSUME IInv, NEW c \in Clients, OpenConnection(c) \/ CloseConnection(c) PROVE IInv'
  BY DEF OpenConnection, CloseConnection, IInv, GInv, PInv, gatewayVars, wiringVars, Busy, AllWired, Fetching

(* The calls do not touch the rest of the process.                         *)
LEMMA CallsMove ==
  ASSUME IInv, GInv', UNCHANGED <<wiringVars, lifeVars>> PROVE IInv'
  BY DEF IInv, PInv, wiringVars, lifeVars, AllWired

LEMMA RequestInv == ASSUME IInv, NEW c \in Clients, Request(c) PROVE IInv'
  <1>1. createCheckout(c, gateway) /\ UNCHANGED <<wiringVars, lifeVars>>
    BY DEF Request
  <1> QED
    BY <1>1, CheckoutInv, CallsMove DEF IInv

LEMMA RespondInv == ASSUME IInv, NEW c \in Clients, Respond(c) PROVE IInv'
  <1>1. Finish(c) /\ UNCHANGED <<wiringVars, promise, cached, lifeVars>>
    BY DEF Respond
  <1> QED
    BY <1>1, FinishInv, CallsMove DEF IInv

LEMMA ServingInv ==
  ASSUME IInv, NEW c \in Clients, Proceed(c) \/ BodyEnds(c) \/ BankStep(c) \/ SnapAnswers(c),
         UNCHANGED <<wiringVars, lifeVars>>
  PROVE  IInv'
  BY ServeInv, CallsMove DEF IInv

LEMMA TimeInv == ASSUME IInv, Tick, UNCHANGED <<wiringVars, lifeVars>> PROVE IInv'
  BY TickInv, CallsMove DEF IInv

LEMMA DrainInv == ASSUME IInv, gracefulShutdown \/ CloseServer \/ PortTaken PROVE IInv'
  <1>1. UNCHANGED <<wiringVars, gatewayVars, db, exit, cut>> /\ GInv' /\ (AllWired' <=> AllWired)
    BY DEF gracefulShutdown, CloseServer, PortTaken, IInv, GInv, gatewayVars, wiringVars,
       AllWired, Fetching
  <1>2. CASE gracefulShutdown
    <2>1. open' \subseteq open
      BY <1>2 DEF gracefulShutdown
    <2> QED
      BY <1>1, <1>2, <2>1 DEF gracefulShutdown, IInv, PInv, Phases, wiringVars
  <1>3. CASE CloseServer
    BY <1>1, <1>3 DEF CloseServer, IInv, PInv, Phases, wiringVars
  <1>4. CASE PortTaken
    BY <1>1, <1>4 DEF PortTaken, IInv, PInv, Phases, wiringVars
  <1> QED
    BY <1>2, <1>3, <1>4

LEMMA EndInv == ASSUME IInv, FailToStart \/ RunDry \/ Kill \/ Disconnect \/ ForceExit PROVE IInv'
  <1>1. CASE FailToStart \/ ForceExit
    BY <1>1, ExitInv DEF FailToStart, ForceExit
  <1>2. CASE Kill
    BY <1>2, ExitInv DEF Kill, Killed
  <1>3. CASE RunDry \/ Disconnect
    <2>1. open = {}
      BY <1>3 DEF RunDry, Disconnect, IInv, PInv
    <2> QED
      BY <1>3, <2>1, ExitInv DEF RunDry, Disconnect
  <1> QED
    BY <1>1, <1>2, <1>3

LEMMA NextIInv == IInv /\ [Next]_vars => IInv'
  <1> SUFFICES ASSUME IInv, [Next]_vars PROVE IInv'
    OBVIOUS
  <1>1. CASE UNCHANGED vars
    BY <1>1 DEF vars, wiringVars, gatewayVars, lifeVars, IInv, GInv, PInv, AllWired, Fetching
  <1>2. CASE Outside
    BY <1>2, ServingInv, TimeInv DEF Outside
  <1>3. ASSUME NEW c \in Clients, ClientStep(c) \/ Serve(c) \/ Respond(c) PROVE IInv'
    BY <1>3, ConnectionInv, RequestInv, ServingInv, RespondInv DEF ClientStep, Serve
  <1> QED
    BY <1>1, <1>2, <1>3, StartInv, EndInv, DrainInv DEF Next, Stop

LEMMA InitIInv == Init => IInv
  <1> SUFFICES ASSUME Init PROVE IInv
    OBVIOUS
  <1>1. GInv
    BY NoCallSound DEF Init, GatewayInit, GInv, Fetching, NoToken, CachedTokens
  <1>2. wired \in 0 .. Len(BootOrder)
    BY BootLength DEF Init, WiringInit
  <1> QED
    BY <1>1, <1>2 DEF Init, IInv, PInv, Phases, NoExit

LEMMA Invariance == Spec => []IInv
  BY InitIInv, NextIInv, PTL DEF Spec

-----------------------------------------------------------------------------
(* The composition root.  A component is built from simpler ones: what a    *)
(* constructor takes has a lower rank, so no getter calls itself.           *)
Leaves ==
    Repositories \cup {"megaBankPaymentService", "midtransPaymentService", "mailService",
                       "uploadController"}
Composites ==
    {"webhookProcessorService", "midtransWebhookProcessorService",
     "clientSubscriptionService", "dailyExpiryService", "planService", "bundleService"}
Controllers ==
    DOMAIN SharedControllers \cup DOMAIN ClientControllers \cup DOMAIN SubscriptionControllers
Rank(c) ==
    IF c \in Leaves THEN 0
    ELSE IF c \in Controllers THEN 3 ELSE IF c \in Composites THEN 2 ELSE 1

(* The getters in progress are of rising rank and keep nothing yet, and the *)
(* routers hold what is kept.                                               *)
WInv ==
    /\ kept \subseteq Components /\ stack \in Seq(Components)
    /\ \A i, j \in 1 .. Len(stack) : i < j => Rank(stack[i]) < Rank(stack[j])
    /\ \A i \in 1 .. Len(stack) : stack[i] \notin kept
    /\ rebuilt = {}
    /\ wired \in 0 .. Len(BootOrder)
    /\ \A i \in 1 .. wired : BootOrder[i] \in kept

LEMMA AllComponents ==
  Components = Repositories \cup DOMAIN SharedServices \cup DOMAIN ClientServices
                  \cup DOMAIN SubscriptionServices \cup Controllers
  BY DEF Components, Containers, Controllers

(* Every component of a container takes components of lower rank.           *)
LEMMA Lower ==
  ASSUME NEW g \in Containers, NEW c \in DOMAIN g, NEW d \in g[c]
  PROVE  Rank(Resolved(d)) < Rank(c)
  <1> USE DEF Rank, Leaves, Composites, Controllers, Repositories, SharedRepositories,
              ClientRepositories, SubscriptionRepositories, SharedControllers,
              ClientControllers, SubscriptionControllers, Resolved, paymentGateway
  <1>1. \A b \in DOMAIN SharedServices : \A e \in SharedServices[b] : Rank(Resolved(e)) < Rank(b)
    BY DEF SharedServices
  <1>2. \A b \in DOMAIN ClientServices : \A e \in ClientServices[b] : Rank(Resolved(e)) < Rank(b)
    BY DEF ClientServices
  <1>3. \A b \in DOMAIN SubscriptionServices : \A e \in SubscriptionServices[b] : Rank(Resolved(e)) < Rank(b)
    BY DEF SubscriptionServices
  <1>4. \A b \in DOMAIN SharedControllers : \A e \in SharedControllers[b] : Rank(Resolved(e)) < Rank(b)
    OBVIOUS
  <1>5. \A b \in DOMAIN ClientControllers : \A e \in ClientControllers[b] : Rank(Resolved(e)) < Rank(b)
    OBVIOUS
  <1>6. \A b \in DOMAIN SubscriptionControllers : \A e \in SubscriptionControllers[b] : Rank(Resolved(e)) < Rank(b)
    OBVIOUS
  <1> QED
    BY <1>1, <1>2, <1>3, <1>4, <1>5, <1>6 DEF Containers

LEMMA Known ==
  ASSUME NEW g \in Containers, NEW c \in DOMAIN g, NEW d \in g[c]
  PROVE  Resolved(d) \in Components
  <1> USE AllComponents DEF Controllers, Repositories, SharedRepositories, ClientRepositories,
              SubscriptionRepositories, SharedControllers, ClientControllers,
              SubscriptionControllers, SharedServices, ClientServices, SubscriptionServices,
              Resolved, paymentGateway
  <1>1. \A b \in DOMAIN SharedServices : \A e \in SharedServices[b] : Resolved(e) \in Components
    OBVIOUS
  <1>2. \A b \in DOMAIN ClientServices : \A e \in ClientServices[b] : Resolved(e) \in Components
    OBVIOUS
  <1>3. \A b \in DOMAIN SubscriptionServices : \A e \in SubscriptionServices[b] : Resolved(e) \in Components
    OBVIOUS
  <1>4. \A b \in DOMAIN SharedControllers : \A e \in SharedControllers[b] : Resolved(e) \in Components
    OBVIOUS
  <1>5. \A b \in DOMAIN ClientControllers : \A e \in ClientControllers[b] : Resolved(e) \in Components
    OBVIOUS
  <1>6. \A b \in DOMAIN SubscriptionControllers : \A e \in SubscriptionControllers[b] : Resolved(e) \in Components
    OBVIOUS
  <1> QED
    BY <1>1, <1>2, <1>3, <1>4, <1>5, <1>6 DEF Containers

LEMMA NeedsLower ==
  ASSUME NEW c, NEW d \in Needs(c) PROVE d \in Components /\ Rank(d) < Rank(c)
  <1>1. PICK e \in Takes(c) : d = Resolved(e)
    BY DEF Needs
  <1>2. PICK g \in Containers : c \in DOMAIN g /\ e \in g[c]
    BY DEF Takes
  <1> QED
    BY <1>1, <1>2, Lower, Known

LEMMA BootKnown == \A i \in 1 .. Len(BootOrder) : BootOrder[i] \in Components
  BY AllComponents
     DEF BootOrder, Controllers, SharedControllers, ClientControllers, SubscriptionControllers,
         SharedServices

LEMMA RankType == \A c : Rank(c) \in Nat
  BY DEF Rank

LEMMA EnterWired == ASSUME WInv, Enter PROVE WInv'
  <1> USE DEF WInv
  <1>1. PICK c \in Missing : stack' = <<c>> \o stack
    BY DEF Enter
  <1>2. UNCHANGED <<kept, rebuilt, wired>>
    BY DEF Enter
  <1>3. /\ c \in Components /\ c \notin kept
        /\ stack # <<>> => Rank(c) < Rank(Head(stack))
    <2>1. CASE stack = <<>>
      <3>1. wired + 1 \in 1 .. Len(BootOrder)
        BY BootLength DEF Enter, AllWired
      <3>2. c = BootOrder[wired + 1]
        BY <2>1 DEF Missing, Wanted
      <3> QED
        BY <2>1, <3>1, <3>2, BootKnown DEF Missing
    <2>2. CASE stack # <<>>
      <3>1. c \in Needs(Head(stack)) /\ c \notin kept
        BY <2>2 DEF Missing, Wanted
      <3> QED
        BY <3>1, NeedsLower
    <2> QED
      BY <2>1, <2>2
  <1>4. /\ stack' \in Seq(Components) /\ Len(stack') = Len(stack) + 1 /\ Len(stack) \in Nat
        /\ stack'[1] = c
        /\ \A i \in 1 .. Len(stack) : stack'[i + 1] = stack[i]
    BY <1>1, <1>3
  <1>5. ASSUME NEW i \in 1 .. Len(stack) PROVE Rank(c) < Rank(stack[i])
    <2>1. Head(stack) = stack[1] /\ stack # <<>> /\ 1 \in 1 .. Len(stack)
      BY <1>5
    <2>2. i = 1 \/ Rank(stack[1]) < Rank(stack[i])
      BY <1>5, <2>1
    <2> QED
      BY <1>3, <2>1, <2>2, RankType
  <1>6. ASSUME NEW i \in 1 .. Len(stack'), NEW j \in 1 .. Len(stack'), i < j
        PROVE  Rank(stack'[i]) < Rank(stack'[j])
    <2>1. PICK k \in 1 .. Len(stack) : j = k + 1
      <3>1. j - 1 \in 1 .. Len(stack) /\ j = (j - 1) + 1
        BY <1>4, <1>6
      <3> QED
        BY <3>1
    <2>2. CASE i = 1
      BY <1>4, <1>5, <2>1, <2>2
    <2>3. CASE i # 1
      <3>1. PICK l \in 1 .. Len(stack) : i = l + 1
        <4>1. i - 1 \in 1 .. Len(stack) /\ i = (i - 1) + 1
          BY <1>4, <1>6, <2>3
        <4> QED
          BY <4>1
      <3> QED
        BY <1>4, <1>6, <2>1, <3>1
    <2> QED
      BY <2>2, <2>3
  <1>7. ASSUME NEW i \in 1 .. Len(stack') PROVE stack'[i] \notin kept
    <2>1. CASE i = 1
      BY <1>3, <1>4, <2>1
    <2>2. CASE i # 1
      <3>1. i - 1 \in 1 .. Len(stack) /\ i = (i - 1) + 1
        BY <1>4, <1>7, <2>2
      <3> QED
        BY <1>4, <3>1
    <2> QED
      BY <2>1, <2>2
  <1> QED
    BY <1>2, <1>4, <1>6, <1>7

LEMMA ConstructWired == ASSUME WInv, Construct PROVE WInv'
  <1> USE DEF WInv
  <1>1. /\ stack # <<>> /\ stack' = Tail(stack) /\ UNCHANGED wired
        /\ kept' = kept \cup {Head(stack)}
        /\ rebuilt' = rebuilt \cup ({Head(stack)} \cap kept)
    BY DEF Construct
  <1>2. /\ Head(stack) = stack[1] /\ 1 \in 1 .. Len(stack) /\ Head(stack) \in Components
        /\ stack' \in Seq(Components) /\ Len(stack') = Len(stack) - 1 /\ Len(stack) \in Nat
        /\ \A i \in 1 .. Len(stack') : stack'[i] = stack[i + 1] /\ i + 1 \in 1 .. Len(stack)
    BY <1>1
  <1>3. kept' \subseteq Components /\ rebuilt' = {}
    BY <1>1, <1>2
  <1>4. \A i, j \in 1 .. Len(stack') : i < j => Rank(stack'[i]) < Rank(stack'[j])
    BY <1>2
  <1>5. ASSUME NEW i \in 1 .. Len(stack') PROVE stack'[i] \notin kept'
    <2>1. Rank(stack[1]) < Rank(stack[i + 1])
      BY <1>2, <1>5
    <2>2. stack[1] # stack[i + 1]
      BY <2>1, RankType
    <2> QED
      BY <1>1, <1>2, <2>2
  <1> QED
    BY <1>1, <1>2, <1>3, <1>4, <1>5

LEMMA WireWired == ASSUME WInv, Wire PROVE WInv'
  <1> USE DEF WInv
  <1>1. /\ wired # Len(BootOrder) /\ BootOrder[wired + 1] \in kept /\ wired' = wired + 1
        /\ UNCHANGED <<kept, rebuilt, stack>>
    BY DEF Wire, AllWired
  <1>2. wired' \in 0 .. Len(BootOrder)
    BY <1>1, BootLength
  <1>3. \A i \in 1 .. wired' : i = wired' \/ i \in 1 .. wired
    BY <1>1, BootLength
  <1> QED
    BY <1>1, <1>2, <1>3

LEMMA WiredInvariance == Spec => []WInv
  <1>1. Init => WInv
    BY BootLength DEF Init, WiringInit, WInv
  <1>2. WInv /\ [Next]_vars => WInv'
    <2> SUFFICES ASSUME WInv, [Next]_vars PROVE WInv'
      OBVIOUS
    <2>1. CASE UNCHANGED wiringVars
      BY <2>1 DEF WInv, wiringVars
    <2> QED
      BY <2>1, EnterWired, ConstructWired, WireWired
         DEF Next, vars, Start, LoadModules, Load, bootstrap, Connect, Listen, FailToStart,
             PortTaken, RunDry, Kill, Exit, gracefulShutdown, Stop, CloseServer, Disconnect, ForceExit,
             ClientStep, OpenConnection, CloseConnection, Request, Serve, Respond, Outside
  <1> QED
    BY <1>1, <1>2, PTL DEF Spec

(* The process, its calls and its token keep their types.                  *)
THEOREM TypeCorrect == Spec => []TypeOK
  <1>1. IInv /\ WInv => TypeOK
    BY DEF IInv, GInv, PInv, WInv, Sound, TypeOK, GatewayTypeOK
  <1> QED
    BY <1>1, Invariance, WiredInvariance, PTL

(* No getter is entered again while it runs, whichever gateway is chosen,   *)
(* no component is built twice, and all that the routers ask for is built   *)
(* when the process starts to connect.                                      *)
THEOREM WiredOnce == Spec => []BuiltOnce
  <1>1. IInv /\ WInv => BuiltOnce
    <2> SUFFICES ASSUME IInv, WInv PROVE BuiltOnce
      OBVIOUS
    <2>1. ASSUME NEW i \in DOMAIN stack, NEW j \in DOMAIN stack, stack[i] = stack[j]
          PROVE  i = j
      <3>1. i \in 1 .. Len(stack) /\ j \in 1 .. Len(stack)
        BY DEF WInv
      <3>2. ~ (i < j) /\ ~ (j < i)
        BY <2>1, <3>1, RankType DEF WInv
      <3> QED
        BY <3>1, <3>2
    <2>2. ASSUME phase \notin {"loading", "exited"} PROVE ToSet(BootOrder) \subseteq kept
      <3>1. \A i \in 1 .. Len(BootOrder) : BootOrder[i] \in kept
        BY <2>2 DEF IInv, PInv, WInv, AllWired
      <3>2. DOMAIN BootOrder = 1 .. Len(BootOrder)
        BY DEF BootOrder
      <3> QED
        BY <3>1, <3>2 DEF ToSet
    <2> QED
      BY <2>1, <2>2 DEF BuiltOnce, WInv
  <1> QED
    BY <1>1, Invariance, WiredInvariance, PTL

(* The refresh buffer of two timeouts covers the flight of the token and   *)
(* that of the inquiry that bears it, whatever the bank's lifetimes.       *)
THEOREM InDate == Spec => []BearerInDate
  <1>1. IInv => BearerInDate
    BY DEF IInv, GInv, Sound, Timed, BearerInDate
  <1> QED
    BY <1>1, Invariance, PTL

(* However many calls miss a token, one of them asks the bank for it.      *)
THEOREM OneFetch == Spec => []OneTokenFetch
  <1>1. IInv => OneTokenFetch
    BY NoClientAssumption DEF IInv, GInv, Fetching, OneTokenFetch
  <1> QED
    BY <1>1, Invariance, PTL

(* Whatever the number of attempts, a checkout's own inquiry is the last;  *)
(* any other that may be open had no word of the bank.                      *)
THEOREM EveryInquiry == Spec => []InquiryIsAccounted
  <1>1. IInv => InquiryIsAccounted
    <2> SUFFICES ASSUME IInv, NEW c \in Clients
                 PROVE  /\ call[c].pc = "ok" /\ call[c].attempt > 0 =>
                              call[c].attempt \in call[c].opened
                        /\ Answered(c) =>
                              call[c].opened \subseteq call[c].unsure \cup
                                 (IF call[c].pc = "ok" THEN {call[c].attempt} ELSE {})
      BY DEF InquiryIsAccounted
    <2>1. Timed(call[c]) /\ Accounted(call[c]) /\ call[c].attempt \in Nat
      BY DEF IInv, GInv, Sound, Calls
    <2>2. call[c].pc = "ok" /\ call[c].attempt > 0 => call[c].attempt \in call[c].opened
      BY <2>1 DEF Accounted
    <2>3. Answered(c) => call[c].opened \subseteq call[c].unsure \cup
                                 (IF call[c].pc = "ok" THEN {call[c].attempt} ELSE {})
      BY <2>1 DEF Accounted, Timed, Answered
    <2> QED
      BY <2>2, <2>3
  <1> QED
    BY <1>1, Invariance, PTL

(* A request whose client waits is served by a complete process that is    *)
(* connected, and an exit with 0 leaves no client waiting.                 *)
THEOREM Drains == Spec => []DrainLosesNothing
  <1>1. IInv => DrainLosesNothing
    BY DEF IInv, PInv, DrainLosesNothing, Phases
  <1> QED
    BY <1>1, Invariance, PTL

=============================================================================
