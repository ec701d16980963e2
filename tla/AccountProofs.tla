---------------------------- MODULE AccountProofs ----------------------------
(***************************************************************************)
(* Theorems of Accounts and of the sessions it composes, for any number of *)
(* accounts, links, sessions, tokens and requests at a time.               *)
(***************************************************************************)
EXTENDS Accounts, TLAPS

(* The sessions: every token belongs to the session its login opened.      *)
ExchangeOf(h, s) == exch[h].pc # "idle" /\ exch[h].session = s

SessionsHold ==
    /\ \A t \in Tokens : session[t] = NoToken <=> token[t] = "none"
    /\ \A t \in Tokens : session[t] # NoToken => Opened(session[t])
    /\ \A s \in Tokens : cookie[s] # NoToken => session[cookie[s]] = s
    /\ loggedOut \subseteq {s \in Tokens : Opened(s)}
    /\ \A h \in Handlers :
          /\ exch[h].pc # "idle" =>
                /\ exch[h].old \in Tokens /\ session[exch[h].old] = exch[h].session
                /\ exch[h].session \in Tokens /\ Opened(exch[h].session)
          /\ exch[h].pc = "answering" =>
                exch[h].new \in Tokens /\ session[exch[h].new] = exch[h].session

(* A session whose requests never overlapped: one exchange at a time, and   *)
(* at each of its steps the one token that may be live.                     *)
InTurn(s) ==
    /\ \A g, h \in Handlers : ExchangeOf(g, s) /\ ExchangeOf(h, s) => g = h
    /\ \A h \in Handlers : ExchangeOf(h, s) =>
          /\ exch[h].pc = "revoking" => Live(s) \subseteq {exch[h].old}
          /\ exch[h].pc = "creating" => Live(s) = {}
          /\ exch[h].pc = "answering" => Live(s) \subseteq {exch[h].new}
          /\ s \in loggedOut => s \in unanswered
    /\ \A t, u \in Live(s) : t = u
    /\ s \notin unanswered =>
          /\ (\A h \in Handlers : ~ ExchangeOf(h, s)) => Live(s) \subseteq {cookie[s]}
          /\ s \in loggedOut => cookie[s] = NoToken

SInv == SessionTypeOK /\ SessionsHold /\ \A s \in Tokens \ overlapped : InTurn(s)

(* The requests in progress: what each of them has read stays true.         *)
CallHolds(h) ==
    /\ call[h].op # "none" => call[h].email \in Emails
    /\ call[h].op \in {"register", "reset", "change"} => call[h].password \in Passwords
    /\ call[h].op = "reset" => call[h].link \in Links /\ ~ Fresh(call[h].link)
    /\ call[h].op = "activate" => Registered(call[h].email)

(* A link belongs to one account; a reset that is in progress has its link  *)
(* to itself, and the newest one is its own or has crossed it.              *)
Resetting(h) == call[h].op = "reset"
ResetHolds(h) ==
    Resetting(h) =>
        /\ newest[call[h].email] \in {NoLink, call[h].link} \cup crossed
        /\ call[h].link \notin crossed => spent[call[h].link] = 0
        /\ \A e \in Emails : reset[e] = call[h].link => e = call[h].email

ResetsHold ==
    /\ \A h \in Handlers : ResetHolds(h)
    /\ \A g, h \in Handlers : Resetting(g) /\ Resetting(h) /\ g # h =>
          /\ call[g].link = call[h].link => call[g].email = call[h].email
          /\ call[g].email = call[h].email => call[g].link \in crossed /\ call[h].link \in crossed
    /\ \A e \in Emails : reset[e] # NoLink => ~ Fresh(reset[e])
    /\ \A e, f \in Emails : reset[e] # NoLink /\ reset[e] = reset[f] => e = f
    /\ \A l \in Links : spent[l] # 0 => ~ Fresh(l) /\ \A e \in Emails : reset[e] # l
    /\ \A l \in Links \ crossed : spent[l] <= 1
    /\ \A e \in Emails : newest[e] # NoLink /\ newest[e] \notin crossed => reset[e] = newest[e]

ActivationsHold == \A e \in Emails : user[e] = "inactive" => activation[e] # NoLink

AInv ==
    /\ TypeOK
    /\ \A h \in Handlers : CallHolds(h)
    /\ ResetsHold
    /\ RegisteredOnce
    /\ ActivationsHold

IInv == SInv /\ AInv

-----------------------------------------------------------------------------
(* Sessions.                                                                *)

LEMMA NoExchangeType == NoExchange \in Exchanges
  BY DEF NoExchange, Exchanges

(* A new token is one more live token of its session, and of no other.     *)
LEMMA NewToken ==
  ASSUME SInv, NEW t \in Tokens, NEW s \in Tokens, GenerateTokens(t, s),
         s = t \/ Opened(s)
  PROVE  /\ token' \in [Tokens -> {"none", "live", "expired", "revoked"}]
         /\ session' \in [Tokens -> Tokens \cup {NoToken}]
         /\ session[t] = NoToken /\ session'[t] = s
         /\ \A u \in Tokens \ {t} : session'[u] = session[u]
         /\ \A u \in Tokens : session'[u] = NoToken <=> token'[u] = "none"
         /\ \A u \in Tokens : session'[u] # NoToken => Opened(session[u])'
         /\ \A u \in Tokens : Opened(u) => Opened(u)'
         /\ Live(s)' = Live(s) \cup {t}
         /\ \A u \in Tokens \ {s} : Live(u)' = Live(u)
  <1> USE NoTokenAssumption
  <1>1. /\ token \in [Tokens -> {"none", "live", "expired", "revoked"}]
        /\ session \in [Tokens -> Tokens \cup {NoToken}]
        /\ \A u \in Tokens : session[u] = NoToken <=> token[u] = "none"
        /\ \A u \in Tokens : session[u] # NoToken => Opened(session[u])
    BY DEF SInv, SessionTypeOK, SessionsHold
  <1>2. /\ token[t] = "none"
        /\ token' = [token EXCEPT ![t] = "live"]
        /\ session' = [session EXCEPT ![t] = s]
    BY DEF GenerateTokens
  <1>3. session[t] = NoToken /\ session'[t] = s /\ token'[t] = "live"
        /\ \A u \in Tokens \ {t} : session'[u] = session[u] /\ token'[u] = token[u]
    BY <1>1, <1>2
  <1>4. \A u \in Tokens : Opened(u) => Opened(u)'
    BY <1>3 DEF Opened, Of
  <1>5. Opened(s)'
    BY <1>3, <1>4 DEF Opened, Of
  <1>6. ASSUME NEW u \in Tokens, session'[u] # NoToken PROVE Opened(session[u])'
    BY <1>1, <1>3, <1>4, <1>5, <1>6 DEF Opened, Of
  <1>7. Live(s)' = Live(s) \cup {t}
    BY <1>3 DEF Live, Of
  <1>8. \A u \in Tokens \ {s} : Live(u)' = Live(u)
    BY <1>3 DEF Live, Of
  <1> QED
    BY <1>1, <1>2, <1>3, <1>4, <1>6, <1>7, <1>8

(* Tokens die: no session has more live ones than before.                  *)
LEMMA DeadToken ==
  ASSUME SInv, NEW t \in Tokens, NEW d \in {"expired", "revoked"},
         token[t] # "none", token' = [token EXCEPT ![t] = d], session' = session
  PROVE  /\ token' \in [Tokens -> {"none", "live", "expired", "revoked"}]
         /\ \A u \in Tokens : session'[u] = NoToken <=> token'[u] = "none"
         /\ \A s \in Tokens : Live(s)' = Live(s) \ {t}
  BY DEF SInv, SessionTypeOK, SessionsHold, Live, Of

LEMMA OpenSessionInv ==
  ASSUME SInv, NEW t \in Tokens, OpenSession(t) PROVE SInv'
  <1>1. /\ GenerateTokens(t, t)
        /\ cookie' = [cookie EXCEPT ![t] = t]
        /\ UNCHANGED <<exch, overlapped, unanswered, loggedOut>>
    BY DEF OpenSession
  <1>2. /\ session[t] = NoToken /\ ~ Opened(t)
        /\ cookie \in [Tokens -> Tokens \cup {NoToken}]
    BY <1>1, NewToken, NoTokenAssumption DEF SInv, SessionTypeOK, Opened, Of
  <1>3. cookie'[t] = t /\ \A s \in Tokens \ {t} : cookie'[s] = cookie[s]
    BY <1>1, <1>2
  <1>4. SessionTypeOK'
    BY <1>1, NewToken DEF SInv, SessionTypeOK
  <1>5. t \notin loggedOut /\ \A h \in Handlers : ~ ExchangeOf(h, t)
    BY <1>2 DEF SInv, SessionsHold, ExchangeOf
  <1>6. SessionsHold'
    <2>1. \A s \in Tokens : cookie'[s] # NoToken => session'[cookie'[s]] = s
      BY <1>1, <1>2, <1>3, NewToken, NoTokenAssumption DEF SInv, SessionsHold
    <2>2. \A h \in Handlers :
             exch'[h].pc = "answering" =>
                exch'[h].new \in Tokens /\ session'[exch'[h].new] = exch'[h].session
      BY <1>1, <1>2, NewToken, NoTokenAssumption DEF SInv, SessionsHold
    <2>3. loggedOut' \subseteq {s \in Tokens : Opened(s)'}
      BY <1>1, NewToken DEF SInv, SessionsHold
    <2>4. ASSUME NEW h \in Handlers, exch'[h].pc # "idle"
          PROVE  /\ exch'[h].old \in Tokens /\ session'[exch'[h].old] = exch'[h].session
                 /\ exch'[h].session \in Tokens /\ Opened(exch[h].session)'
      BY <1>1, <2>4, NewToken, NoTokenAssumption DEF SInv, SessionsHold
    <2> QED
      BY <1>1, <2>1, <2>2, <2>3, <2>4, NewToken DEF SessionsHold
  <1>7. ASSUME NEW s \in Tokens \ overlapped' PROVE InTurn(s)'
    <2>1. InTurn(s)
      BY <1>1, <1>7 DEF SInv
    <2>2. CASE s # t
      <3>1. Live(s)' = Live(s) /\ cookie'[s] = cookie[s]
        BY <1>1, <1>3, <2>2, NewToken
      <3> QED
        BY <1>1, <2>1, <3>1 DEF InTurn, ExchangeOf
    <2>3. CASE s = t
      <3>1. Live(t) = {}
        BY <1>2, NoTokenAssumption DEF Live, Of, Opened, SInv, SessionsHold, SessionTypeOK
      <3>2. Live(t)' = {t}
        BY <1>1, <3>1, NewToken
      <3> QED
        BY <1>1, <1>3, <1>5, <2>3, <3>2 DEF InTurn, ExchangeOf
    <2> QED
      BY <2>2, <2>3
  <1> QED
    BY <1>4, <1>6, <1>7 DEF SInv

(* One request of a session moves on; the others, and the other sessions,  *)
(* are as they were.                                                        *)
LEMMA ExchangeStep ==
  ASSUME SInv, NEW h \in Handlers, NEW q \in Exchanges, NEW s \in Tokens,
         exch' = [exch EXCEPT ![h] = q],
         SessionTypeOK', SessionsHold',
         exch[h].pc # "idle" => exch[h].session = s,
         q.pc # "idle" => q.session = s,
         \A u \in Tokens \ {s} : Live(u)' = Live(u) /\ cookie'[u] = cookie[u],
         overlapped' \ {s} = overlapped \ {s},
         unanswered' \ {s} = unanswered \ {s},
         loggedOut' = loggedOut,
         s \notin overlapped' => InTurn(s)'
  PROVE  SInv'
  <1>1. exch'[h] = q /\ \A g \in Handlers \ {h} : exch'[g] = exch[g]
    BY DEF SInv, SessionTypeOK
  <1>2. ASSUME NEW u \in Tokens \ overlapped', u # s PROVE InTurn(u)'
    <2>1. InTurn(u)
      BY <1>2 DEF SInv
    <2>2. \A g \in Handlers :
              (ExchangeOf(g, u)' <=> ExchangeOf(g, u)) /\ (ExchangeOf(g, u) => exch'[g] = exch[g])
      BY <1>1, <1>2 DEF ExchangeOf
    <2>3. Live(u)' = Live(u) /\ cookie'[u] = cookie[u]
          /\ (u \in unanswered' <=> u \in unanswered)
      BY <1>2
    <2> QED
      BY <2>1, <2>2, <2>3 DEF InTurn
  <1> QED
    BY <1>2 DEF SInv

LEMMA BeginExchangeInv ==
  ASSUME SInv, NEW h \in Handlers, NEW s \in Tokens, BeginExchange(h, s) PROVE SInv'
  <1> DEFINE q == [pc |-> "revoking", old |-> cookie[s], new |-> NoToken, session |-> s]
  <1>1. /\ exch[h].pc = "idle" /\ cookie[s] # NoToken /\ token[cookie[s]] = "live"
        /\ exch' = [exch EXCEPT ![h] = q]
        /\ overlapped' = IF InProgress(s) = {} THEN overlapped ELSE overlapped \cup {s}
        /\ UNCHANGED <<token, session, cookie, unanswered, loggedOut>>
    BY DEF BeginExchange, Exchangeable
  <1>2. cookie[s] \in Tokens /\ session[cookie[s]] = s /\ Opened(s)
    BY <1>1, NoTokenAssumption DEF SInv, SessionTypeOK, SessionsHold
  <1>3. /\ q \in Exchanges /\ q.pc = "revoking" /\ q.session = s /\ q.old = cookie[s]
    BY <1>2 DEF Exchanges
  <1> HIDE DEF q
  <1>4. exch'[h] = q /\ \A g \in Handlers \ {h} : exch'[g] = exch[g]
    BY <1>1 DEF SInv, SessionTypeOK
  <1>5. SessionTypeOK'
    BY <1>1, <1>3 DEF SInv, SessionTypeOK
  <1>6. Live(s)' = Live(s) /\ \A u \in Tokens : Live(u)' = Live(u) /\ (Opened(u)' <=> Opened(u))
    BY <1>1 DEF Live, Of, Opened
  <1>7. SessionsHold'
    <2>1. \A g \in Handlers :
             /\ exch'[g].pc # "idle" =>
                  /\ exch'[g].old \in Tokens /\ session'[exch'[g].old] = exch'[g].session
                  /\ exch'[g].session \in Tokens /\ Opened(exch'[g].session)
             /\ exch'[g].pc = "answering" =>
                  exch'[g].new \in Tokens /\ session'[exch'[g].new] = exch'[g].session
      BY <1>1, <1>2, <1>3, <1>4 DEF SInv, SessionsHold
    <2> QED
      BY <1>1, <2>1 DEF SInv, SessionsHold, Opened, Of
  <1>8. ASSUME s \notin overlapped' PROVE InTurn(s)'
    <2>1. InProgress(s) = {} /\ s \notin overlapped
      BY <1>1, <1>8
    <2>2. \A g \in Handlers : ~ ExchangeOf(g, s)
      BY <2>1 DEF InProgress, ExchangeOf
    <2>3. InTurn(s)
      BY <2>1 DEF SInv
    <2>4. \A g \in Handlers : ExchangeOf(g, s)' => g = h
      BY <1>4, <2>2 DEF ExchangeOf
    <2>5. cookie[s] \in Live(s)
      BY <1>1, <1>2 DEF Live, Of
    <2>6. Live(s) \subseteq {cookie[s]}
      BY <2>3, <2>5 DEF InTurn
    <2>7. s \in loggedOut => s \in unanswered
      BY <1>1, <2>3 DEF InTurn
    <2>8. ExchangeOf(h, s)'
      BY <1>3, <1>4 DEF ExchangeOf
    <2> QED
      BY <1>1, <1>3, <1>4, <1>6, <2>4, <2>6, <2>7, <2>8 DEF InTurn
  <1> QED
    BY <1>1, <1>3, <1>5, <1>6, <1>7, <1>8, ExchangeStep

LEMMA RevokeOldInv == ASSUME SInv, NEW h \in Handlers, RevokeOld(h) PROVE SInv'
  <1>1. PICK s \in Tokens, old \in Tokens :
          s = exch[h].session /\ old = exch[h].old /\ Opened(s)
    BY DEF RevokeOld, SInv, SessionsHold
  <1> DEFINE q == [exch[h] EXCEPT !.pc = "creating"]
  <1>2. /\ exch[h].pc = "revoking"
        /\ token' = [token EXCEPT ![old] = "revoked"]
        /\ exch' = [exch EXCEPT ![h] = q]
        /\ UNCHANGED <<session, cookie, overlapped, unanswered, loggedOut>>
    BY <1>1 DEF RevokeOld
  <1>3. exch[h] \in Exchanges
    BY DEF SInv, SessionTypeOK
  <1>4. q \in Exchanges /\ q.pc = "creating" /\ q.session = s /\ q.old = old
    BY <1>1, <1>3 DEF Exchanges
  <1> HIDE DEF q
  <1>5. exch'[h] = q /\ \A g \in Handlers \ {h} : exch'[g] = exch[g]
    BY <1>2 DEF SInv, SessionTypeOK
  <1>6. /\ SessionTypeOK' /\ \A u \in Tokens : session'[u] = NoToken <=> token'[u] = "none"
        /\ Live(s)' = Live(s) \ {old} /\ \A u \in Tokens \ {s} : Live(u)' = Live(u)
    <2>1. session[old] = s /\ token[old] # "none"
      BY <1>1, <1>2, NoTokenAssumption DEF SInv, SessionsHold
    <2>2. \A u \in Tokens \ {s} : old \notin Live(u)
      BY <2>1 DEF Live, Of
    <2>3. /\ token' \in [Tokens -> {"none", "live", "expired", "revoked"}]
          /\ \A u \in Tokens : session'[u] = NoToken <=> token'[u] = "none"
          /\ \A u \in Tokens : Live(u)' = Live(u) \ {old}
      BY <1>2, <2>1, DeadToken
    <2>4. SessionTypeOK'
      BY <1>2, <1>4, <2>3 DEF SInv, SessionTypeOK
    <2> QED
      BY <2>2, <2>3, <2>4
  <1>7. SessionsHold'
    <2>1. \A g \in Handlers :
             /\ exch'[g].pc # "idle" =>
                  /\ exch'[g].old \in Tokens /\ session'[exch'[g].old] = exch'[g].session
                  /\ exch'[g].session \in Tokens /\ Opened(exch'[g].session)
             /\ exch'[g].pc = "answering" =>
                  exch'[g].new \in Tokens /\ session'[exch'[g].new] = exch'[g].session
      BY <1>1, <1>2, <1>4, <1>5 DEF SInv, SessionsHold
    <2> QED
      BY <1>2, <1>6, <2>1 DEF SInv, SessionsHold, Opened, Of
  <1>8. ASSUME s \notin overlapped' PROVE InTurn(s)'
    <2>1. InTurn(s)
      BY <1>2, <1>8 DEF SInv
    <2>2. \A g \in Handlers : ExchangeOf(g, s)' => ExchangeOf(g, s)
      BY <1>1, <1>2, <1>5 DEF ExchangeOf
    <2>3. ExchangeOf(h, s) /\ Live(s) \subseteq {old}
      BY <1>1, <1>2, <2>1 DEF InTurn, ExchangeOf
    <2>4. Live(s)' = {}
      BY <1>6, <2>3
    <2>5. \A g \in Handlers : ExchangeOf(g, s)' => g = h
      BY <2>1, <2>2, <2>3 DEF InTurn
    <2> QED
      BY <1>2, <1>4, <1>5, <2>1, <2>3, <2>4, <2>5 DEF InTurn
  <1> QED
    BY <1>1, <1>2, <1>4, <1>6, <1>7, <1>8, ExchangeStep

LEMMA CreateNewInv ==
  ASSUME SInv, NEW h \in Handlers, NEW t \in Tokens, CreateNew(h, t) PROVE SInv'
  <1>1. PICK s \in Tokens : s = exch[h].session /\ Opened(s)
    BY DEF CreateNew, SInv, SessionsHold
  <1> DEFINE q == [exch[h] EXCEPT !.pc = "answering", !.new = t]
  <1>2. /\ exch[h].pc = "creating"
        /\ GenerateTokens(t, s)
        /\ exch' = [exch EXCEPT ![h] = q]
        /\ UNCHANGED <<cookie, overlapped, unanswered, loggedOut>>
    BY <1>1 DEF CreateNew
  <1>3. exch[h] \in Exchanges
    BY DEF SInv, SessionTypeOK
  <1>4. /\ q \in Exchanges /\ q.pc = "answering" /\ q.session = s /\ q.new = t
        /\ q.old = exch[h].old
    BY <1>1, <1>3 DEF Exchanges
  <1> HIDE DEF q
  <1>5. exch'[h] = q /\ \A g \in Handlers \ {h} : exch'[g] = exch[g]
    BY <1>2 DEF SInv, SessionTypeOK
  <1>6. SessionTypeOK'
    BY <1>1, <1>2, <1>4, NewToken DEF SInv, SessionTypeOK
  <1>7. SessionsHold'
    <2>1. \A c \in Tokens : cookie'[c] # NoToken => session'[cookie'[c]] = c
      BY <1>1, <1>2, NewToken, NoTokenAssumption DEF SInv, SessionsHold, SessionTypeOK
    <2>2. ASSUME NEW g \in Handlers, exch'[g].pc # "idle"
          PROVE  /\ exch'[g].old \in Tokens /\ session'[exch'[g].old] = exch'[g].session
                 /\ exch'[g].session \in Tokens /\ Opened(exch[g].session)'
      <3>1. /\ exch[g].pc # "idle" /\ exch'[g].old = exch[g].old
            /\ exch'[g].session = exch[g].session
        BY <1>1, <1>2, <1>4, <1>5, <2>2
      <3> QED
        BY <1>1, <1>2, <3>1, NewToken, NoTokenAssumption DEF SInv, SessionsHold
    <2>3. ASSUME NEW g \in Handlers, exch'[g].pc = "answering"
          PROVE  exch'[g].new \in Tokens /\ session'[exch'[g].new] = exch'[g].session
      <3>1. CASE g = h
        BY <1>1, <1>2, <1>4, <1>5, <3>1, NewToken
      <3>2. CASE g # h
        BY <1>1, <1>2, <1>5, <2>3, <3>2, NewToken, NoTokenAssumption DEF SInv, SessionsHold
      <3> QED
        BY <3>1, <3>2
    <2>4. loggedOut' \subseteq {u \in Tokens : Opened(u)'}
      BY <1>1, <1>2, NewToken DEF SInv, SessionsHold
    <2> QED
      BY <1>1, <1>2, <2>1, <2>2, <2>3, <2>4, NewToken DEF SessionsHold
  <1>8. ASSUME s \notin overlapped' PROVE InTurn(s)'
    <2>1. InTurn(s)
      BY <1>2, <1>8 DEF SInv
    <2>2. \A g \in Handlers : ExchangeOf(g, s)' => ExchangeOf(g, s)
      BY <1>1, <1>2, <1>5 DEF ExchangeOf
    <2>3. ExchangeOf(h, s) /\ Live(s) = {}
      BY <1>1, <1>2, <2>1 DEF InTurn, ExchangeOf
    <2>4. Live(s)' = {t}
      BY <1>1, <1>2, <2>3, NewToken
    <2>5. \A g \in Handlers : ExchangeOf(g, s)' => g = h
      BY <2>1, <2>2, <2>3 DEF InTurn
    <2>6. ExchangeOf(h, s)'
      BY <1>4, <1>5 DEF ExchangeOf
    <2> QED
      BY <1>2, <1>4, <1>5, <2>1, <2>3, <2>4, <2>5, <2>6 DEF InTurn
  <1>9. \A u \in Tokens \ {s} : Live(u)' = Live(u)
    BY <1>1, <1>2, NewToken
  <1> QED
    BY <1>1, <1>2, <1>4, <1>6, <1>7, <1>8, <1>9, ExchangeStep

LEMMA AnswerExchangeInv == ASSUME SInv, NEW h \in Handlers, AnswerExchange(h) PROVE SInv'
  <1>1. PICK s \in Tokens, t \in Tokens :
          s = exch[h].session /\ t = exch[h].new /\ session[t] = s
    BY DEF AnswerExchange, SInv, SessionsHold
  <1>2. /\ exch[h].pc = "answering"
        /\ cookie' = [cookie EXCEPT ![s] = t]
        /\ exch' = [exch EXCEPT ![h] = NoExchange]
        /\ UNCHANGED <<token, session, overlapped, unanswered, loggedOut>>
    BY <1>1 DEF AnswerExchange
  <1>3. NoExchange.pc = "idle"
    BY DEF NoExchange
  <1>4. exch'[h] = NoExchange /\ \A g \in Handlers \ {h} : exch'[g] = exch[g]
    BY <1>2 DEF SInv, SessionTypeOK
  <1>5. SessionTypeOK'
    BY <1>2, NoExchangeType DEF SInv, SessionTypeOK
  <1>6. \A u \in Tokens : Live(u)' = Live(u) /\ (Opened(u)' <=> Opened(u))
    BY <1>2 DEF Live, Of, Opened
  <1>7. cookie'[s] = t /\ \A u \in Tokens \ {s} : cookie'[u] = cookie[u]
    BY <1>2 DEF SInv, SessionTypeOK
  <1>8. SessionsHold'
    <2>1. \A g \in Handlers :
             /\ exch'[g].pc # "idle" =>
                  /\ exch'[g].old \in Tokens /\ session'[exch'[g].old] = exch'[g].session
                  /\ exch'[g].session \in Tokens /\ Opened(exch'[g].session)
             /\ exch'[g].pc = "answering" =>
                  exch'[g].new \in Tokens /\ session'[exch'[g].new] = exch'[g].session
      BY <1>2, <1>3, <1>4 DEF SInv, SessionsHold
    <2> QED
      BY <1>1, <1>2, <1>7, <2>1 DEF SInv, SessionsHold, Opened, Of
  <1>9. ASSUME s \notin overlapped' PROVE InTurn(s)'
    <2>1. InTurn(s)
      BY <1>2, <1>9 DEF SInv
    <2>2. ExchangeOf(h, s) /\ Live(s) \subseteq {t}
      BY <1>1, <1>2, <2>1 DEF InTurn, ExchangeOf
    <2>3. \A g \in Handlers : ~ ExchangeOf(g, s)'
      BY <1>3, <1>4, <2>1, <2>2 DEF InTurn, ExchangeOf
    <2>4. s \in loggedOut => s \in unanswered
      BY <2>1, <2>2 DEF InTurn
    <2> QED
      BY <1>2, <1>6, <1>7, <2>1, <2>2, <2>3, <2>4 DEF InTurn
  <1> QED
    BY <1>1, <1>2, <1>3, <1>5, <1>6, <1>7, <1>8, <1>9, NoExchangeType, ExchangeStep

LEMMA LoseExchangeInv == ASSUME SInv, NEW h \in Handlers, LoseExchange(h) PROVE SInv'
  <1>1. PICK s \in Tokens : s = exch[h].session
    BY DEF LoseExchange, SInv, SessionsHold
  <1>2. /\ exch[h].pc # "idle"
        /\ unanswered' = unanswered \cup {s}
        /\ exch' = [exch EXCEPT ![h] = NoExchange]
        /\ UNCHANGED <<token, session, cookie, overlapped, loggedOut>>
    BY <1>1 DEF LoseExchange
  <1>3. NoExchange.pc = "idle"
    BY DEF NoExchange
  <1>4. exch'[h] = NoExchange /\ \A g \in Handlers \ {h} : exch'[g] = exch[g]
    BY <1>2 DEF SInv, SessionTypeOK
  <1>5. SessionTypeOK'
    BY <1>2, NoExchangeType DEF SInv, SessionTypeOK
  <1>6. \A u \in Tokens : Live(u)' = Live(u) /\ (Opened(u)' <=> Opened(u))
    BY <1>2 DEF Live, Of, Opened
  <1>7. SessionsHold'
    <2>1. \A g \in Handlers :
             /\ exch'[g].pc # "idle" =>
                  /\ exch'[g].old \in Tokens /\ session'[exch'[g].old] = exch'[g].session
                  /\ exch'[g].session \in Tokens /\ Opened(exch'[g].session)
             /\ exch'[g].pc = "answering" =>
                  exch'[g].new \in Tokens /\ session'[exch'[g].new] = exch'[g].session
      BY <1>2, <1>3, <1>4 DEF SInv, SessionsHold
    <2> QED
      BY <1>2, <2>1 DEF SInv, SessionsHold, Opened, Of
  <1>8. ASSUME s \notin overlapped' PROVE InTurn(s)'
    <2>1. InTurn(s)
      BY <1>2, <1>8 DEF SInv
    <2>2. ExchangeOf(h, s)
      BY <1>1, <1>2 DEF ExchangeOf
    <2>3. \A g \in Handlers : ~ ExchangeOf(g, s)'
      BY <1>3, <1>4, <2>1, <2>2 DEF InTurn, ExchangeOf
    <2> QED
      BY <1>2, <1>6, <2>1, <2>3 DEF InTurn
  <1> QED
    BY <1>1, <1>2, <1>3, <1>5, <1>6, <1>7, <1>8, NoExchangeType, ExchangeStep

LEMMA LogoutInv == ASSUME SInv, NEW s \in Tokens, Logout(s) PROVE SInv'
  <1>1. PICK c \in Tokens : c = cookie[s] /\ session[c] = s /\ token[c] # "none"
    BY NoTokenAssumption DEF Logout, SInv, SessionTypeOK, SessionsHold
  <1>2. /\ token' = [token EXCEPT ![c] = "revoked"]
        /\ cookie' = [cookie EXCEPT ![s] = NoToken]
        /\ loggedOut' = loggedOut \cup {s}
        /\ overlapped' = IF InProgress(s) = {} THEN overlapped ELSE overlapped \cup {s}
        /\ UNCHANGED <<session, exch, unanswered>>
    BY <1>1 DEF Logout
  <1>3. /\ SessionTypeOK' /\ \A u \in Tokens : session'[u] = NoToken <=> token'[u] = "none"
        /\ \A u \in Tokens : Live(u)' = Live(u) \ {c}
    BY <1>1, <1>2, DeadToken DEF SInv, SessionTypeOK
  <1>4. cookie'[s] = NoToken /\ \A u \in Tokens \ {s} : cookie'[u] = cookie[u]
    BY <1>2 DEF SInv, SessionTypeOK
  <1>5. Opened(s)
    BY <1>1, NoTokenAssumption DEF SInv, SessionsHold
  <1>6. SessionsHold'
    BY <1>2, <1>3, <1>4, <1>5 DEF SInv, SessionsHold, Opened, Of
  <1>7. ASSUME NEW u \in Tokens \ overlapped' PROVE InTurn(u)'
    <2>1. InTurn(u)
      BY <1>2, <1>7 DEF SInv
    <2>2. CASE u # s
      <3>1. c \notin Live(u)
        BY <1>1, <2>2 DEF Live, Of
      <3>2. Live(u)' = Live(u) /\ cookie'[u] = cookie[u] /\ (u \in loggedOut' <=> u \in loggedOut)
        BY <1>2, <1>3, <1>4, <2>2, <3>1
      <3> QED
        BY <1>2, <2>1, <3>2 DEF InTurn, ExchangeOf
    <2>3. CASE u = s
      <3>1. InProgress(s) = {}
        BY <1>2, <1>7, <2>3
      <3>2. \A h \in Handlers : ~ ExchangeOf(h, s)
        BY <3>1 DEF InProgress, ExchangeOf
      <3>3. s \notin unanswered => Live(s) \subseteq {c}
        BY <1>1, <2>1, <2>3, <3>2 DEF InTurn
      <3>4. Live(s)' = Live(s) \ {c}
        BY <1>3
      <3>5. \A h \in Handlers : ~ ExchangeOf(h, s)'
        BY <1>2, <3>2 DEF ExchangeOf
      <3> QED
        BY <1>2, <1>4, <2>1, <2>3, <3>3, <3>4, <3>5 DEF InTurn
    <2> QED
      BY <2>2, <2>3
  <1> QED
    BY <1>3, <1>6, <1>7 DEF SInv

LEMMA ExpireTokenInv == ASSUME SInv, NEW t \in Tokens, ExpireToken(t) PROVE SInv'
  <1>1. /\ token[t] = "live" /\ token' = [token EXCEPT ![t] = "expired"]
        /\ UNCHANGED <<session, cookie, exch, overlapped, unanswered, loggedOut>>
    BY DEF ExpireToken
  <1>2. /\ SessionTypeOK' /\ \A u \in Tokens : session'[u] = NoToken <=> token'[u] = "none"
        /\ \A u \in Tokens : Live(u)' = Live(u) \ {t}
    BY <1>1, DeadToken DEF SInv, SessionTypeOK
  <1>3. SessionsHold'
    BY <1>1, <1>2 DEF SInv, SessionsHold, Opened, Of
  <1>4. ASSUME NEW u \in Tokens \ overlapped' PROVE InTurn(u)'
    <2>1. InTurn(u)
      BY <1>1, <1>4 DEF SInv
    <2>2. Live(u)' \subseteq Live(u)
      BY <1>2
    <2> QED
      BY <1>1, <2>1, <2>2 DEF InTurn, ExchangeOf
  <1> QED
    BY <1>2, <1>3, <1>4 DEF SInv

LEMMA NextSInv == SInv /\ [SessionNext]_sessionVars => SInv'
  <1> SUFFICES ASSUME SInv, [SessionNext]_sessionVars PROVE SInv'
    OBVIOUS
  <1>1. ASSUME NEW h \in Handlers, HandlerStep(h) PROVE SInv'
    BY <1>1, BeginExchangeInv, RevokeOldInv, CreateNewInv, AnswerExchangeInv, LoseExchangeInv
       DEF HandlerStep
  <1>2. CASE BrowserStep
    BY <1>2, LogoutInv, ExpireTokenInv DEF BrowserStep
  <1>3. CASE UNCHANGED sessionVars
    BY <1>3 DEF sessionVars, SInv, SessionTypeOK, SessionsHold, InTurn, ExchangeOf, Live, Of, Opened
  <1> QED
    BY <1>1, <1>2, <1>3, OpenSessionInv DEF SessionNext

LEMMA InitSInv == SessionInit => SInv
  <1> SUFFICES ASSUME SessionInit PROVE SInv
    OBVIOUS
  <1>1. \A h \in Handlers : exch[h].pc = "idle"
    BY DEF SessionInit, NoExchange
  <1>2. \A s \in Tokens : Live(s) = {}
    BY NoTokenAssumption DEF SessionInit, Live, Of
  <1> QED
    BY <1>1, <1>2, NoExchangeType DEF SessionInit, SInv, SessionTypeOK, SessionsHold, InTurn, ExchangeOf

-----------------------------------------------------------------------------
(* Accounts.                                                                *)

LEMMA NoCallType == NoCall \in Calls
  BY DEF NoCall, Calls

(* The types of what a request leaves behind.                               *)
LEMMA InitAInv == Init => AInv
  <1> SUFFICES ASSUME Init PROVE AInv
    OBVIOUS
  <1>1. \A h \in Handlers : call[h] = NoCall /\ call[h].op = "none"
    BY DEF Init, NoCall
  <1>2. SessionTypeOK
    BY InitSInv DEF Init, SInv
  <1>3. TypeOK
    BY <1>2, NoCallType DEF Init, TypeOK
  <1> QED
    BY <1>1, <1>3, NoneAssumption
       DEF Init, AInv, CallHolds, ResetsHold, ResetHolds, Resetting, RegisteredOnce, Registered,
           ActivationsHold

(* The row is read: one more request is in progress, and nothing else.     *)
LEMMA CallsStep ==
  ASSUME AInv, NEW h \in Handlers, NEW q \in Calls, call' = [call EXCEPT ![h] = q],
         \A e \in Emails : Registered(e) => Registered(e)',
         \A l \in Links : ~ Fresh(l) => ~ Fresh(l)',
         q.op # "none" => q.email \in Emails,
         q.op \in {"register", "reset", "change"} => q.password \in Passwords,
         q.op = "reset" => q.link \in Links /\ ~ Fresh(q.link),
         q.op = "activate" => Registered(q.email)
  PROVE  /\ call' \in [Handlers -> Calls]
         /\ call'[h] = q /\ \A g \in Handlers \ {h} : call'[g] = call[g]
         /\ \A g \in Handlers : CallHolds(g)'
  <1>1. /\ call' \in [Handlers -> Calls]
        /\ call'[h] = q /\ \A g \in Handlers \ {h} : call'[g] = call[g]
    BY DEF AInv, TypeOK
  <1>2. ASSUME NEW g \in Handlers PROVE CallHolds(g)'
    <2>1. CASE g = h
      <3>1. q.op # "none" => \A e \in Emails : q.email = e => Registered(e)' \/ ~ Registered(e)
        OBVIOUS
      <3> QED
        BY <1>1, <2>1, <3>1 DEF CallHolds, Registered, Fresh
    <2>2. CASE g # h
      BY <1>1, <2>2 DEF AInv, CallHolds, Registered, Fresh
    <2> QED
      BY <2>1, <2>2
  <1> QED
    BY <1>1, <1>2

(* What no reset and no request for a link touches.                        *)
LEMMA ResetsStay ==
  ASSUME AInv, UNCHANGED <<reset, newest, spent, crossed>>,
         \A l \in Links : ~ Fresh(l) => ~ Fresh(l)',
         \A h \in Handlers : call'[h].op = "reset" => call'[h] = call[h]
  PROVE  ResetsHold'
  <1>1. \A e \in Emails : reset[e] # NoLink => reset[e] \in Links
    BY DEF AInv, TypeOK
  <1>2. \A h \in Handlers : ResetHolds(h)'
    BY DEF AInv, ResetsHold, ResetHolds, Resetting
  <1>3. \A g, h \in Handlers : Resetting(g)' /\ Resetting(h)' /\ g # h =>
          /\ call'[g].link = call'[h].link => call'[g].email = call'[h].email
          /\ call'[g].email = call'[h].email =>
                call'[g].link \in crossed' /\ call'[h].link \in crossed'
    BY DEF AInv, ResetsHold, Resetting
  <1> QED
    BY <1>1, <1>2, <1>3 DEF AInv, ResetsHold, Fresh

(* What no registration and no activation touches.                          *)
LEMMA AccountsStay ==
  ASSUME AInv, UNCHANGED <<user, wallet, created, activation>>
  PROVE  RegisteredOnce' /\ ActivationsHold'
  BY DEF AInv, RegisteredOnce, Registered, ActivationsHold

LEMMA AcceptInv ==
  ASSUME AInv, NEW h \in Handlers, NEW op \in {"register", "activate", "resend", "forgot", "change", "login"},
         NEW e \in Emails, NEW l \in Links \cup {NoLink}, NEW p \in Passwords \cup {NoPassword},
         Accept(h, op, e, l, p), UNCHANGED crossed,
         op \in {"register", "change"} => p \in Passwords,
         op = "activate" => Registered(e)
  PROVE  AInv'
  <1> DEFINE q == [op |-> op, email |-> e, link |-> l, password |-> p]
  <1>1. q \in Calls /\ q.op = op /\ q.email = e /\ q.password = p
    BY DEF Calls
  <1>2. /\ call' = [call EXCEPT ![h] = q]
        /\ UNCHANGED <<sessionVars, user, wallet, password, activation, reset, link,
                       created, newest, spent>>
    BY DEF Accept
  <1> HIDE DEF q
  <1>3. \A f \in Emails : Registered(f)' <=> Registered(f)
    BY <1>2 DEF Registered
  <1>4. \A k \in Links : Fresh(k)' <=> Fresh(k)
    BY <1>2 DEF Fresh
  <1>5. /\ call' \in [Handlers -> Calls]
        /\ call'[h] = q /\ \A g \in Handlers \ {h} : call'[g] = call[g]
        /\ \A g \in Handlers : CallHolds(g)'
    BY <1>1, <1>2, <1>3, <1>4, CallsStep
  <1>6. TypeOK'
    BY <1>2, <1>5 DEF AInv, TypeOK, SessionTypeOK, sessionVars
  <1>7. \A g \in Handlers : call'[g].op = "reset" => call'[g] = call[g]
    BY <1>1, <1>5
  <1>8. ResetsHold'
    BY <1>2, <1>4, <1>7, ResetsStay
  <1>9. RegisteredOnce' /\ ActivationsHold'
    BY <1>2, AccountsStay
  <1> QED
    BY <1>5, <1>6, <1>8, <1>9 DEF AInv

LEMMA BeginResetInv ==
  ASSUME AInv, NEW h \in Handlers, NEW l \in Links, NEW p \in Passwords, BeginReset(h, l, p)
  PROVE  AInv'
  <1>1. PICK e \in Emails :
          /\ reset[e] = l
          /\ Accept(h, "reset", e, l, p)
          /\ crossed' = IF Resets(e) = {} THEN crossed
                        ELSE crossed \cup {l} \cup {call[b].link : b \in Resets(e)}
    BY DEF BeginReset, FindByResetToken
  <1> DEFINE q == [op |-> "reset", email |-> e, link |-> l, password |-> p]
  <1>2. q \in Calls /\ q.op = "reset" /\ q.email = e /\ q.password = p /\ q.link = l
    BY DEF Calls
  <1>3. /\ call' = [call EXCEPT ![h] = q]
        /\ UNCHANGED <<sessionVars, user, wallet, password, activation, reset, link,
                       created, newest, spent>>
        /\ call[h] = NoCall
    BY <1>1 DEF Accept, Free
  <1> HIDE DEF q
  <1>4. l # NoLink /\ ~ Fresh(l)
    BY <1>1, NoneAssumption DEF AInv, ResetsHold
  <1>5. \A f \in Emails : Registered(f)' <=> Registered(f)
    BY <1>3 DEF Registered
  <1>6. \A k \in Links : Fresh(k)' <=> Fresh(k)
    BY <1>3 DEF Fresh
  <1>7. /\ call' \in [Handlers -> Calls]
        /\ call'[h] = q /\ \A g \in Handlers \ {h} : call'[g] = call[g]
        /\ \A g \in Handlers : CallHolds(g)'
    BY <1>2, <1>3, <1>4, <1>5, <1>6, CallsStep
  <1>8. \A b \in Resets(e) : b \in Handlers /\ Resetting(b) /\ call[b].link \in Links
    BY DEF Resets, Resetting, AInv, CallHolds
  <1>9. crossed \subseteq crossed' /\ crossed' \subseteq Links
    BY <1>1, <1>8 DEF AInv, TypeOK
  <1>10. TypeOK'
    BY <1>3, <1>7, <1>9 DEF AInv, TypeOK, SessionTypeOK, sessionVars
  <1>11. \A g \in Handlers : ResetHolds(g)'
    <2>1. ResetHolds(h)'
      <3>1. newest[e] \in {NoLink, l} \cup crossed
        BY <1>1 DEF AInv, ResetsHold
      <3>2. spent[l] = 0 /\ \A f \in Emails : reset[f] = l => f = e
        BY <1>1, <1>4 DEF AInv, ResetsHold
      <3> QED
        BY <1>2, <1>3, <1>7, <1>9, <3>1, <3>2 DEF ResetHolds
    <2>2. ASSUME NEW g \in Handlers \ {h} PROVE ResetHolds(g)'
      BY <1>3, <1>7, <1>9 DEF AInv, ResetsHold, ResetHolds, Resetting
    <2> QED
      BY <2>1, <2>2
  <1>12. ASSUME NEW g \in Handlers, NEW k \in Handlers, Resetting(g)', Resetting(k)', g # k
         PROVE  /\ call'[g].link = call'[k].link => call'[g].email = call'[k].email
                /\ call'[g].email = call'[k].email =>
                      call'[g].link \in crossed' /\ call'[k].link \in crossed'
    <2>1. ASSUME NEW b \in Handlers \ {h}, Resetting(b)'
          PROVE  /\ call'[b].link = l => call'[b].email = e
                 /\ call'[b].email = e => call'[b].link \in crossed' /\ l \in crossed'
      <3>1. call'[b] = call[b] /\ Resetting(b)
        BY <1>7, <2>1 DEF Resetting
      <3>2. call[b].link = l => call[b].email = e
        BY <1>1, <3>1 DEF AInv, ResetsHold, ResetHolds
      <3>3. call[b].email = e => b \in Resets(e)
        BY <3>1 DEF Resets, Resetting
      <3> QED
        BY <1>1, <3>1, <3>2, <3>3
    <2>2. CASE g = h
      BY <1>2, <1>7, <1>12, <2>1, <2>2
    <2>3. CASE k = h
      BY <1>2, <1>7, <1>12, <2>1, <2>3
    <2>4. CASE g # h /\ k # h
      BY <1>7, <1>9, <1>12, <2>4 DEF AInv, ResetsHold, Resetting
    <2> QED
      BY <2>2, <2>3, <2>4
  <1>13. ResetsHold'
    BY <1>3, <1>9, <1>11, <1>12 DEF AInv, ResetsHold, Fresh
  <1>14. RegisteredOnce' /\ ActivationsHold'
    BY <1>3, AccountsStay
  <1> QED
    BY <1>7, <1>10, <1>13, <1>14 DEF AInv

(* A request ends.                                                          *)
LEMMA CallDone ==
  ASSUME AInv, NEW h \in Handlers, Done(h),
         \A e \in Emails : Registered(e) => Registered(e)',
         \A l \in Links : ~ Fresh(l) => ~ Fresh(l)'
  PROVE  /\ call' \in [Handlers -> Calls]
         /\ call'[h].op = "none" /\ \A g \in Handlers \ {h} : call'[g] = call[g]
         /\ \A g \in Handlers : CallHolds(g)'
         /\ \A g \in Handlers : call'[g].op = "reset" => call'[g] = call[g]
  <1>1. NoCall.op = "none"
    BY DEF NoCall
  <1>2. call' = [call EXCEPT ![h] = NoCall]
    BY DEF Done
  <1>3. /\ call' \in [Handlers -> Calls]
        /\ call'[h] = NoCall /\ \A g \in Handlers \ {h} : call'[g] = call[g]
        /\ \A g \in Handlers : CallHolds(g)'
    BY <1>1, <1>2, NoCallType, CallsStep
  <1> QED
    BY <1>1, <1>3

LEMMA Issued ==
  ASSUME AInv, NEW l \in Links, Issue(l)
  PROVE  /\ Fresh(l) /\ ~ Fresh(l)' /\ link' \in [Links -> {"unused", "good", "expired"}]
         /\ \A k \in Links : ~ Fresh(k) => ~ Fresh(k)'
  BY DEF Issue, Fresh, AInv, TypeOK

LEMMA FinishRegisterInv ==
  ASSUME AInv, NEW h \in Handlers, NEW l \in Links, FinishRegister(h, l) PROVE AInv'
  <1>1. PICK e \in Emails, p \in Passwords : e = call[h].email /\ p = call[h].password
    BY DEF FinishRegister, AInv, CallHolds
  <1>2. /\ ~ Registered(e)
        /\ Issue(l)
        /\ user' = [user EXCEPT ![e] = "inactive"]
        /\ password' = [password EXCEPT ![e] = p]
        /\ activation' = [activation EXCEPT ![e] = l]
        /\ wallet' = wallet \cup {e}
        /\ created' = [created EXCEPT ![e] = created[e] + 1]
        /\ Done(h)
        /\ UNCHANGED <<sessionVars, reset, newest, spent, crossed>>
    BY <1>1 DEF FinishRegister, EmailTaken
  <1>3. \A f \in Emails : (Registered(f)' <=> Registered(f) \/ f = e)
    BY <1>2 DEF Registered, AInv, TypeOK
  <1>4. TypeOK'
    BY <1>2, <1>3, CallDone, Issued DEF AInv, TypeOK, SessionTypeOK, sessionVars
  <1>5. ResetsHold'
    BY <1>2, <1>3, CallDone, Issued, ResetsStay
  <1>6. RegisteredOnce'
    BY <1>2, <1>3 DEF AInv, RegisteredOnce, TypeOK
  <1>7. ActivationsHold'
    BY <1>2, NoneAssumption DEF AInv, ActivationsHold, TypeOK
  <1> QED
    BY <1>2, <1>3, <1>4, <1>5, <1>6, <1>7, CallDone, Issued DEF AInv

LEMMA FinishActivateInv == ASSUME AInv, NEW h \in Handlers, FinishActivate(h) PROVE AInv'
  <1>1. PICK e \in Emails : e = call[h].email /\ Registered(e)
    BY DEF FinishActivate, AInv, CallHolds
  <1>2. /\ user' = [user EXCEPT ![e] = "active"]
        /\ activation' = [activation EXCEPT ![e] = NoLink]
        /\ Done(h)
        /\ UNCHANGED <<sessionVars, wallet, password, reset, link, created, newest,
                       spent, crossed>>
    BY <1>1 DEF FinishActivate
  <1>3. \A f \in Emails : Registered(f)' <=> Registered(f)
    BY <1>1, <1>2 DEF Registered, AInv, TypeOK
  <1>4. \A l \in Links : Fresh(l)' <=> Fresh(l)
    BY <1>2 DEF Fresh
  <1>5. TypeOK'
    BY <1>2, <1>3, <1>4, CallDone DEF AInv, TypeOK, SessionTypeOK, sessionVars
  <1>6. ResetsHold'
    BY <1>2, <1>3, <1>4, CallDone, ResetsStay
  <1>7. RegisteredOnce' /\ ActivationsHold'
    BY <1>2, <1>3 DEF AInv, RegisteredOnce, ActivationsHold, TypeOK
  <1> QED
    BY <1>2, <1>3, <1>4, <1>5, <1>6, <1>7, CallDone DEF AInv

LEMMA FinishResendInv ==
  ASSUME AInv, NEW h \in Handlers, NEW l \in Links, FinishResend(h, l) PROVE AInv'
  <1>1. PICK e \in Emails : e = call[h].email
    BY DEF FinishResend, AInv, CallHolds
  <1>2. /\ Issue(l)
        /\ activation' = [activation EXCEPT ![e] = l]
        /\ Done(h)
        /\ UNCHANGED <<sessionVars, user, wallet, password, reset, created, newest,
                       spent, crossed>>
    BY <1>1 DEF FinishResend
  <1>3. \A f \in Emails : Registered(f)' <=> Registered(f)
    BY <1>2 DEF Registered
  <1>4. TypeOK'
    BY <1>2, <1>3, CallDone, Issued DEF AInv, TypeOK, SessionTypeOK, sessionVars
  <1>5. ResetsHold'
    BY <1>2, <1>3, CallDone, Issued, ResetsStay
  <1>6. RegisteredOnce' /\ ActivationsHold'
    BY <1>2, <1>3, NoneAssumption DEF AInv, RegisteredOnce, ActivationsHold, TypeOK
  <1> QED
    BY <1>2, <1>3, <1>4, <1>5, <1>6, CallDone, Issued DEF AInv

(* A new reset link: it crosses the resets of the account in progress.     *)
LEMMA FinishForgotInv ==
  ASSUME AInv, NEW h \in Handlers, NEW l \in Links, FinishForgot(h, l) PROVE AInv'
  <1>1. PICK e \in Emails : e = call[h].email
    BY DEF FinishForgot, AInv, CallHolds
  <1>2. /\ Issue(l)
        /\ reset' = [reset EXCEPT ![e] = l]
        /\ newest' = [newest EXCEPT ![e] = l]
        /\ crossed' = IF Resets(e) = {} THEN crossed ELSE crossed \cup {l}
        /\ Done(h)
        /\ UNCHANGED <<sessionVars, user, wallet, password, activation, created, spent>>
    BY <1>1 DEF FinishForgot
  <1>3. \A f \in Emails : Registered(f)' <=> Registered(f)
    BY <1>2 DEF Registered
  <1>4. /\ crossed \subseteq crossed' /\ crossed' \subseteq Links
        /\ reset'[e] = l /\ newest'[e] = l
        /\ \A f \in Emails \ {e} : reset'[f] = reset[f] /\ newest'[f] = newest[f]
    BY <1>2 DEF AInv, TypeOK
  <1>5. TypeOK'
    BY <1>2, <1>3, <1>4, CallDone, Issued DEF AInv, TypeOK, SessionTypeOK, sessionVars
  <1>6. ASSUME NEW g \in Handlers, Resetting(g)' PROVE Resetting(g) /\ call'[g] = call[g]
    BY <1>2, <1>3, <1>6, CallDone, Issued DEF Resetting
  <1>7. ASSUME NEW g \in Handlers PROVE ResetHolds(g)'
    <2> SUFFICES ASSUME Resetting(g)' PROVE ResetHolds(g)'
      BY DEF ResetHolds
    <2>1. PICK f \in Emails, k \in Links : f = call[g].email /\ k = call[g].link /\ ~ Fresh(k)
      BY <1>6 DEF AInv, CallHolds, Resetting
    <2>2. call'[g].email = f /\ call'[g].link = k /\ Resetting(g)
      BY <1>6, <2>1
    <2>3. /\ newest[f] \in {NoLink, k} \cup crossed
          /\ k \notin crossed => spent[k] = 0
          /\ \A x \in Emails : reset[x] = k => x = f
      BY <2>1, <2>2 DEF AInv, ResetsHold, ResetHolds
    <2>4. k # l
      BY <1>2, <2>1, Issued
    <2>5. f = e => l \in crossed'
      BY <1>2, <2>1, <2>2 DEF Resets, Resetting
    <2>6. newest'[f] \in {NoLink, k} \cup crossed'
      BY <1>4, <2>3, <2>5
    <2>7. \A x \in Emails : reset'[x] = k => x = f
      BY <1>4, <2>3, <2>4
    <2> QED
      BY <1>2, <1>4, <2>2, <2>3, <2>6, <2>7 DEF ResetHolds
  <1>8. \A g, k \in Handlers : Resetting(g)' /\ Resetting(k)' /\ g # k =>
          /\ call'[g].link = call'[k].link => call'[g].email = call'[k].email
          /\ call'[g].email = call'[k].email =>
                call'[g].link \in crossed' /\ call'[k].link \in crossed'
    BY <1>4, <1>6 DEF AInv, ResetsHold
  <1>9. /\ \A f \in Emails : reset'[f] # NoLink => ~ Fresh(reset[f])'
        /\ \A f \in Emails \ {e} : reset[f] # l
        /\ spent[l] = 0
    <2>1. \A f \in Emails : reset[f] # NoLink => reset[f] \in Links /\ ~ Fresh(reset[f])
      BY DEF AInv, ResetsHold, TypeOK
    <2>2. Fresh(l) /\ \A k \in Links : ~ Fresh(k) => ~ Fresh(k)'
      BY <1>2, Issued
    <2>3. link'[l] # "unused"
      BY <1>2, Issued DEF Fresh
    <2>4. \A f \in Emails : reset'[f] # NoLink => ~ Fresh(reset[f])'
      BY <1>4, <2>1, <2>2, <2>3 DEF Fresh
    <2> QED
      BY <2>1, <2>2, <2>4, NoneAssumption DEF AInv, ResetsHold
  <1>10. \A k \in Links : spent'[k] # 0 => ~ Fresh(k)' /\ \A f \in Emails : reset'[f] # k
    BY <1>2, <1>4, <1>9, Issued DEF AInv, ResetsHold
  <1>11. ResetsHold'
    BY <1>2, <1>4, <1>7, <1>8, <1>9, <1>10 DEF AInv, ResetsHold
  <1>12. RegisteredOnce'
    BY <1>2, <1>3 DEF AInv, RegisteredOnce
  <1>13. ActivationsHold'
    BY <1>2 DEF AInv, ActivationsHold
  <1> QED
    BY <1>2, <1>3, <1>5, <1>11, <1>12, <1>13, CallDone, Issued DEF AInv

(* A password is reset: the link in the row goes, whichever it is.         *)
LEMMA FinishResetInv == ASSUME AInv, NEW h \in Handlers, FinishReset(h) PROVE AInv'
  <1>1. PICK e \in Emails, l \in Links, p \in Passwords :
          /\ e = call[h].email /\ l = call[h].link /\ p = call[h].password
          /\ ~ Fresh(l) /\ Resetting(h)
    BY DEF FinishReset, AInv, CallHolds, Resetting
  <1>2. /\ password' = [password EXCEPT ![e] = p]
        /\ reset' = [reset EXCEPT ![e] = NoLink]
        /\ newest' = [newest EXCEPT ![e] = IF newest[e] = l THEN NoLink ELSE newest[e]]
        /\ spent' = [spent EXCEPT ![l] = spent[l] + 1]
        /\ Done(h)
        /\ UNCHANGED <<sessionVars, user, wallet, activation, link, created, crossed>>
    BY <1>1 DEF FinishReset
  <1>3. \A f \in Emails : Registered(f)' <=> Registered(f)
    BY <1>2 DEF Registered
  <1>4. \A k \in Links : Fresh(k)' <=> Fresh(k)
    BY <1>2 DEF Fresh
  <1>5. /\ reset'[e] = NoLink /\ newest'[e] = (IF newest[e] = l THEN NoLink ELSE newest[e])
        /\ \A f \in Emails \ {e} : reset'[f] = reset[f] /\ newest'[f] = newest[f]
        /\ spent'[l] = spent[l] + 1 /\ \A k \in Links \ {l} : spent'[k] = spent[k]
        /\ spent[l] \in Nat
    BY <1>2 DEF AInv, TypeOK
  <1>6. TypeOK'
    BY <1>2, <1>3, <1>4, CallDone DEF AInv, TypeOK, SessionTypeOK, sessionVars
  <1>7. ASSUME NEW g \in Handlers, Resetting(g)'
        PROVE  Resetting(g) /\ call'[g] = call[g] /\ g # h
    BY <1>2, <1>3, <1>4, <1>7, CallDone DEF Resetting
  <1>8. /\ newest[e] \in {NoLink, l} \cup crossed
        /\ l \notin crossed => spent[l] = 0
        /\ \A x \in Emails : reset[x] = l => x = e
    BY <1>1 DEF AInv, ResetsHold, ResetHolds
  <1>9. ASSUME NEW g \in Handlers PROVE ResetHolds(g)'
    <2> SUFFICES ASSUME Resetting(g)' PROVE ResetHolds(g)'
      BY DEF ResetHolds
    <2>1. PICK f \in Emails, k \in Links : f = call[g].email /\ k = call[g].link
      BY <1>7 DEF AInv, CallHolds, Resetting
    <2>2. call'[g].email = f /\ call'[g].link = k /\ Resetting(g) /\ g # h
      BY <1>7, <2>1
    <2>3. /\ newest[f] \in {NoLink, k} \cup crossed
          /\ k \notin crossed => spent[k] = 0
          /\ \A x \in Emails : reset[x] = k => x = f
      BY <2>1, <2>2 DEF AInv, ResetsHold, ResetHolds
    <2>4. k = l => k \in crossed
      BY <1>1, <2>1, <2>2 DEF AInv, ResetsHold
    <2>5. newest'[f] \in {NoLink, k} \cup crossed'
      BY <1>2, <1>5, <2>3
    <2>6. \A x \in Emails : reset'[x] = k => x = f
      BY <1>5, <2>3, NoneAssumption
    <2> QED
      BY <1>2, <1>5, <2>2, <2>3, <2>4, <2>5, <2>6 DEF ResetHolds
  <1>10. \A g, k \in Handlers : Resetting(g)' /\ Resetting(k)' /\ g # k =>
          /\ call'[g].link = call'[k].link => call'[g].email = call'[k].email
          /\ call'[g].email = call'[k].email =>
                call'[g].link \in crossed' /\ call'[k].link \in crossed'
    BY <1>2, <1>7 DEF AInv, ResetsHold
  <1>11. \A f \in Emails : reset'[f] # NoLink => ~ Fresh(reset[f])'
    BY <1>2, <1>5 DEF AInv, ResetsHold, Fresh
  <1>12. \A k \in Links : spent'[k] # 0 => ~ Fresh(k)' /\ \A f \in Emails : reset'[f] # k
    <2>1. ASSUME NEW k \in Links \ {l}, spent'[k] # 0
          PROVE  ~ Fresh(k)' /\ \A f \in Emails : reset'[f] # k
      BY <1>4, <1>5, <2>1, NoneAssumption DEF AInv, ResetsHold
    <2>2. ~ Fresh(l)' /\ \A f \in Emails : reset'[f] # l
      BY <1>1, <1>4, <1>5, <1>8, NoneAssumption
    <2> QED
      BY <2>1, <2>2
  <1>13. \A k \in Links \ crossed' : spent'[k] <= 1
    BY <1>2, <1>5, <1>8 DEF AInv, ResetsHold
  <1>14. \A f \in Emails : newest'[f] # NoLink /\ newest'[f] \notin crossed' => reset'[f] = newest'[f]
    BY <1>2, <1>5, <1>8 DEF AInv, ResetsHold
  <1>15. \A f, x \in Emails : reset'[f] # NoLink /\ reset'[f] = reset'[x] => f = x
    BY <1>5 DEF AInv, ResetsHold
  <1>16. ResetsHold'
    BY <1>9, <1>10, <1>11, <1>12, <1>13, <1>14, <1>15 DEF ResetsHold
  <1>17. RegisteredOnce' /\ ActivationsHold'
    BY <1>2, AccountsStay
  <1> QED
    BY <1>2, <1>3, <1>4, <1>6, <1>16, <1>17, CallDone DEF AInv

LEMMA FinishChangeInv == ASSUME AInv, NEW h \in Handlers, FinishChange(h) PROVE AInv'
  <1>1. PICK e \in Emails, p \in Passwords : e = call[h].email /\ p = call[h].password
    BY DEF FinishChange, AInv, CallHolds
  <1>2. /\ password' = [password EXCEPT ![e] = p]
        /\ Done(h)
        /\ UNCHANGED <<sessionVars, user, wallet, activation, reset, link, created,
                       newest, spent, crossed>>
    BY <1>1 DEF FinishChange
  <1>3. \A f \in Emails : Registered(f)' <=> Registered(f)
    BY <1>2 DEF Registered
  <1>4. \A l \in Links : Fresh(l)' <=> Fresh(l)
    BY <1>2 DEF Fresh
  <1>5. TypeOK'
    BY <1>2, <1>3, <1>4, CallDone DEF AInv, TypeOK, SessionTypeOK, sessionVars
  <1>6. ResetsHold'
    BY <1>2, <1>3, <1>4, CallDone, ResetsStay
  <1> QED
    BY <1>2, <1>3, <1>4, <1>5, <1>6, CallDone, AccountsStay DEF AInv

LEMMA FinishLoginInv ==
  ASSUME SInv, AInv, NEW h \in Handlers, NEW t \in Tokens, FinishLogin(h, t) PROVE AInv'
  <1>1. /\ Done(h) /\ OpenSession(t)
        /\ UNCHANGED <<user, wallet, password, activation, reset, link, created, newest,
                       spent, crossed>>
    BY DEF FinishLogin
  <1>2. \A f \in Emails : Registered(f)' <=> Registered(f)
    BY <1>1 DEF Registered
  <1>3. \A l \in Links : Fresh(l)' <=> Fresh(l)
    BY <1>1 DEF Fresh
  <1>4. SessionTypeOK'
    BY <1>1, OpenSessionInv DEF SInv
  <1>5. TypeOK'
    BY <1>1, <1>2, <1>3, <1>4, CallDone DEF AInv, TypeOK
  <1>6. ResetsHold'
    BY <1>1, <1>2, <1>3, CallDone, ResetsStay
  <1> QED
    BY <1>1, <1>2, <1>3, <1>5, <1>6, CallDone, AccountsStay DEF AInv

LEMMA LoseCallInv == ASSUME AInv, NEW h \in Handlers, LoseCall(h) PROVE AInv'
  <1>1. /\ Done(h)
        /\ UNCHANGED <<sessionVars, user, wallet, password, activation, reset, link,
                       created, newest, spent, crossed>>
    BY DEF LoseCall
  <1>2. \A f \in Emails : Registered(f)' <=> Registered(f)
    BY <1>1 DEF Registered
  <1>3. \A l \in Links : Fresh(l)' <=> Fresh(l)
    BY <1>1 DEF Fresh
  <1>4. TypeOK'
    BY <1>1, <1>2, <1>3, CallDone DEF AInv, TypeOK, SessionTypeOK, sessionVars
  <1>5. ResetsHold'
    BY <1>1, <1>2, <1>3, CallDone, ResetsStay
  <1> QED
    BY <1>1, <1>2, <1>3, <1>4, <1>5, CallDone, AccountsStay DEF AInv

(* Neither a link that expires nor a session touches the accounts.         *)
LEMMA QuietInv ==
  ASSUME AInv, SessionTypeOK', link' \in [Links -> {"unused", "good", "expired"}],
         \A l \in Links : ~ Fresh(l) => ~ Fresh(l)',
         UNCHANGED <<user, wallet, password, activation, reset, call, created, newest,
                     spent, crossed>>
  PROVE  AInv'
  <1>1. TypeOK'
    BY DEF AInv, TypeOK
  <1>2. ResetsHold'
    BY ResetsStay
  <1>3. \A h \in Handlers : CallHolds(h)'
    BY DEF AInv, CallHolds, Fresh, Registered
  <1> QED
    BY <1>1, <1>2, <1>3, AccountsStay DEF AInv

LEMMA AccountStepInv ==
  ASSUME SInv, AInv, NEW h \in Handlers, AccountStep(h) PROVE AInv'
  <1>1. ASSUME NEW e \in Emails, NEW p \in Passwords, BeginRegister(h, e, p) \/ BeginLogin(h, e, p)
        PROVE  AInv'
    BY <1>1, AcceptInv DEF BeginRegister, BeginLogin
  <1>2. ASSUME NEW e \in Emails, BeginResend(h, e) \/ BeginForgot(h, e) PROVE AInv'
    BY <1>2, AcceptInv DEF BeginResend, BeginForgot
  <1>3. ASSUME NEW l \in Links, BeginActivate(h, l) PROVE AInv'
    <2>1. PICK e \in Emails : user[e] = "inactive" /\ Accept(h, "activate", e, l, NoPassword)
                              /\ UNCHANGED crossed
      BY <1>3 DEF BeginActivate, FindByActivationToken
    <2>2. Registered(e)
      BY <2>1 DEF Registered
    <2> QED
      BY <2>1, <2>2, AcceptInv
  <1>4. ASSUME NEW e \in Emails, NEW c \in Passwords, NEW p \in Passwords, BeginChange(h, e, c, p)
        PROVE  AInv'
    BY <1>4, AcceptInv DEF BeginChange
  <1> QED
    BY <1>1, <1>2, <1>3, <1>4, BeginResetInv, FinishRegisterInv, FinishActivateInv,
       FinishResendInv, FinishForgotInv, FinishResetInv, FinishChangeInv, FinishLoginInv,
       LoseCallInv DEF AccountStep

-----------------------------------------------------------------------------
(* Each step of an account is a step of its sessions, or none of theirs.   *)
LEMMA StepsOfSessions == [Next]_vars => [SessionNext]_sessionVars
  <1> SUFFICES ASSUME Next, sessionVars' # sessionVars PROVE SessionNext
    BY DEF vars, sessionVars
  <1>1. ASSUME NEW h \in Handlers, AccountStep(h) PROVE SessionNext
    <2>1. \E t \in Tokens : FinishLogin(h, t)
      BY <1>1 DEF AccountStep, BeginRegister, BeginLogin, BeginResend, BeginForgot,
         BeginActivate, BeginReset, BeginChange, Accept, FinishRegister, FinishResend,
         FinishForgot, FinishActivate, FinishReset, FinishChange, LoseCall
    <2> QED
      BY <2>1 DEF FinishLogin, SessionNext
  <1> QED
    BY <1>1 DEF Next, ExpireLink, SessionNext

LEMMA NextIInv == IInv /\ [Next]_vars => IInv'
  <1> SUFFICES ASSUME IInv, [Next]_vars PROVE AInv'
    BY StepsOfSessions, NextSInv DEF IInv
  <1>1. SInv /\ AInv /\ SInv'
    BY StepsOfSessions, NextSInv DEF IInv
  <1>2. CASE \E h \in Handlers : AccountStep(h)
    BY <1>1, <1>2, AccountStepInv
  <1>3. ASSUME NEW l \in Links, ExpireLink(l) PROVE AInv'
    <2>1. /\ link' \in [Links -> {"unused", "good", "expired"}]
          /\ \A k \in Links : ~ Fresh(k) => ~ Fresh(k)'
      BY <1>1, <1>3 DEF ExpireLink, AInv, TypeOK, Fresh
    <2>2. UNCHANGED <<user, wallet, password, activation, reset, call, created, newest,
                      spent, crossed>>
      BY <1>3 DEF ExpireLink
    <2> QED
      BY <1>1, <2>1, <2>2, QuietInv DEF SInv
  <1>4. CASE UNCHANGED accountVars
    <2>1. /\ link' = link
          /\ UNCHANGED <<user, wallet, password, activation, reset, call, created, newest,
                         spent, crossed>>
      BY <1>4 DEF accountVars
    <2>2. /\ link' \in [Links -> {"unused", "good", "expired"}]
          /\ \A k \in Links : ~ Fresh(k) => ~ Fresh(k)'
      BY <1>1, <2>1 DEF AInv, TypeOK, Fresh
    <2> QED
      BY <1>1, <2>1, <2>2, QuietInv DEF SInv
  <1> QED
    BY <1>2, <1>3, <1>4 DEF Next, vars

LEMMA Invariance == Spec => []IInv
  <1>1. Init => IInv
    BY InitSInv, InitAInv DEF Init, IInv
  <1> QED
    BY <1>1, NextIInv, PTL DEF Spec

(* The rows and the requests keep their types.                              *)
THEOREM TypeCorrect == Spec => []TypeOK
  <1>1. IInv => TypeOK
    BY DEF IInv, AInv
  <1> QED
    BY <1>1, Invariance, PTL

(* A session has one live refresh token at most, and none after a logout,  *)
(* but for the overlaps and the lost answers the property names.            *)
THEOREM OneLive == Spec => []OneLivePerSession
  <1>1. IInv => OneLivePerSession
    <2> SUFFICES ASSUME IInv, NEW s \in Tokens \ overlapped
                 PROVE  /\ \A t, u \in Live(s) : t = u
                        /\ s \in loggedOut \ unanswered => Live(s) = {}
      BY DEF OneLivePerSession
    <2>1. InTurn(s)
      BY DEF IInv, SInv
    <2>2. NoToken \notin Live(s)
      BY NoTokenAssumption DEF Live, Of
    <2> QED
      BY <2>1, <2>2 DEF InTurn
  <1> QED
    BY <1>1, Invariance, PTL

(* One registration of an email succeeds, and the account has its wallet.  *)
THEOREM Once == Spec => []RegisteredOnce
  <1>1. IInv => RegisteredOnce
    BY DEF IInv, AInv
  <1> QED
    BY <1>1, Invariance, PTL

(* But for links that were crossed (in use, or issued, during another      *)
(* reset of the same account): a reset link sets a password at most once,  *)
(* and the newest one is in the row until it is used.  And who is not      *)
(* active has an activation link.                                          *)
THEOREM LinksKept == Spec => []LinksHold
  <1>1. IInv => LinksHold
    BY DEF IInv, AInv, ResetsHold, ActivationsHold, LinksHold
  <1> QED
    BY <1>1, Invariance, PTL

=============================================================================
