------------------------------- MODULE Sessions -------------------------------
(***************************************************************************)
(* Refresh tokens.  A login opens a session; the browser keeps its refresh *)
(* token in a cookie and exchanges it for the next one, and a logout       *)
(* revokes the one it holds.  An exchange is three statements without a    *)
(* transaction (find, revoke, create), then the answer that carries the    *)
(* cookie; requests of two tabs overlap, any of them may be cut off        *)
(* between two statements, and an answer may not reach the browser.        *)
(***************************************************************************)
EXTENDS Naturals

CONSTANTS
    Tokens,      \* refresh tokens that can be created (bounds the runs)
    Handlers,    \* requests that may be in progress at once
    NoToken      \* none

ASSUME NoTokenAssumption == NoToken \notin Tokens

VARIABLES
    token,       \* "none" before it is created, then "live", "expired", "revoked"
    session,     \* the session of each: the token its login created
    cookie,      \* what the browser of a session holds
    exch,        \* the exchanges in progress
    overlapped,  \* sessions of which two requests have overlapped
    unanswered,  \* sessions of which an answer was lost
    loggedOut    \* sessions that were logged out

sessionVars == <<token, session, cookie, exch, overlapped, unanswered, loggedOut>>

Exchanges ==
    [pc : {"idle", "revoking", "creating", "answering"},
     old : Tokens \cup {NoToken}, new : Tokens \cup {NoToken},
     session : Tokens \cup {NoToken}]
NoExchange == [pc |-> "idle", old |-> NoToken, new |-> NoToken, session |-> NoToken]

Of(s) == {t \in Tokens : session[t] = s}
Live(s) == {t \in Of(s) : token[t] = "live"}
InProgress(s) == {h \in Handlers : exch[h].pc # "idle" /\ exch[h].session = s}
Opened(s) == s \in Of(s)

SessionInit ==
    /\ token = [t \in Tokens |-> "none"]
    /\ session = [t \in Tokens |-> NoToken]
    /\ cookie = [t \in Tokens |-> NoToken]
    /\ exch = [h \in Handlers |-> NoExchange]
    /\ overlapped = {}
    /\ unanswered = {}
    /\ loggedOut = {}

-----------------------------------------------------------------------------

(* generateTokens: one more row of refresh_tokens, of the session s.        *)
GenerateTokens(t, s) ==
    /\ token[t] = "none"
    /\ token' = [token EXCEPT ![t] = "live"]
    /\ session' = [session EXCEPT ![t] = s]

(* A login that has proved its password, and its answer, with the cookie.  *)
OpenSession(t) ==
    /\ GenerateTokens(t, t)
    /\ cookie' = [cookie EXCEPT ![t] = t]
    /\ UNCHANGED <<exch, overlapped, unanswered, loggedOut>>

(* POST /refresh with the cookie: 401 unless its token is neither revoked  *)
(* nor expired.                                                             *)
Exchangeable(t) == token[t] = "live"
BeginExchange(h, s) ==
    /\ exch[h].pc = "idle"
    /\ cookie[s] # NoToken
    /\ Exchangeable(cookie[s])
    /\ exch' = [exch EXCEPT ![h] =
          [pc |-> "revoking", old |-> cookie[s], new |-> NoToken, session |-> s]]
    /\ overlapped' = IF InProgress(s) = {} THEN overlapped ELSE overlapped \cup {s}
    /\ UNCHANGED <<token, session, cookie, unanswered, loggedOut>>

KeepOld(h) ==
    /\ exch[h].pc = "revoking"
    /\ exch' = [exch EXCEPT ![h] = [exch[h] EXCEPT !.pc = "creating"]]
    /\ UNCHANGED <<token, session, cookie, overlapped, unanswered, loggedOut>>
RevokeOld(h) ==
    /\ exch[h].pc = "revoking"
    /\ token' = [token EXCEPT ![exch[h].old] = "revoked"]
    /\ exch' = [exch EXCEPT ![h] = [exch[h] EXCEPT !.pc = "creating"]]
    /\ UNCHANGED <<session, cookie, overlapped, unanswered, loggedOut>>

CreateNew(h, t) ==
    /\ exch[h].pc = "creating"
    /\ GenerateTokens(t, exch[h].session)
    /\ exch' = [exch EXCEPT ![h] = [exch[h] EXCEPT !.pc = "answering", !.new = t]]
    /\ UNCHANGED <<cookie, overlapped, unanswered, loggedOut>>

(* The browser stores what it is sent, after a logout too.                 *)
AnswerExchange(h) ==
    /\ exch[h].pc = "answering"
    /\ cookie' = [cookie EXCEPT ![exch[h].session] = exch[h].new]
    /\ exch' = [exch EXCEPT ![h] = NoExchange]
    /\ UNCHANGED <<token, session, overlapped, unanswered, loggedOut>>

(* The request is cut off, by a crash or an error, or its answer is lost.  *)
LoseExchange(h) ==
    /\ exch[h].pc # "idle"
    /\ unanswered' = unanswered \cup {exch[h].session}
    /\ exch' = [exch EXCEPT ![h] = NoExchange]
    /\ UNCHANGED <<token, session, cookie, overlapped, loggedOut>>

(* POST /logout: revokes what the cookie holds, and clears it.             *)
Logout(s) ==
    /\ cookie[s] # NoToken
    /\ token' = [token EXCEPT ![cookie[s]] = "revoked"]
    /\ cookie' = [cookie EXCEPT ![s] = NoToken]
    /\ loggedOut' = loggedOut \cup {s}
    /\ overlapped' = IF InProgress(s) = {} THEN overlapped ELSE overlapped \cup {s}
    /\ UNCHANGED <<session, exch, unanswered>>

(* Seven days.                                                              *)
ExpireToken(t) ==
    /\ token[t] = "live"
    /\ token' = [token EXCEPT ![t] = "expired"]
    /\ UNCHANGED <<session, cookie, exch, overlapped, unanswered, loggedOut>>

HandlerStep(h) ==
    \/ \E s \in Tokens : BeginExchange(h, s)
    \/ RevokeOld(h)
    \/ \E t \in Tokens : CreateNew(h, t)
    \/ AnswerExchange(h)
    \/ LoseExchange(h)
BrowserStep == \E s \in Tokens : Logout(s) \/ ExpireToken(s)

SessionNext ==
    \/ \E h \in Handlers : HandlerStep(h)
    \/ BrowserStep
    \/ \E t \in Tokens : OpenSession(t)
SessionSpec == SessionInit /\ [][SessionNext]_sessionVars

-----------------------------------------------------------------------------

SessionTypeOK ==
    /\ token \in [Tokens -> {"none", "live", "expired", "revoked"}]
    /\ session \in [Tokens -> Tokens \cup {NoToken}]
    /\ cookie \in [Tokens -> Tokens \cup {NoToken}]
    /\ exch \in [Handlers -> Exchanges]
    /\ overlapped \subseteq Tokens
    /\ unanswered \subseteq Tokens
    /\ loggedOut \subseteq Tokens

(* A session whose requests never overlapped has one usable refresh token  *)
(* at most, wherever its exchanges were cut off: a token that was exchanged *)
(* is dead, and nothing but the exchange makes another.  After a logout     *)
(* none is left, if moreover no answer to the browser was lost: what a      *)
(* logout revokes is the token the browser holds, which is then the last of *)
(* the session.                                                             *)
OneLivePerSession ==
    \A s \in Tokens \ overlapped :
        /\ \A t, u \in Live(s) : t = u
        /\ s \in loggedOut \ unanswered => Live(s) = {}
=============================================================================
