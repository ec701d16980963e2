------------------------------- MODULE Accounts -------------------------------
(***************************************************************************)
(* Accounts of clinic owners: registration, activation and password reset  *)
(* by links sent by mail, change of password, login into a session.        *)
(*                                                                         *)
(* Every operation reads the account's row, decides, and later (it hashes  *)
(* a password meanwhile, or awaits the database) writes columns of the row *)
(* by its id; only the registration is a transaction.                      *)
(***************************************************************************)
EXTENDS Sessions, FiniteSets

CONSTANTS
    Emails,      \* one account can exist for each
    Passwords,
    NoPassword,
    Links,       \* activation and reset tokens that can be issued
    NoLink,
    NoEmail

ASSUME NoneAssumption ==
    NoPassword \notin Passwords /\ NoLink \notin Links /\ NoEmail \notin Emails

VARIABLES
    user,        \* "absent", "inactive" or "active"
    wallet,      \* accounts that have a wallet
    password,    \* password_hash of each
    activation,  \* activation_token of each
    reset,       \* reset_token of each, as sent: the row has its hash
    link,        \* "unused", then "good" or "expired"
    call,        \* the requests in progress
    created,     \* how many registrations were answered 201
    newest,      \* the last reset link issued for each account, until it is spent
    spent,       \* reset links that have set a password, and how often
    crossed      \* reset links that were in use, or issued, during the reset of
                 \* the same account by another request

accountVars ==
    <<user, wallet, password, activation, reset, link, call, created, newest,
      spent, crossed>>
vars == <<sessionVars, accountVars>>

Calls ==
    [op : {"none", "register", "activate", "resend", "forgot", "reset", "change", "login"},
     email : Emails \cup {NoEmail}, link : Links \cup {NoLink},
     password : Passwords \cup {NoPassword}]
NoCall == [op |-> "none", email |-> NoEmail, link |-> NoLink, password |-> NoPassword]

Free(h) == call[h] = NoCall /\ exch[h].pc = "idle"
Registered(e) == user[e] # "absent"
Resets(e) == {h \in Handlers : call[h].op = "reset" /\ call[h].email = e}
Fresh(l) == link[l] = "unused"

Init ==
    /\ SessionInit
    /\ user = [e \in Emails |-> "absent"]
    /\ wallet = {}
    /\ password = [e \in Emails |-> NoPassword]
    /\ activation = [e \in Emails |-> NoLink]
    /\ reset = [e \in Emails |-> NoLink]
    /\ link = [l \in Links |-> "unused"]
    /\ call = [h \in Handlers |-> NoCall]
    /\ created = [e \in Emails |-> 0]
    /\ newest = [e \in Emails |-> NoLink]
    /\ spent = [l \in Links |-> 0]
    /\ crossed = {}

-----------------------------------------------------------------------------
(* First step: the row is read and the request refused, or not.            *)

FindByEmail(e) == Registered(e)
FindByActivationToken(l) == {e \in Emails : activation[e] = l}
FindByResetToken(l) == {e \in Emails : reset[e] = l}

Accept(h, op, e, l, p) ==
    /\ Free(h)
    /\ call' = [call EXCEPT ![h] = [op |-> op, email |-> e, link |-> l, password |-> p]]
    /\ UNCHANGED <<sessionVars, user, wallet, password, activation, reset, link,
                   created, newest, spent>>

BeginRegister(h, e, p) ==
    /\ ~ FindByEmail(e)
    /\ Accept(h, "register", e, NoLink, p)
    /\ UNCHANGED crossed

BeginActivate(h, l) ==
    /\ link[l] = "good"
    /\ \E e \in FindByActivationToken(l) :
          user[e] = "inactive" /\ Accept(h, "activate", e, l, NoPassword)
    /\ UNCHANGED crossed

BeginResend(h, e) ==
    /\ FindByEmail(e) /\ user[e] = "inactive"
    /\ Accept(h, "resend", e, NoLink, NoPassword)
    /\ UNCHANGED crossed

BeginForgot(h, e) ==
    /\ FindByEmail(e)
    /\ Accept(h, "forgot", e, NoLink, NoPassword)
    /\ UNCHANGED crossed

BeginReset(h, l, p) ==
    /\ link[l] = "good"
    /\ \E e \in FindByResetToken(l) :
          /\ Accept(h, "reset", e, l, p)
          /\ crossed' = IF Resets(e) = {} THEN crossed
                        ELSE crossed \cup {l} \cup {call[b].link : b \in Resets(e)}

(* Authenticated: the account is active, somebody logged in with it before. *)
BeginChange(h, e, current, p) ==
    /\ user[e] = "active" /\ \E t \in Tokens : token[t] # "none"
    /\ password[e] = current
    /\ p # current
    /\ Accept(h, "change", e, NoLink, p)
    /\ UNCHANGED crossed

BeginLogin(h, e, p) ==
    /\ FindByEmail(e) /\ password[e] = p
    /\ user[e] = "active"
    /\ Accept(h, "login", e, NoLink, NoPassword)
    /\ UNCHANGED crossed

-----------------------------------------------------------------------------
(* Second step: what it writes.                                             *)

Done(h) == call' = [call EXCEPT ![h] = NoCall]
Issue(l) == Fresh(l) /\ link' = [link EXCEPT ![l] = "good"]

(* The transaction of register: the account, inactive, with its link, and  *)
(* its wallet, in the active currency.  The unique email, or the absence   *)
(* of an active currency, undoes it.                                       *)
EmailIsTaken(e) == FALSE
EmailTaken(e) == Registered(e)
FinishRegister(h, l) ==
    LET e == call[h].email IN
    /\ call[h].op = "register"
    /\ ~ EmailTaken(e)
    /\ Issue(l)
    /\ user' = [user EXCEPT ![e] = "inactive"]
    /\ password' = [password EXCEPT ![e] = call[h].password]
    /\ activation' = [activation EXCEPT ![e] = l]
    /\ wallet' = wallet \cup {e}
    /\ created' = [created EXCEPT ![e] = created[e] + 1]
    /\ Done(h)
    /\ UNCHANGED <<sessionVars, reset, newest, spent, crossed>>

FinishActivate(h) ==
    LET e == call[h].email IN
    /\ call[h].op = "activate"
    /\ user' = [user EXCEPT ![e] = "active"]
    /\ activation' = [activation EXCEPT ![e] = NoLink]
    /\ Done(h)
    /\ UNCHANGED <<sessionVars, wallet, password, reset, link, created, newest,
                   spent, crossed>>

FinishResend(h, l) ==
    /\ call[h].op = "resend"
    /\ Issue(l)
    /\ activation' = [activation EXCEPT ![call[h].email] = l]
    /\ Done(h)
    /\ UNCHANGED <<sessionVars, user, wallet, password, reset, created, newest,
                   spent, crossed>>

(* The link, then the mail; when the mail fails the answer says so and the *)
(* link stays.                                                              *)
FinishForgot(h, l) ==
    LET e == call[h].email IN
    /\ call[h].op = "forgot"
    /\ Issue(l)
    /\ reset' = [reset EXCEPT ![e] = l]
    /\ newest' = [newest EXCEPT ![e] = l]
    /\ crossed' = IF Resets(e) = {} THEN crossed ELSE crossed \cup {l}
    /\ Done(h)
    /\ UNCHANGED <<sessionVars, user, wallet, password, activation, created, spent>>

FinishReset(h) ==
    LET e == call[h].email IN
    /\ call[h].op = "reset"
    /\ password' = [password EXCEPT ![e] = call[h].password]
    /\ reset' = [reset EXCEPT ![e] = NoLink]
    /\ newest' = [newest EXCEPT ![e] =
          IF newest[e] = call[h].link THEN NoLink ELSE newest[e]]
    /\ spent' = [spent EXCEPT ![call[h].link] = spent[call[h].link] + 1]
    /\ Done(h)
    /\ UNCHANGED <<sessionVars, user, wallet, activation, link, created, crossed>>

ChangeClearsReset(h) ==
    LET e == call[h].email IN
    /\ call[h].op = "change"
    /\ password' = [password EXCEPT ![e] = call[h].password]
    /\ reset' = [reset EXCEPT ![e] = NoLink]
    /\ Done(h)
    /\ UNCHANGED <<sessionVars, user, wallet, activation, link, created,
                   newest, spent, crossed>>
FinishChange(h) ==
    /\ call[h].op = "change"
    /\ password' = [password EXCEPT ![call[h].email] = call[h].password]
    /\ Done(h)
    /\ UNCHANGED <<sessionVars, user, wallet, activation, reset, link, created,
                   newest, spent, crossed>>

FinishLogin(h, t) ==
    /\ call[h].op = "login"
    /\ OpenSession(t)
    /\ Done(h)
    /\ UNCHANGED <<user, wallet, password, activation, reset, link, created,
                   newest, spent, crossed>>

(* Cut off, or refused by the database: nothing is written.                *)
LoseCall(h) ==
    /\ call[h] # NoCall
    /\ Done(h)
    /\ UNCHANGED <<sessionVars, user, wallet, password, activation, reset, link,
                   created, newest, spent, crossed>>

(* A day after an activation link, an hour after a reset link.             *)
ExpireLink(l) ==
    /\ link[l] = "good"
    /\ link' = [link EXCEPT ![l] = "expired"]
    /\ UNCHANGED <<sessionVars, user, wallet, password, activation, reset, call,
                   created, newest, spent, crossed>>

AccountStep(h) ==
    \/ \E e \in Emails, p \in Passwords : BeginRegister(h, e, p) \/ BeginLogin(h, e, p)
    \/ \E e \in Emails : BeginResend(h, e) \/ BeginForgot(h, e)
    \/ \E l \in Links : BeginActivate(h, l) \/ \E p \in Passwords : BeginReset(h, l, p)
    \/ \E e \in Emails, c, p \in Passwords : BeginChange(h, e, c, p)
    \/ \E l \in Links : FinishRegister(h, l) \/ FinishResend(h, l) \/ FinishForgot(h, l)
    \/ FinishActivate(h) \/ FinishReset(h) \/ FinishChange(h)
    \/ \E t \in Tokens : FinishLogin(h, t)
    \/ LoseCall(h)

Next ==
    \/ \E h \in Handlers : AccountStep(h)
    \/ \E h \in Handlers : call[h] = NoCall /\ HandlerStep(h) /\ UNCHANGED accountVars
    \/ BrowserStep /\ UNCHANGED accountVars
    \/ \E l \in Links : ExpireLink(l)

Spec == Init /\ [][Next]_vars

-----------------------------------------------------------------------------

TypeOK ==
    /\ SessionTypeOK
    /\ user \in [Emails -> {"absent", "inactive", "active"}]
    /\ wallet \subseteq Emails
    /\ password \in [Emails -> Passwords \cup {NoPassword}]
    /\ activation \in [Emails -> Links \cup {NoLink}]
    /\ reset \in [Emails -> Links \cup {NoLink}]
    /\ link \in [Links -> {"unused", "good", "expired"}]
    /\ call \in [Handlers -> Calls]
    /\ created \in [Emails -> Nat]
    /\ newest \in [Emails -> Links \cup {NoLink}]
    /\ spent \in [Links -> Nat]
    /\ crossed \subseteq Links

(* Of the registrations of one email that run at once one is answered 201, *)
(* and the account has its wallet, however the others end: purchases and   *)
(* refunds take the wallet for granted.                                    *)
RegisteredOnce ==
    \A e \in Emails :
        /\ created[e] = (IF Registered(e) THEN 1 ELSE 0)
        /\ e \in wallet <=> Registered(e)

(* A reset link sets a password once, unless two requests used it at once. *)
(* The newest link the owner was sent is the one in the row, until it is   *)
(* used: no other operation on the account, whatever it read before, takes *)
(* it away.  A reset that was in progress when it was issued does.  And an *)
(* account that is not active yet always has an activation link.           *)
LinksHold ==
    /\ \A l \in Links \ crossed : spent[l] <= 1
    /\ \A e \in Emails :
          /\ newest[e] # NoLink /\ newest[e] \notin crossed => reset[e] = newest[e]
          /\ user[e] = "inactive" => activation[e] # NoLink
=============================================================================
