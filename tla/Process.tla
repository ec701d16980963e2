------------------------------- MODULE Process -------------------------------
(***************************************************************************)
(* A server process from its start to its exit: it loads, connects to the  *)
(* database, listens, serves checkouts, and on SIGTERM or SIGINT drains:   *)
(* no new connection, and once the last one is closed the database is      *)
(* disconnected and the process exits with 0; ten seconds after the signal *)
(* it exits with 1, whatever is left to do.                                *)
(*                                                                         *)
(* A client has one connection, and sends one request on it at a time; a   *)
(* connection the server keeps alive may carry another one.  A client may  *)
(* drop its connection at any time: the handler of its request goes on,    *)
(* but the drain does not wait for it.                                     *)
(***************************************************************************)
EXTENDS Wiring, Gateway

VARIABLES
    phase,       \* what the process is doing
    db,          \* whether the database client is connected
    open,        \* clients with an open connection
    stopTimer,   \* whether the forced exit is due
    exit,        \* exit code
    cut          \* clients that waited for an answer when it exited

lifeVars == <<phase, db, open, stopTimer, exit, cut>>
vars == <<wiringVars, gatewayVars, lifeVars>>

Phases == {"loading", "connecting", "probing", "listening", "deaf", "draining",
           "disconnecting", "exited"}
NoExit == 99
Killed == 143

Busy == {c \in Clients : call[c].pc # "idle"}

Init ==
    /\ WiringInit
    /\ GatewayInit
    /\ phase = "loading"
    /\ db = FALSE
    /\ open = {}
    /\ stopTimer = FALSE
    /\ exit = NoExit
    /\ cut = {}

(* What the process kept in memory is gone with it.                        *)
Exit(code) ==
    /\ phase' = "exited"
    /\ exit' = code
    /\ cut' = Busy \cap open
    /\ db' = FALSE
    /\ open' = {}
    /\ stopTimer' = FALSE
    /\ call' = [c \in Clients |-> NoCall]
    /\ promise' = NoClient
    /\ cached' = NoToken
    /\ UNCHANGED wiringVars

-----------------------------------------------------------------------------
(* The start.                                                               *)

LoadModules ==
    /\ phase = "loading"
    /\ Load
    /\ UNCHANGED <<gatewayVars, lifeVars>>

bootstrap ==
    /\ phase = "loading" /\ AllWired
    /\ phase' = "connecting"
    /\ UNCHANGED <<wiringVars, gatewayVars, db, open, stopTimer, exit, cut>>

Connect ==
    /\ phase = "connecting"
    /\ phase' = "probing"
    /\ db' = TRUE
    /\ UNCHANGED <<wiringVars, gatewayVars, open, stopTimer, exit, cut>>

(* SELECT 1, then the port, and the handlers of the signals.               *)
Listen ==
    /\ phase = "probing"
    /\ phase' = "listening"
    /\ UNCHANGED <<wiringVars, gatewayVars, db, open, stopTimer, exit, cut>>

(* No database.                                                             *)
FailToStart ==
    /\ phase \in {"connecting", "probing"}
    /\ Exit(1)

(* The port is taken: Express hands the error to the callback of listen,   *)
(* which takes no argument.  The process runs on without a server, until   *)
(* the idle connections to the database are closed and nothing is left.    *)
PortTaken ==
    /\ phase = "probing"
    /\ phase' = "deaf"
    /\ UNCHANGED <<wiringVars, gatewayVars, db, open, stopTimer, exit, cut>>
RunDry ==
    /\ phase = "deaf"
    /\ Exit(0)

(* A signal nobody handles yet; or the one nobody can handle, which the    *)
(* process manager sends when the stop takes too long for it.              *)
Kill ==
    /\ phase # "exited"
    /\ Exit(Killed)

-----------------------------------------------------------------------------
(* Requests.                                                                *)

OpenConnection(c) ==
    /\ phase = "listening"
    /\ c \notin open \cup Busy
    /\ open' = open \cup {c}
    /\ UNCHANGED <<wiringVars, gatewayVars, phase, db, stopTimer, exit, cut>>

CloseConnection(c) ==
    /\ c \in open
    /\ open' = open \ {c}
    /\ UNCHANGED <<wiringVars, gatewayVars, phase, db, stopTimer, exit, cut>>

Request(c) ==
    /\ c \in open
    /\ createCheckout(c, gateway)
    /\ UNCHANGED <<wiringVars, lifeVars>>

Finish(c) == Answered(c) /\ Become(c, NoCall)
Respond(c) ==
    /\ Finish(c)
    /\ UNCHANGED <<wiringVars, promise, cached, lifeVars>>

Serve(c) == (Proceed(c) \/ BodyEnds(c)) /\ UNCHANGED <<wiringVars, lifeVars>>
Running == phase # "exited"
Outside ==
    /\ Running
    /\ \/ \E c \in Clients : BankStep(c) \/ SnapAnswers(c)
       \/ Tick
    /\ UNCHANGED <<wiringVars, lifeVars>>

-----------------------------------------------------------------------------
(* The stop.                                                                *)

(* server.close() closes the connections that are idle.  Without a server  *)
(* it calls back at once, with an error nobody looks at.                   *)
CloseAtOnce ==
    /\ phase \in {"listening", "deaf"}
    /\ phase' = "disconnecting"
    /\ stopTimer' = TRUE
    /\ open' = open \cap Busy
    /\ UNCHANGED <<wiringVars, gatewayVars, db, exit, cut>>
gracefulShutdown ==
    /\ phase \in {"listening", "deaf"}
    /\ phase' = "draining"
    /\ stopTimer' = TRUE
    /\ open' = open \cap Busy
    /\ UNCHANGED <<wiringVars, gatewayVars, db, exit, cut>>

CloseServer ==
    /\ phase = "draining"
    /\ open = {}
    /\ phase' = "disconnecting"
    /\ UNCHANGED <<wiringVars, gatewayVars, db, open, stopTimer, exit, cut>>

Disconnect ==
    /\ phase = "disconnecting"
    /\ \E code \in {0, 1} : Exit(code)

ForceExit ==
    /\ stopTimer
    /\ Exit(1)

Start == LoadModules \/ bootstrap \/ Connect \/ Listen
Stop == CloseServer \/ Disconnect \/ ForceExit
ClientStep(c) == OpenConnection(c) \/ CloseConnection(c) \/ Request(c)

Next ==
    \/ Start \/ FailToStart \/ PortTaken \/ RunDry \/ Kill
    \/ gracefulShutdown \/ Stop
    \/ Running /\ \E c \in Clients : ClientStep(c) \/ Serve(c) \/ Respond(c)
    \/ Outside

(* What a call does by itself, its timers and its answer included, is done *)
(* sooner or later; clients, operators and the bank are free, the bank also*)
(* never to end the body of an answer.                                     *)
Spec ==
    /\ Init /\ [][Next]_vars
    /\ \A c \in Clients : WF_call(Running /\ (Proceed(c) \/ Finish(c)))

-----------------------------------------------------------------------------

TypeOK ==
    /\ kept \subseteq Components /\ stack \in Seq(Components)
    /\ wired \in 0 .. Len(BootOrder)
    /\ GatewayTypeOK
    /\ phase \in Phases
    /\ db \in BOOLEAN /\ stopTimer \in BOOLEAN
    /\ open \subseteq Clients /\ cut \subseteq Clients
    /\ exit \in {NoExit, 0, 1, Killed}

(* No getter is entered again while it runs, whichever gateway is chosen:  *)
(* the getters call each other, and a cycle among them is a stack overflow *)
(* at the start, or at the first use in a test that builds only a part.    *)
(* And what the routers hold, and all it was built from, is one instance   *)
(* of each component: the checkout, its two webhook processors and the     *)
(* cron job see the same objects.                                          *)
BuiltOnce ==
    /\ \A i, j \in DOMAIN stack : stack[i] = stack[j] => i = j
    /\ rebuilt = {}
    /\ phase \notin {"loading", "exited"} => ToSet(BootOrder) \subseteq kept

(* A request whose client waits for the answer is served with the database *)
(* connected and the routers complete, from the first one to the last one  *)
(* of the drain; and exit code 0 says that no client was left waiting.  A  *)
(* client that has dropped its connection is not waited for: what its      *)
(* request still had to do may be cut off with code 0.                     *)
DrainLosesNothing ==
    /\ Busy \cap open # {} => db /\ AllWired /\ phase \in {"listening", "draining"}
    /\ exit = 0 => cut = {}

(* The call reads the body of an answer, or waits for the one that does:   *)
(* nothing but the bank can end that.                                      *)
AwaitsBody(c) ==
    \/ call[c].pc \in {"reading", "receiving"}
    \/ call[c].pc = "waiting" /\ \E b \in Clients : b = promise /\ call[b].pc = "reading"

(* A checkout through Bank Mega is answered, whatever the bank does with   *)
(* its requests, unless the process exits before, or the bank sends the    *)
(* headers of an answer and never ends its body: the one thing that has no *)
(* timer, and whose reader, with all who wait for its token, hangs.        *)
CheckoutEnds ==
    \A c \in Clients :
        \/ []<>(call[c].pc = "idle" \/ phase = "exited" \/ gateway # "megabank")
        \/ <>[]AwaitsBody(c)
=============================================================================
