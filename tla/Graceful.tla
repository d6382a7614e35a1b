------------------------------- MODULE Graceful -------------------------------
(* Server.Serve of package graceful, which main runs: the accept loop of        *)
(* net/http, the manager of the open connections, the goroutine that waits for  *)
(* a signal, and the timer.  The channels add, remove, shutdown and done are     *)
(* unbuffered, so a communication is one step of both sides; kill is closed.     *)
EXTENDS FiniteSets

CONSTANTS
    Conns,   \* the connections clients may open
    Limited  \* srv.Timeout > 0; main gives ten seconds

ASSUME LimitedAssumption == Limited \in BOOLEAN
ASSUME ConnsAssumption == IsFiniteSet(Conns)

VARIABLES
    conn,       \* each connection and its goroutine
    listening,  \* is the listener open?
    keepAlive,  \* may a connection idle after a request?
    signal,     \* the interrupt goroutine: "none", "caught", or "over"
    serve,      \* Serve: "accept", "adding", "stopped", "waiting" or "returned"
    manager,    \* the manager: "select", "ending" (sends on done) or "gone"
    asked,      \* has the manager received from shutdown? (done # nil)
    managed,    \* srv.connections
    killed      \* is kill closed?

vars == <<conn, listening, keepAlive, signal, serve, manager, asked, managed, killed>>

\* A connection that has been accepted and is not through with its goroutine.
Served == {"idle", "busy", "broken", "leaving"}

Init ==
    /\ conn = [c \in Conns |-> "none"]
    /\ listening = TRUE
    /\ keepAlive = TRUE
    /\ signal = "none"
    /\ serve = "accept"
    /\ manager = "select"
    /\ asked = FALSE
    /\ managed = {}
    /\ killed = FALSE

Become(c, state) == conn' = [conn EXCEPT ![c] = state]

-----------------------------------------------------------------------------
(* The accept loop.                                                           *)

\* Wrong: the callback runs in the goroutine of the connection.
AcceptUnadded(c) ==
    /\ serve = "accept"
    /\ listening
    /\ conn[c] = "none"
    /\ Become(c, "idle")
    /\ UNCHANGED <<listening, keepAlive, signal, serve, manager, asked, managed, killed>>

(* Accept returns a connection, and ConnState is called with StateNew. *)
Accept(c) ==
    /\ serve = "accept"
    /\ listening
    /\ conn[c] = "none"
    /\ Become(c, "adding")
    /\ serve' = "adding"
    /\ UNCHANGED <<listening, keepAlive, signal, manager, asked, managed, killed>>

(* add <- conn meets the manager; only then the connection gets its goroutine. *)
Add(c) ==
    /\ conn[c] = "adding"
    /\ manager = "select"
    /\ managed' = managed \cup {c}
    /\ Become(c, "idle")
    /\ serve' = "accept"
    /\ UNCHANGED <<listening, keepAlive, signal, manager, asked, killed>>

(* Accept fails on a closed listener, and http.Server.Serve returns. *)
AcceptFails ==
    /\ serve = "accept"
    /\ ~listening
    /\ serve' = "stopped"
    /\ UNCHANGED <<conn, listening, keepAlive, signal, manager, asked, managed, killed>>

(* The listener breaks for good, without a signal. *)
ListenerBreaks ==
    /\ listening
    /\ listening' = FALSE
    /\ UNCHANGED <<conn, keepAlive, signal, serve, manager, asked, managed, killed>>

-----------------------------------------------------------------------------
(* The connections.                                                           *)

Request(c) ==
    /\ conn[c] = "idle"
    /\ Become(c, "busy")
    /\ UNCHANGED <<listening, keepAlive, signal, serve, manager, asked, managed, killed>>

(* A request has been answered; the connection is kept or closed. *)
Respond(c) ==
    /\ conn[c] = "busy"
    /\ \/ keepAlive /\ Become(c, "idle")
       \/ Become(c, "leaving")
    /\ UNCHANGED <<listening, keepAlive, signal, serve, manager, asked, managed, killed>>

(* The client closes an idle connection, or the manager closed it. *)
Close(c) ==
    /\ conn[c] \in {"idle", "broken"}
    /\ Become(c, "leaving")
    /\ UNCHANGED <<listening, keepAlive, signal, serve, manager, asked, managed, killed>>

\* Wrong: the manager stops whenever there are no connections.
RemoveUnasked(c) ==
    /\ conn[c] = "leaving"
    /\ manager = "select"
    /\ managed' = managed \ {c}
    /\ Become(c, "gone")
    /\ manager' = IF managed' = {} THEN "ending" ELSE "select"
    /\ UNCHANGED <<listening, keepAlive, signal, serve, asked, killed>>

\* Wrong: the manager is told of the last connection only.
RemoveLast(c) ==
    /\ conn[c] = "leaving"
    /\ manager = "select"
    /\ managed' = managed \ {c}
    /\ Become(c, "gone")
    /\ manager' = IF asked THEN "ending" ELSE "select"
    /\ UNCHANGED <<listening, keepAlive, signal, serve, asked, killed>>

(* ConnState with StateClosed: remove <- conn meets the manager. *)
Remove(c) ==
    /\ conn[c] = "leaving"
    /\ manager = "select"
    /\ managed' = managed \ {c}
    /\ Become(c, "gone")
    /\ manager' = IF asked /\ managed' = {} THEN "ending" ELSE "select"
    /\ UNCHANGED <<listening, keepAlive, signal, serve, asked, killed>>

-----------------------------------------------------------------------------
(* The end.                                                                   *)

(* SIGINT or SIGTERM: no connection is kept alive any more. *)
Interrupt ==
    /\ signal = "none"
    /\ signal' = "caught"
    /\ keepAlive' = FALSE
    /\ UNCHANGED <<conn, listening, serve, manager, asked, managed, killed>>

(* listener.Close(), and the interrupt goroutine is through. *)
CloseListener ==
    /\ signal = "caught"
    /\ signal' = "over"
    /\ listening' = FALSE
    /\ UNCHANGED <<conn, keepAlive, serve, manager, asked, managed, killed>>

\* Wrong: the manager waits for a last connection even if there is none.
ShutdownUnchecked ==
    /\ serve = "stopped"
    /\ manager = "select"
    /\ asked' = TRUE
    /\ serve' = "waiting"
    /\ UNCHANGED <<conn, listening, keepAlive, signal, manager, managed, killed>>

(* shutdown <- done meets the manager. *)
Shutdown ==
    /\ serve = "stopped"
    /\ manager = "select"
    /\ asked' = TRUE
    /\ manager' = IF managed = {} THEN "ending" ELSE "select"
    /\ serve' = "waiting"
    /\ UNCHANGED <<conn, listening, keepAlive, signal, managed, killed>>

(* done <- struct{}{} meets Serve, which returns. *)
Done ==
    /\ serve = "waiting"
    /\ manager = "ending"
    /\ serve' = "returned"
    /\ manager' = "gone"
    /\ UNCHANGED <<conn, listening, keepAlive, signal, asked, managed, killed>>

(* time.After(srv.Timeout) comes first: Serve closes kill and returns. *)
Timeout ==
    /\ Limited
    /\ serve = "waiting"
    /\ serve' = "returned"
    /\ killed' = TRUE
    /\ UNCHANGED <<conn, listening, keepAlive, signal, manager, asked, managed>>

(* The manager sees kill closed: it closes what is open and is gone. *)
Kill ==
    /\ killed
    /\ manager = "select"
    /\ conn' = [c \in Conns |-> IF c \in managed /\ conn[c] \in {"idle", "busy"}
                                THEN "broken" ELSE conn[c]]
    /\ manager' = "gone"
    /\ UNCHANGED <<listening, keepAlive, signal, serve, asked, managed, killed>>

-----------------------------------------------------------------------------
\* The steps of the goroutine that runs Serve, but for the timer's.
Server == AcceptFails \/ Shutdown \/ Done \/ \E c \in Conns : Add(c)

Next ==
    \/ \E c \in Conns : \/ Accept(c) \/ Add(c) \/ Request(c) \/ Respond(c)
                        \/ Close(c) \/ Remove(c)
    \/ AcceptFails \/ ListenerBreaks
    \/ Interrupt \/ CloseListener
    \/ Shutdown \/ Done \/ Timeout \/ Kill

(* Goroutines that can run do.  Nothing makes a client leave, a request end, or *)
(* a signal come; that the timer expires is left to the property.             *)
Spec ==
    /\ Init
    /\ [][Next]_vars
    /\ WF_vars(Server)
    /\ WF_vars(CloseListener)
    /\ \A c \in Conns : WF_vars(Remove(c))

-----------------------------------------------------------------------------
(* Properties.                                                                *)

\* The shape of the variables of graceful.go:159-248 and of a connection.
TypeOK ==
    /\ conn \in [Conns -> {"none", "adding", "gone"} \cup Served]
    /\ listening \in BOOLEAN
    /\ keepAlive \in BOOLEAN
    /\ signal \in {"none", "caught", "over"}
    /\ serve \in {"accept", "adding", "stopped", "waiting", "returned"}
    /\ manager \in {"select", "ending", "gone"}
    /\ asked \in BOOLEAN
    /\ managed \subseteq Conns
    /\ killed \in BOOLEAN

\* The manager knows exactly the connections that are being served, although it
\* hears of them in the order the channels are received from (graceful.go:164-192).
ManagedAreServed == manager = "select" => managed = {c \in Conns : conn[c] \in Served}

\* When Serve returns, and main with it, before the timeout, no connection that was
\* accepted is left: no request is cut off and no answer is lost, also if the
\* listener was closed while a connection was being accepted (graceful.go:228-242).
NothingIsCut ==
    serve = "returned" /\ ~killed => \A c \in Conns : conn[c] \in {"none", "gone"}

\* After a signal Serve returns: when the timer expires, and without a timer when
\* every connection goes away, even if the last one goes away while Serve asks for
\* the shutdown (graceful.go:187-197).
ServeReturns ==
    /\ <>(signal # "none")
    /\ \/ Limited /\ WF_vars(Timeout)
       \/ \A c \in Conns : <>[](conn[c] \notin {"idle", "busy"})
    => <>(serve = "returned")

-----------------------------------------------------------------------------
(* The inductive invariant behind ManagedAreServed and NothingIsCut.            *)

NobodyLeft == \A c \in Conns : conn[c] \in {"none", "gone"}

\* Where Serve is says what the manager can have seen.
ServeInv ==
    /\ serve \in {"accept", "adding", "stopped"} => manager = "select" /\ ~asked /\ ~killed
    /\ serve = "waiting" => ~killed /\ manager # "gone"
    /\ killed => serve = "returned"
    /\ serve = "returned" => killed \/ manager = "gone"

\* One connection at a time is being added, by Serve itself.
AddingInv ==
    \A c \in Conns : conn[c] = "adding" =>
        /\ serve = "adding"
        /\ \A d \in Conns : conn[d] = "adding" => d = c

ManagerInv ==
    /\ manager = "ending" => NobodyLeft
    /\ manager = "gone" => killed \/ NobodyLeft

GracefulInv ==
    /\ TypeOK
    /\ ManagedAreServed
    /\ ServeInv
    /\ AddingInv
    /\ ManagerInv
=============================================================================
