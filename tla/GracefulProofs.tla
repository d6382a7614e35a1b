---------------------------- MODULE GracefulProofs ----------------------------
(* The manager's set is the connections that are served, and Serve returns      *)
(* before its timeout only when none is left, for every set of connections.     *)
EXTENDS Graceful, TLAPS

\* Before srv.Server.Serve runs there is no connection (graceful.go:159-211).
LEMMA GracefulInit == Init => GracefulInv
  BY LimitedAssumption
     DEF Init, GracefulInv, TypeOK, Served, ManagedAreServed, ServeInv, AddingInv,
         ManagerInv, NobodyLeft

\* StateNew of a connection: only Serve itself accepts, so it is the only one.
LEMMA AcceptStep ==
    ASSUME GracefulInv, NEW c \in Conns, Accept(c)
    PROVE  GracefulInv'
  <1> USE DEF Accept, Become
  <1>1. TypeOK'
    BY DEF GracefulInv, TypeOK, Served
  <1>2. \A d \in Conns : conn'[d] = IF d = c THEN "adding" ELSE conn[d]
    BY DEF GracefulInv, TypeOK
  <1>3. ManagedAreServed'
    BY <1>2 DEF GracefulInv, ManagedAreServed, Served
  <1>4. ServeInv'
    BY DEF GracefulInv, ServeInv
  <1>5. AddingInv'
    BY <1>2 DEF GracefulInv, AddingInv
  <1>6. ManagerInv'
    BY DEF GracefulInv, ServeInv, ManagerInv
  <1> QED
    BY <1>1, <1>3, <1>4, <1>5, <1>6 DEF GracefulInv

\* add <- conn: the manager knows the connection before its goroutine starts.
LEMMA AddStep ==
    ASSUME GracefulInv, NEW c \in Conns, Add(c)
    PROVE  GracefulInv'
  <1> USE DEF Add, Become
  <1>1. TypeOK'
    BY DEF GracefulInv, TypeOK, Served
  <1>2. \A d \in Conns : conn'[d] = IF d = c THEN "idle" ELSE conn[d]
    BY DEF GracefulInv, TypeOK
  <1>3. ManagedAreServed'
    BY <1>2 DEF GracefulInv, ManagedAreServed, Served
  <1>4. ServeInv'
    BY DEF GracefulInv, ServeInv, AddingInv
  <1>5. AddingInv'
    BY <1>2 DEF GracefulInv, AddingInv
  <1>6. ManagerInv'
    BY DEF ManagerInv
  <1> QED
    BY <1>1, <1>3, <1>4, <1>5, <1>6 DEF GracefulInv

\* The end of the listener: no connection is being added when Accept fails.
LEMMA ListenerStep ==
    ASSUME GracefulInv, AcceptFails \/ ListenerBreaks \/ Interrupt \/ CloseListener
    PROVE  GracefulInv'
  <1>1. /\ UNCHANGED <<conn, manager, asked, managed, killed>>
        /\ serve' = serve \/ (serve = "accept" /\ serve' = "stopped")
    BY DEF AcceptFails, ListenerBreaks, Interrupt, CloseListener
  <1>2. TypeOK'
    BY DEF AcceptFails, ListenerBreaks, Interrupt, CloseListener, GracefulInv, TypeOK
  <1>3. ManagedAreServed'
    BY <1>1 DEF GracefulInv, ManagedAreServed
  <1>4. ServeInv'
    BY <1>1 DEF GracefulInv, ServeInv
  <1>5. AddingInv'
    BY <1>1 DEF GracefulInv, AddingInv
  <1>6. ManagerInv'
    BY <1>1 DEF GracefulInv, ManagerInv, NobodyLeft
  <1> QED
    BY <1>2, <1>3, <1>4, <1>5, <1>6 DEF GracefulInv

\* A connection that is served stays served, whatever it does.
LEMMA ConnectionStep ==
    ASSUME GracefulInv, NEW c \in Conns, Request(c) \/ Respond(c) \/ Close(c)
    PROVE  GracefulInv'
  <1>1. /\ UNCHANGED <<listening, keepAlive, signal, serve, manager, asked, managed, killed>>
        /\ conn[c] \in {"idle", "busy", "broken"}
        /\ \E s \in {"idle", "busy", "leaving"} : conn' = [conn EXCEPT ![c] = s]
    BY DEF Request, Respond, Close, Become
  <1>2. TypeOK'
    BY <1>1 DEF GracefulInv, TypeOK, Served
  <1>3. /\ \A d \in Conns : d # c => conn'[d] = conn[d]
        /\ conn'[c] \in {"idle", "busy", "leaving"}
    BY <1>1 DEF GracefulInv, TypeOK
  <1>4. ManagedAreServed'
    BY <1>1, <1>3 DEF GracefulInv, ManagedAreServed, Served
  <1>5. ServeInv'
    BY <1>1 DEF GracefulInv, ServeInv
  <1>6. AddingInv'
    BY <1>1, <1>3 DEF GracefulInv, AddingInv
  <1>7. ManagerInv'
    BY <1>1 DEF GracefulInv, ManagerInv, NobodyLeft
  <1> QED
    BY <1>2, <1>4, <1>5, <1>6, <1>7 DEF GracefulInv

\* remove <- conn: the manager ends on the last connection, and not before the
\* listener is closed, so no connection is being added then.
LEMMA RemoveStep ==
    ASSUME GracefulInv, NEW c \in Conns, Remove(c)
    PROVE  GracefulInv'
  <1> USE DEF Remove, Become
  <1>1. TypeOK'
    BY DEF GracefulInv, TypeOK, Served
  <1>2. \A d \in Conns : conn'[d] = IF d = c THEN "gone" ELSE conn[d]
    BY DEF GracefulInv, TypeOK
  <1>3. managed' = {d \in Conns : conn'[d] \in Served}
    BY <1>2 DEF GracefulInv, ManagedAreServed, Served
  <1>4. ServeInv'
    BY DEF GracefulInv, ServeInv
  <1>5. AddingInv'
    BY <1>2 DEF GracefulInv, AddingInv
  <1>6. ASSUME manager' = "ending" PROVE NobodyLeft'
    <2>1. asked /\ managed' = {}
      BY <1>6
    <2>2. \A d \in Conns : conn[d] # "adding"
      BY <2>1 DEF GracefulInv, AddingInv, ServeInv
    <2>3. \A d \in Conns : conn'[d] \notin Served /\ conn'[d] # "adding"
      BY <1>2, <1>3, <2>1, <2>2
    <2> QED
      BY <1>1, <2>3 DEF TypeOK, NobodyLeft
  <1>7. ManagedAreServed' /\ ManagerInv'
    BY <1>3, <1>6 DEF ManagedAreServed, ManagerInv
  <1> QED
    BY <1>1, <1>4, <1>5, <1>7 DEF GracefulInv

\* shutdown <- done: the manager ends at once if it knows of no connection.
LEMMA ShutdownStep ==
    ASSUME GracefulInv, Shutdown
    PROVE  GracefulInv'
  <1> USE DEF Shutdown
  <1>1. TypeOK'
    BY DEF GracefulInv, TypeOK
  <1>2. ManagedAreServed' /\ AddingInv' /\ ServeInv'
    BY DEF GracefulInv, ManagedAreServed, AddingInv, ServeInv
  <1>3. ASSUME manager' = "ending" PROVE NobodyLeft'
    <2>1. \A c \in Conns : conn[c] \notin Served /\ conn[c] # "adding"
      BY <1>3 DEF GracefulInv, ManagedAreServed, AddingInv
    <2> QED
      BY <1>1, <2>1 DEF TypeOK, NobodyLeft
  <1>4. ManagerInv'
    BY <1>3 DEF ManagerInv
  <1> QED
    BY <1>1, <1>2, <1>4 DEF GracefulInv

\* The two ways in which the select of Serve ends.
LEMMA ReturnStep ==
    ASSUME GracefulInv, Done \/ Timeout
    PROVE  GracefulInv'
  <1>1. /\ UNCHANGED <<conn, listening, keepAlive, signal, asked, managed>>
        /\ serve = "waiting" /\ serve' = "returned"
        /\ \/ manager = "ending" /\ manager' = "gone" /\ killed' = killed
           \/ manager' = manager /\ killed' = TRUE
    BY DEF Done, Timeout
  <1>2. TypeOK'
    BY <1>1 DEF GracefulInv, TypeOK
  <1>3. ManagedAreServed' /\ AddingInv'
    BY <1>1 DEF GracefulInv, ManagedAreServed, AddingInv
  <1>4. ServeInv'
    BY <1>1 DEF GracefulInv, ServeInv
  <1>5. ManagerInv'
    BY <1>1 DEF GracefulInv, ManagerInv, NobodyLeft
  <1> QED
    BY <1>2, <1>3, <1>4, <1>5 DEF GracefulInv

\* close(kill): the manager breaks what is open and is gone.
LEMMA KillStep ==
    ASSUME GracefulInv, Kill
    PROVE  GracefulInv'
  <1> USE DEF Kill
  <1>1. \A c \in Conns :
           \/ conn'[c] = conn[c]
           \/ conn'[c] = "broken" /\ conn[c] \in {"idle", "busy"}
    OBVIOUS
  <1>2. TypeOK'
    BY <1>1 DEF GracefulInv, TypeOK, Served
  <1>3. ManagedAreServed' /\ ServeInv' /\ ManagerInv'
    BY DEF GracefulInv, ManagedAreServed, ServeInv, ManagerInv
  <1>4. AddingInv'
    BY <1>1 DEF GracefulInv, AddingInv
  <1> QED
    BY <1>2, <1>3, <1>4 DEF GracefulInv

-----------------------------------------------------------------------------
\* Whatever connections, signals and the timer do, the invariant of Serve and the
\* manager (graceful.go:159-248) holds.
THEOREM ShutdownInvariant == Spec => []GracefulInv
  <1>1. ASSUME GracefulInv, [Next]_vars PROVE GracefulInv'
    <2>1. CASE UNCHANGED vars
      BY <1>1, <2>1
         DEF vars, GracefulInv, TypeOK, ManagedAreServed, ServeInv, AddingInv,
             ManagerInv, NobodyLeft
    <2>2. CASE Next
      BY <1>1, <2>2, AcceptStep, AddStep, ListenerStep, ConnectionStep, RemoveStep,
         ShutdownStep, ReturnStep, KillStep
         DEF Next
    <2> QED
      BY <1>1, <2>1, <2>2
  <1> QED
    BY GracefulInit, <1>1, PTL DEF Spec

\* The manager's map holds exactly the connections that are being served
\* (graceful.go:164-192).
THEOREM ManagerKnowsTheServed == Spec => []ManagedAreServed
  <1>1. GracefulInv => ManagedAreServed
    BY DEF GracefulInv
  <1> QED
    BY ShutdownInvariant, <1>1, PTL

\* Before the timeout, Serve returns only when no connection is left
\* (graceful.go:228-242).
THEOREM ReturnCutsNothing == Spec => []NothingIsCut
  <1>1. GracefulInv => NothingIsCut
    BY DEF GracefulInv, ServeInv, ManagerInv, NobodyLeft, NothingIsCut
  <1> QED
    BY ShutdownInvariant, <1>1, PTL
===============================================================================
