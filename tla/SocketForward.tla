---------------------------- MODULE SocketForward ----------------------------
(***************************************************************************)
(* A WebSocket of a client that the orchestrator forwards to its server    *)
(* (forward_websocket of router/forwarding.py): the checks, the handshake, *)
(* and a relay of two tasks, one for each direction.  Of the messages only *)
(* what ends a task is modelled: what a peer does, a message that is not   *)
(* text, a heartbeat that the database does not take.                      *)
(***************************************************************************)
EXTENDS Integers

VARIABLES
  pcR,       \* where the handler is
  client,    \* the peer that called: open, or gone
  upstream,  \* the connection to the server: ended by it, or closed by us
  relay,     \* the two tasks of the relay
  closed     \* how the client's socket was closed: its code, or dropped without one

vars == <<pcR, client, upstream, relay, closed>>

Way == {"to server", "to client"}
Running == "running"
Failed == "failed"
Done == "done"
Cancelled == "cancelled"
NoRelay == [w \in Way |-> "none"]

Go(there) == pcR' = there
TaskEnds(w, how) == relay' = [relay EXCEPT ![w] = how]
\* Mutant: whatever is left of the relay is the garbage collector's.
ShutLeft == upstream
\* Leaving the connection's scope, and the finally of the task that sends to it.
Shut == IF upstream = "open" THEN "closed" ELSE upstream

-----------------------------------------------------------------------------
(* The handler.                                                            *)

\* validate_server: its HTTP error refuses the handshake.
Validate ==
  /\ pcR = "validate"
  /\ \/ Go("beat") /\ UNCHANGED closed
     \/ Go("end") /\ closed' = "refused"
  /\ UNCHANGED <<client, upstream, relay>>

\* The heartbeat after the handshake; the row may be gone, or the database.
Beat ==
  /\ pcR = "beat"
  /\ Go("connect") \/ Go("raise")
  /\ UNCHANGED <<client, upstream, relay, closed>>

Connect ==
  /\ pcR = "connect"
  /\ \/ /\ Go("relay") /\ upstream' = "open" /\ relay' = [w \in Way |-> Running]
     \/ Go("raise") /\ UNCHANGED <<upstream, relay>>
  /\ UNCHANGED <<client, closed>>

\* The first that ends; the other is cancelled.
FirstCompleted ==
  /\ pcR = "relay"
  /\ \E w \in Way : relay[w] # Running
  /\ relay' = [w \in Way |-> IF relay[w] = Running THEN "cancelling" ELSE relay[w]]
  /\ Go("gather")
  /\ UNCHANGED <<client, upstream, closed>>

\* The exceptions of those that ended on their own; those of the cancelled are lost.
Gathered ==
  /\ pcR = "gather"
  /\ \A w \in Way : relay[w] \in {Done, Failed, Cancelled}
  /\ Go(IF \E w \in Way : relay[w] = Failed THEN "raise" ELSE "close")
  /\ upstream' = Shut
  /\ UNCHANGED <<client, relay, closed>>

\* Mutant: uvicorn is trusted with the close frame.
FarewellNone == closed
\* "Uvicorn does not send a close frame automatically": only we do, to who is there.
Farewell == IF client = "open" THEN "1000" ELSE closed

Close ==
  /\ pcR = "close" /\ Go("end")
  /\ closed' = Farewell
  /\ UNCHANGED <<client, upstream, relay>>

\* The route has the bare function: it was registered before it was wrapped
\* (handle_websocket_exceptions is the outer decorator), so that nobody closes the
\* socket with a code, and the server drops the connection.
Raises ==
  /\ pcR = "raise" /\ Go("end")
  /\ closed' = IF client = "open" THEN "dropped" ELSE closed
  /\ UNCHANGED <<client, upstream, relay>>

-----------------------------------------------------------------------------
(* The tasks.                                                              *)

\* Messages are forwarded until a peer is gone; the client's are text, or an error.
ClientReader ==
  /\ relay["to server"] = Running
  /\ \/ (client = "gone" \/ upstream # "open") /\ TaskEnds("to server", Done)
     \/ client = "open" /\ TaskEnds("to server", Failed)
  /\ upstream' = Shut
  /\ UNCHANGED <<pcR, client, closed>>

\* A message needs the client, and the heartbeat after it the database.
UpstreamReader ==
  /\ relay["to client"] = Running
  /\ \/ (client = "gone" \/ upstream # "open") /\ TaskEnds("to client", Done)
     \/ upstream = "open" /\ TaskEnds("to client", Failed)
  /\ UNCHANGED <<pcR, client, upstream, closed>>

CancelReaches(w) ==
  /\ relay[w] = "cancelling"
  /\ TaskEnds(w, Cancelled)
  /\ upstream' = IF w = "to server" THEN Shut ELSE upstream
  /\ UNCHANGED <<pcR, client, closed>>

-----------------------------------------------------------------------------
(* The peers.                                                              *)

ClientGoes ==
  /\ client = "open" /\ closed = "none" /\ client' = "gone"
  /\ UNCHANGED <<pcR, upstream, relay, closed>>

ServerEnds ==
  /\ upstream = "open" /\ upstream' = "ended"
  /\ UNCHANGED <<pcR, client, relay, closed>>

Init ==
  /\ pcR = "validate" /\ client = "open" /\ upstream = "none"
  /\ relay = NoRelay /\ closed = "none"

Handler == Validate \/ Beat \/ Connect \/ FirstCompleted \/ Gathered \/ Close \/ Raises
Tasks == ClientReader \/ UpstreamReader \/ \E w \in Way : CancelReaches(w)
Next == Handler \/ Tasks \/ ClientGoes \/ ServerEnds

\* The loop runs what is ready; a reader is, once a peer is gone.
ReadersEnd ==
  \/ ClientReader /\ (client = "gone" \/ upstream # "open")
  \/ UpstreamReader /\ upstream # "open"
  \/ \E w \in Way : CancelReaches(w)
Fairness == WF_vars(Handler) /\ WF_vars(ReadersEnd)

Spec == Init /\ [][Next]_vars
FairSpec == Spec /\ Fairness

-----------------------------------------------------------------------------
TypeOK ==
  /\ pcR \in {"validate", "beat", "connect", "relay", "gather", "close", "raise", "end"}
  /\ client \in {"open", "gone"} /\ upstream \in {"none", "open", "ended", "closed"}
  /\ relay \in [Way -> {"none", Running, Failed, Done, "cancelling", Cancelled}]
  /\ closed \in {"none", "refused", "1000", "dropped"}

(* A forwarding that is over has let go of both peers: no task reads any   *)
(* more, the connection to the server is shut, and a client that is still  *)
(* there does not "hang indefinitely"; and it is told that all is well     *)
(* only when it was the server that ended (forward_websocket).             *)
BothReleased ==
  pcR = "end" =>
    /\ \A w \in Way : relay[w] \notin {Running, "cancelling"}
    /\ upstream # "open"
    /\ client = "open" => closed # "none"
    /\ closed = "1000" => upstream = "ended"

(* A relay ends as soon as one of the peers is gone.                       *)
RelayEnds == (pcR = "relay" /\ (client = "gone" \/ upstream = "ended")) ~> (pcR = "end")

-----------------------------------------------------------------------------
(* What the source says of this code, and the code does not do:            *)
(* "Unexpected exceptions close the socket with the given error code"      *)
(* (handle_websocket_exceptions).                                          *)
FailureClosesWithCode == closed # "dropped"
=============================================================================
