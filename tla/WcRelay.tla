------------------------------ MODULE WcRelay ------------------------------
(* One session of the relay between a dashboard and a mobile wallet: a slot per
   role, held by a WebSocket.  A socket that has begun to close still holds its
   slot; its close event, which clears the slot of its role and drops a session
   whose two slots are clear, comes later.  Forwarding a message changes no state
   of the relay, and is left out; so are the limits on sessions, which concern
   their number only. *)
EXTENDS Naturals, FiniteSets

CONSTANTS Role, Socket, RoleOf

VARIABLES
    session,   \* the session is in the map
    expired,   \* its thirty minutes are over
    slot,      \* the socket of each role, if any
    state,     \* each socket: "new", "open", "closing", "closed"
    takeover   \* a socket was accepted beside one of its role that was closing

vars == <<session, expired, slot, state, takeover>>

Nobody == "nobody"
States == {"new", "open", "closing", "closed"}

Init ==
    /\ session = TRUE /\ expired = FALSE
    /\ slot = [r \in Role |-> Nobody]
    /\ state = [s \in Socket |-> "new"]
    /\ takeover = FALSE

Occupied(r) == slot[r] # Nobody /\ state[slot[r]] = "open"

Accept(s) ==
    /\ session /\ state[s] = "new"
    /\ ~Occupied(RoleOf[s])
    /\ state' = [state EXCEPT ![s] = "open"]
    /\ slot' = [slot EXCEPT ![RoleOf[s]] = s]
    /\ takeover' = (takeover \/ \E t \in Socket : RoleOf[t] = RoleOf[s] /\ state[t] = "closing")
    /\ UNCHANGED <<session, expired>>

\* 4409, 4404, or the socket destroyed before the upgrade.
Refuse(s) ==
    /\ state[s] = "new"
    /\ ~session \/ Occupied(RoleOf[s])
    /\ state' = [state EXCEPT ![s] = "closed"]
    /\ UNCHANGED <<session, expired, slot, takeover>>

\* A close frame, or a connection that is lost.
Hangup(s) ==
    /\ state[s] = "open"
    /\ state' = [state EXCEPT ![s] = "closing"]
    /\ UNCHANGED <<session, expired, slot, takeover>>

\* Mutant: the session goes with either peer.
CleanupEither(s) ==
    /\ state[s] = "closing"
    /\ state' = [state EXCEPT ![s] = "closed"]
    /\ slot' = [slot EXCEPT ![RoleOf[s]] = Nobody]
    /\ session' = (session /\ \A r \in Role : slot'[r] # Nobody)
    /\ UNCHANGED <<expired, takeover>>

\* The close event.
Cleanup(s) ==
    /\ state[s] = "closing"
    /\ state' = [state EXCEPT ![s] = "closed"]
    /\ slot' = [slot EXCEPT ![RoleOf[s]] = Nobody]
    /\ session' = (session /\ \E r \in Role : slot'[r] # Nobody)
    /\ UNCHANGED <<expired, takeover>>

Expire ==
    /\ ~expired /\ expired' = TRUE
    /\ UNCHANGED <<session, slot, state, takeover>>

\* The sockets in the slots are closed, and the session goes at once.
Gc ==
    /\ session /\ expired
    /\ state' = [s \in Socket |-> IF s = slot[RoleOf[s]] /\ state[s] = "open"
                                  THEN "closing" ELSE state[s]]
    /\ session' = FALSE
    /\ UNCHANGED <<expired, slot, takeover>>

Next ==
    \/ Expire \/ Gc
    \/ \E s \in Socket : Accept(s) \/ Refuse(s) \/ Hangup(s) \/ Cleanup(s)

Spec == Init /\ [][Next]_vars

-----------------------------------------------------------------------------
Open(r) == {s \in Socket : RoleOf[s] = r /\ state[s] = "open"}

\* A role has one open socket, and it is the one that gets its messages, whatever
\* connections, hang-ups, late close events and expiry interleave.  The exception
\* is a role that was taken over while its old socket was closing: the close event
\* clears the slot of the successor (connection, cleanup).
OnePerRole == ~takeover => \A r \in Role : Open(r) \subseteq {slot[r]}

\* A session stays as long as a peer is connected, and no peer stays connected to a
\* session that is gone (cleanup, gc), with the same exception.
ConnectedIsKnown == ~takeover => \A s \in Socket : state[s] = "open" => session
=============================================================================
