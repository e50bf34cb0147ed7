--------------------------- MODULE PeerConnection ---------------------------
(***************************************************************************)
(* connect_to_federate(id): the ADDRESS_QUERY loop against the RTI, then  *)
(* the connect loop to the peer's server with the P2P_SENDING_FED_ID      *)
(* handshake, and the outbound socket table entry it fills.               *)
(*                                                                         *)
(* Environment: the RTI answers -1 until the peer has sent its            *)
(* ADDRESS_AD; the address it gives is the peer's server ("peer") or a    *)
(* stale one where another federation's federate now listens ("wrong",   *)
(* which answers REJECT); the server accepts connections only once it is  *)
(* started.  One query or one connect-and-handshake is one step.          *)
(***************************************************************************)
EXTENDS Integers

CONSTANTS CONNECT_NUM_RETRIES

ASSUME CONNECT_NUM_RETRIES \in Nat

Ends == {"connected", "gave_up", "exit"}

\* The history counter of orphaned sockets saturates here.
OrphanCap == 2

VARIABLES
    advertised, target, accepting,   \* environment
    pc,            \* query | qsleep | connect | csleep | connected | gave_up | exit
    count_tries, count_retries,
    outbound,      \* _lf_federate_sockets_for_outbound_physical_connections[id]
    orphaned       \* history: sockets dropped from the table without close()

env == <<advertised, target, accepting>>
vars == <<env, pc, count_tries, count_retries, outbound, orphaned>>

Init ==
    /\ advertised \in BOOLEAN /\ target \in {"peer", "wrong"} /\ accepting \in BOOLEAN
    /\ pc = "query" /\ count_tries = 0 /\ count_retries = 0
    /\ outbound = "unset" /\ orphaned = 0

-----------------------------------------------------------------------------
(* The ADDRESS_QUERY loop.                                                 *)

\* ADDRESS_QUERY, then ADDRESS_REPLY: a port of -1 costs a try (exit once
\* count_tries++ reaches the budget) and a sleep; a known port ends the loop.
AddressQuery ==
    /\ pc = "query"
    /\ \/ /\ advertised
          /\ pc' = "connect" /\ UNCHANGED count_tries
       \/ /\ ~advertised
          /\ count_tries' = count_tries + 1
          /\ pc' = IF count_tries >= CONNECT_NUM_RETRIES THEN "exit" ELSE "qsleep"
    /\ UNCHANGED <<env, count_retries, outbound, orphaned>>

\* nanosleep(ADDRESS_QUERY_RETRY_INTERVAL), interrupted or not.
QuerySleep ==
    /\ pc = "qsleep" /\ pc' = "query"
    /\ UNCHANGED <<env, count_tries, count_retries, outbound, orphaned>>

-----------------------------------------------------------------------------
(* The connect loop.                                                       *)

\* Mutant: a failed connect is not counted.
ConnectFailed_no_count ==
    /\ UNCHANGED count_retries
    /\ pc' = IF count_retries + 1 > CONNECT_NUM_RETRIES THEN "gave_up" ELSE "csleep"

\* Mutant: the budget is tested before the failure is counted.
ConnectFailed_check_before_increment ==
    /\ count_retries' = count_retries + 1
    /\ pc' = IF count_retries > CONNECT_NUM_RETRIES THEN "gave_up" ELSE "csleep"

\* connect() failed: count it; past the budget return (a soft error),
\* otherwise sleep.
ConnectFailed ==
    /\ count_retries' = count_retries + 1
    /\ pc' = IF count_retries + 1 > CONNECT_NUM_RETRIES THEN "gave_up" ELSE "csleep"

\* connect() succeeded: P2P_SENDING_FED_ID and the federation id, then the
\* reply.  Anything but ACK: result = -1 and continue, with no retry
\* counted and the socket left open.
Handshake ==
    \/ /\ target = "peer"
       /\ pc' = "connected" /\ outbound' = "connected"
    \/ /\ target = "wrong"
       /\ outbound' = "unconnected" /\ UNCHANGED pc

\* One iteration: a new socket is stored in the outbound table (the one
\* there is neither closed nor kept), then connect().
ConnectAttempt ==
    /\ pc = "connect"
    /\ orphaned' = IF outbound = "unset" THEN orphaned
                   ELSE IF orphaned < OrphanCap THEN orphaned + 1 ELSE OrphanCap
    /\ \/ /\ ~accepting
          /\ outbound' = "unconnected"
          /\ ConnectFailed
       \/ /\ accepting
          /\ Handshake /\ UNCHANGED count_retries
    /\ UNCHANGED <<env, count_tries>>

\* nanosleep(ADDRESS_QUERY_RETRY_INTERVAL) between connects.
ConnectSleep ==
    /\ pc = "csleep" /\ pc' = "connect"
    /\ UNCHANGED <<env, count_tries, count_retries, outbound, orphaned>>

-----------------------------------------------------------------------------
(* Environment                                                             *)

\* The peer's create_server sends ADDRESS_AD to the RTI.
PeerAdvertises ==
    /\ ~advertised /\ advertised' = TRUE
    /\ UNCHANGED <<target, accepting, pc, count_tries, count_retries, outbound, orphaned>>

\* The server at the address starts accepting connections.
ServerStarts ==
    /\ ~accepting /\ accepting' = TRUE
    /\ UNCHANGED <<advertised, target, pc, count_tries, count_retries, outbound, orphaned>>

Returned == pc \in Ends /\ UNCHANGED vars

Next == AddressQuery \/ QuerySleep \/ ConnectAttempt \/ ConnectSleep
        \/ PeerAdvertises \/ ServerStarts \/ Returned

\* The federate's startup thread keeps running; the peer and the RTI may
\* be arbitrarily late.
Spec == Init /\ [][Next]_vars
             /\ WF_vars(AddressQuery \/ QuerySleep \/ ConnectAttempt \/ ConnectSleep)

-----------------------------------------------------------------------------
(* Properties                                                              *)

TypeOK ==
    /\ pc \in {"query", "qsleep", "connect", "csleep"} \cup Ends
    /\ count_tries \in 0..(CONNECT_NUM_RETRIES + 1)
    /\ count_retries \in 0..(CONNECT_NUM_RETRIES + 1)
    /\ outbound \in {"unset", "unconnected", "connected"}
    /\ orphaned \in 0..OrphanCap

\* When the RTI's address is the peer's, connect_to_federate returns or
\* exits whatever the timing of ADDRESS_AD and of the peer's server.
ConnectEndsAtPeer == target = "peer" => <>(pc \in Ends)

\* connect_to_federate always returns or exits (spec 4.4: "else close and
\* retry" within the retry budget).
ConnectEnds == <>(pc \in Ends)

\* When connect_to_federate returns, the outbound table holds a connected
\* socket for the peer (its comment: "If this fails, the program exits").
OutboundConnectedOnReturn ==
    pc \in {"connected", "gave_up"} => outbound = "connected"

\* Every socket connect_to_federate creates is either kept in the table
\* or closed.
NoSocketOrphaned == orphaned = 0

=============================================================================
