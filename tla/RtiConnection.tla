---------------------------- MODULE RtiConnection ----------------------------
(***************************************************************************)
(* Startup of a federate against a partly available directory: the port  *)
(* scan of connect_to_rti with its FED_ID handshake and retry budget,     *)
(* then the bind scan of create_server and its ADDRESS_AD.                *)
(*                                                                         *)
(* The environment fixes, per port, what listens there: nothing, a        *)
(* server that rejects the handshake as the wrong federation or server,   *)
(* one that rejects for another cause, or this federation's RTI, which    *)
(* may start late.  `taken` are the ports another process has bound.      *)
(* Every connect, write and read of one attempt is one step: the thread   *)
(* is alone on its socket.  A sleep, interrupted or not, is one step.     *)
(***************************************************************************)
EXTENDS Integers, FiniteSets

CONSTANTS
    STARTING_PORT, PORT_RANGE_LIMIT, CONNECT_NUM_RETRIES,
    RtiPortArg,      \* port argument of connect_to_rti (0: unspecified)
    ServerPortArg,   \* specified_port of create_server (0: unspecified)
    Extra            \* ports modelled beyond STARTING_PORT + PORT_RANGE_LIMIT

ASSUME /\ STARTING_PORT \in Nat \ {0} /\ PORT_RANGE_LIMIT \in Nat
       /\ CONNECT_NUM_RETRIES \in Nat /\ Extra \in Nat
       /\ RtiPortArg \in Nat /\ ServerPortArg \in Nat

\* The range the spec scans (4.4): STARTING_PORT .. STARTING_PORT + PORT_RANGE_LIMIT.
ScanRange == STARTING_PORT..(STARTING_PORT + PORT_RANGE_LIMIT)
Ports == STARTING_PORT..(STARTING_PORT + PORT_RANGE_LIMIT + Extra)
Servers == {"none", "wrong", "reject", "rti"}

VARIABLES
    server, taken, rti_up,            \* environment
    pc,                               \* connect | sleep | bind | listening | exit
    port, specific_port_given, count_retries,   \* connect_to_rti
    srv_port, advertised,             \* create_server: port tried, ADDRESS_AD sent
    tried, srv_tried, rti_up_in_pass  \* history

env == <<server, taken, rti_up>>
vars == <<env, pc, port, specific_port_given, count_retries, srv_port,
          advertised, tried, srv_tried, rti_up_in_pass>>

\* What listens on port p; ports outside the model have no server.
ServerAt(p) == IF p \in Ports THEN server[p] ELSE "none"

\* connect() succeeds when a server listens (the RTI only once started).
Listening(p) == ServerAt(p) \in {"wrong", "reject"} \/ (ServerAt(p) = "rti" /\ rti_up)

Init ==
    /\ server \in {f \in [Ports -> Servers] :
                     Cardinality({p \in Ports : f[p] = "rti"}) <= 1}
    /\ taken \in {T \in SUBSET Ports : \A p \in Ports : server[p] # "none" => p \in T}
    /\ rti_up \in BOOLEAN
    /\ pc = "connect"
    /\ port = IF RtiPortArg = 0 THEN STARTING_PORT ELSE RtiPortArg
    /\ specific_port_given = (RtiPortArg # 0)
    /\ count_retries = 0
    /\ srv_port = IF ServerPortArg = 0 THEN STARTING_PORT ELSE ServerPortArg
    /\ advertised = 0
    /\ tried = {} /\ srv_tried = {}
    /\ rti_up_in_pass = IF rti_up THEN 0 ELSE -1

-----------------------------------------------------------------------------
(* connect_to_rti                                                          *)

\* The port test of the scan: no specific port and port within the range.
Scanning == ~specific_port_given /\ port >= STARTING_PORT
                                 /\ port <= STARTING_PORT + PORT_RANGE_LIMIT

\* Mutant: the budget is tested before the failed pass is counted.
RetryOrGiveUp_check_before_increment ==
    /\ port' = IF ~specific_port_given /\ port = STARTING_PORT + PORT_RANGE_LIMIT + 1
               THEN STARTING_PORT ELSE port
    /\ count_retries' = count_retries + 1
    /\ pc' = IF count_retries > CONNECT_NUM_RETRIES THEN "exit" ELSE "sleep"

\* Mutant: a failed pass does not count against the retry budget.
RetryOrGiveUp_no_count ==
    /\ port' = IF ~specific_port_given /\ port = STARTING_PORT + PORT_RANGE_LIMIT + 1
               THEN STARTING_PORT ELSE port
    /\ UNCHANGED count_retries
    /\ pc' = IF count_retries + 1 > CONNECT_NUM_RETRIES THEN "exit" ELSE "sleep"

\* connect() failed outside the scan: wrap a scan that ran past the range
\* back to STARTING_PORT, count the retry, give up past the budget or sleep.
RetryOrGiveUp ==
    /\ port' = IF ~specific_port_given /\ port = STARTING_PORT + PORT_RANGE_LIMIT + 1
               THEN STARTING_PORT ELSE port
    /\ count_retries' = count_retries + 1
    /\ pc' = IF count_retries + 1 > CONNECT_NUM_RETRIES THEN "exit" ELSE "sleep"

\* connect() succeeded: FED_ID, then the reply.  A REJECT for the wrong
\* federation or server moves on to the next port (result = -1), another
\* REJECT exits, an ACK ends the loop.
Handshake ==
    \/ /\ ServerAt(port) = "wrong"
       /\ port' = port + 1 /\ UNCHANGED pc
    \/ /\ ServerAt(port) = "reject"
       /\ pc' = "exit" /\ UNCHANGED port
    \/ /\ ServerAt(port) = "rti"
       /\ pc' = "bind" /\ UNCHANGED port

\* One iteration of the loop: socket(), connect(), then the scan's next
\* port, a retry, or the handshake.
ConnectAttempt ==
    /\ pc = "connect"
    /\ tried' = tried \cup {port}
    /\ \/ /\ ~Listening(port) /\ Scanning
          /\ port' = port + 1 /\ UNCHANGED <<pc, count_retries>>
       \/ /\ ~Listening(port) /\ ~Scanning
          /\ RetryOrGiveUp
       \/ /\ Listening(port)
          /\ Handshake /\ UNCHANGED count_retries
    /\ UNCHANGED <<env, specific_port_given, srv_port, advertised, srv_tried, rti_up_in_pass>>

\* nanosleep(CONNECT_RETRY_INTERVAL); an interrupted sleep also retries.
RetrySleep ==
    /\ pc = "sleep" /\ pc' = "connect"
    /\ UNCHANGED <<env, port, specific_port_given, count_retries, srv_port,
                   advertised, tried, srv_tried, rti_up_in_pass>>

-----------------------------------------------------------------------------
(* create_server                                                           *)

\* One bind(): on success listen() and ADDRESS_AD(port) to the RTI; on
\* failure the next port while no port was specified and the port is in
\* the range, otherwise exit.
Bind ==
    /\ pc = "bind"
    /\ srv_tried' = srv_tried \cup {srv_port}
    /\ \/ /\ srv_port \notin taken
          /\ advertised' = srv_port /\ pc' = "listening"
          /\ UNCHANGED srv_port
       \/ /\ srv_port \in taken
          /\ ServerPortArg = 0
          /\ srv_port >= STARTING_PORT /\ srv_port <= STARTING_PORT + PORT_RANGE_LIMIT
          /\ srv_port' = srv_port + 1
          /\ UNCHANGED <<pc, advertised>>
       \/ /\ srv_port \in taken
          /\ ~(ServerPortArg = 0 /\ srv_port >= STARTING_PORT
                                 /\ srv_port <= STARTING_PORT + PORT_RANGE_LIMIT)
          /\ pc' = "exit" /\ UNCHANGED <<srv_port, advertised>>
    /\ UNCHANGED <<env, port, specific_port_given, count_retries, tried, rti_up_in_pass>>

-----------------------------------------------------------------------------
(* Environment                                                             *)

\* The RTI of this federation starts listening.
RtiStart ==
    /\ ~rti_up /\ rti_up' = TRUE
    /\ rti_up_in_pass' = count_retries
    /\ UNCHANGED <<server, taken, pc, port, specific_port_given, count_retries,
                   srv_port, advertised, tried, srv_tried>>

Stopped == pc \in {"listening", "exit"} /\ UNCHANGED vars

Next == ConnectAttempt \/ RetrySleep \/ Bind \/ RtiStart \/ Stopped

Spec == Init /\ [][Next]_vars /\ WF_vars(ConnectAttempt \/ RetrySleep \/ Bind)

-----------------------------------------------------------------------------
(* Properties                                                              *)

TypeOK ==
    /\ pc \in {"connect", "sleep", "bind", "listening", "exit"}
    /\ port \in Nat /\ count_retries \in 0..(CONNECT_NUM_RETRIES + 1)
    /\ srv_port \in Nat /\ advertised \in Nat /\ tried \subseteq Nat

\* The startup always ends, connected and listening or with an error,
\* whatever answers the ports give.
StartupEnds == <>(pc \in {"listening", "exit"})

\* Without a specified port, connect_to_rti only tries the ports
\* STARTING_PORT .. STARTING_PORT + PORT_RANGE_LIMIT (spec 4.4, 8).
ConnectPortsInRange == RtiPortArg = 0 => tried \subseteq ScanRange

\* Without a specified port, create_server only tries the ports
\* STARTING_PORT .. STARTING_PORT + PORT_RANGE_LIMIT (spec 4.4).
BindPortsInRange == ServerPortArg = 0 => srv_tried \subseteq ScanRange

\* If this federation's RTI listens on a port of the range from the first
\* pass of the scan on, and a retry is allowed, the federate leaves the
\* connect loop connected to it (whatever create_server does next).
ReachesRtiInRange ==
    [](( /\ RtiPortArg = 0 /\ CONNECT_NUM_RETRIES >= 1
         /\ \E p \in ScanRange : server[p] = "rti"
         /\ rti_up_in_pass = 0)
       => <>(pc \notin {"connect", "sleep"} /\ ServerAt(port) = "rti"))

=============================================================================
