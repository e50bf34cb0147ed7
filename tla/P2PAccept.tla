------------------------------ MODULE P2PAccept ------------------------------
(***************************************************************************)
(* The inbound side of physical connections: the accept thread            *)
(* handle_p2p_connections_from_federates, the listen_to_federates reader  *)
(* it starts for each peer, and the inbound socket table they share.      *)
(*                                                                         *)
(* File descriptors are numbers: accept() and socket() return the lowest  *)
(* free one, close() frees it, and a number may then denote a new         *)
(* connection.  fd_conn maps each number to the connection it currently   *)
(* denotes.  Each connection carries, after its handshake, a stream of    *)
(* message type bytes: a P2P_TIMED_MESSAGE, an unrecognized type, or the  *)
(* end of stream.  The peers' side (connect_to_federate, send, exit) and  *)
(* stray clients that do not speak the protocol are the environment.      *)
(* One accept with its handshake reads and reply is one step; one read of *)
(* a type byte with its handling is one step.                             *)
(***************************************************************************)
EXTENDS Integers, Sequences, FiniteSets, FiniteSetsExt

CONSTANTS
    Peers,           \* federates with a physical connection to this one
    Strays,          \* clients whose first message is not P2P_SENDING_FED_ID
    BadPeers,        \* peers that may send an unrecognized message type
    AcceptFailures,  \* whether accept() may fail
    MaxMsgs,         \* bound on P2P_TIMED_MESSAGEs per peer
    FDs              \* descriptor numbers available to the process

ASSUME /\ BadPeers \subseteq Peers /\ Peers \cap Strays = {}
       /\ AcceptFailures \in BOOLEAN /\ MaxMsgs \in Nat
       /\ FDs \subseteq Nat \ {0} /\ Cardinality(FDs) >= Cardinality(Peers) + 1

Clients == Peers \cup Strays
NoConn == "closed"
Bytes == {"TIMED", "BAD", "EOF"}

VARIABLES
    acc_pc,      \* accept | join | done | returned (accept thread)
    received,    \* received_federates
    slot,        \* _lf_federate_sockets_for_inbound_physical_connections
    reader,      \* per peer: none | starting | running | exited
    rfd,         \* per peer: socket_id read by its reader
    fd_conn,     \* what each descriptor number denotes
    backlog,     \* connections completed by TCP, not yet accepted
    started,     \* clients that have connected
    stream,      \* bytes a connection carries, not yet read
    sent, bad_sent, eof_sent   \* peers' history

peers == <<started, stream, sent, bad_sent, eof_sent>>
vars == <<acc_pc, received, slot, reader, rfd, fd_conn, backlog, peers>>

Init ==
    /\ acc_pc = "accept" /\ received = 0
    /\ slot = [p \in Peers |-> -1]
    /\ reader = [p \in Peers |-> "none"] /\ rfd = [p \in Peers |-> 0]
    /\ fd_conn = [f \in FDs |-> NoConn]
    /\ backlog = {} /\ started = {}
    /\ stream = [c \in Clients |-> <<>>]
    /\ sent = [p \in Peers |-> 0] /\ bad_sent = {} /\ eof_sent = {}

\* The lowest descriptor number not in use.
LowestFree == Min({f \in FDs : fd_conn[f] = NoConn})

-----------------------------------------------------------------------------
(* handle_p2p_connections_from_federates                                  *)

\* The loop test: received_federates has reached the number of inbound
\* physical connections.
AllReceived(n) == n = Cardinality(Peers)

Reject(c) ==
    UNCHANGED <<received, acc_pc, slot, reader, rfd, fd_conn>>

\* accept() of a peer: its socket gets the lowest free descriptor and goes
\* into the slot of the id it sent, ACK, pthread_create of its reader,
\* received_federates++; after the last one the thread joins the readers.
Register(c) ==
    LET fd == LowestFree IN
    /\ fd_conn' = [fd_conn EXCEPT ![fd] = c]
    /\ slot' = [slot EXCEPT ![c] = fd]
    /\ reader' = [reader EXCEPT ![c] = "starting"]
    /\ received' = received + 1
    /\ acc_pc' = IF AllReceived(received + 1) THEN "join" ELSE "accept"
    /\ UNCHANGED rfd

\* One iteration of the accept loop.
Accept(c) ==
    /\ acc_pc = "accept" /\ c \in backlog
    /\ backlog' = backlog \ {c}
    /\ IF c \in Strays THEN Reject(c) ELSE Register(c)
    /\ UNCHANGED peers

\* accept() fails: the thread returns at once, without joining.
AcceptError ==
    /\ AcceptFailures /\ acc_pc = "accept"
    /\ acc_pc' = "returned"
    /\ UNCHANGED <<received, slot, reader, rfd, fd_conn, backlog, peers>>

\* pthread_join on every reader.
Join ==
    /\ acc_pc = "join" /\ \A p \in Peers : reader[p] = "exited"
    /\ acc_pc' = "done"
    /\ UNCHANGED <<received, slot, reader, rfd, fd_conn, backlog, peers>>

-----------------------------------------------------------------------------
(* listen_to_federates                                                     *)

\* The thread starts: socket_id is read from the slot of its peer.
ReaderStart(p) ==
    /\ reader[p] = "starting"
    /\ reader' = [reader EXCEPT ![p] = "running"]
    /\ rfd' = [rfd EXCEPT ![p] = slot[p]]
    /\ UNCHANGED <<acc_pc, received, slot, fd_conn, backlog, peers>>

\* close(socket_id) and clear the slot: the descriptor number is freed,
\* whatever connection it denotes by now.
CloseOwn(p) ==
    /\ fd_conn' = [fd_conn EXCEPT ![rfd[p]] = NoConn]
    /\ slot' = [slot EXCEPT ![p] = -1]

\* Mutant: the slot is cleared to 0 instead of -1.
OnEof_slot_zero(p) ==
    /\ fd_conn' = [fd_conn EXCEPT ![rfd[p]] = NoConn]
    /\ slot' = [slot EXCEPT ![p] = 0]
    /\ reader' = [reader EXCEPT ![p] = "exited"]

\* Mutant: the end-of-stream case closes but stays in the loop.
OnEof_no_break(p) == CloseOwn(p) /\ UNCHANGED reader

\* Mutant: the end-of-stream case leaves the slot as it was.
OnEof_keeps_slot(p) ==
    /\ fd_conn' = [fd_conn EXCEPT ![rfd[p]] = NoConn]
    /\ reader' = [reader EXCEPT ![p] = "exited"]
    /\ UNCHANGED slot

\* bytes_read <= 0: close, clear the slot, break out of the loop.
OnEof(p) == CloseOwn(p) /\ reader' = [reader EXCEPT ![p] = "exited"]

\* An unknown message type: close and clear the slot; the `break` leaves
\* only the switch, so the loop reads socket_id again.
OnBad(p) == CloseOwn(p) /\ UNCHANGED reader

\* One iteration of the reader's loop: read one type byte from socket_id.
\* A read of a closed descriptor fails (bytes_read < 0); a read blocks
\* while the connection carries nothing.  P2P_TIMED_MESSAGE goes to
\* handle_timed_message, which reads the rest of the frame.
ReadByte(p) ==
    /\ reader[p] = "running"
    /\ LET k == fd_conn[rfd[p]] IN
       \/ /\ k = NoConn
          /\ OnEof(p) /\ UNCHANGED stream
       \/ /\ k # NoConn /\ stream[k] # <<>>
          /\ stream' = [stream EXCEPT ![k] = Tail(@)]
          /\ CASE Head(stream[k]) = "TIMED" -> UNCHANGED <<fd_conn, slot, reader>>
               [] Head(stream[k]) = "EOF"   -> OnEof(p)
               [] Head(stream[k]) = "BAD"   -> OnBad(p)
    /\ UNCHANGED <<acc_pc, received, rfd, backlog, started, sent, bad_sent, eof_sent>>

-----------------------------------------------------------------------------
(* Environment: peers and stray clients.                                   *)

\* A client connects and writes its first message (a peer's
\* connect_to_federate, or a client of another protocol).
ClientConnects(c) ==
    /\ c \notin started
    /\ started' = started \cup {c} /\ backlog' = backlog \cup {c}
    /\ UNCHANGED <<acc_pc, received, slot, reader, rfd, fd_conn, stream,
                   sent, bad_sent, eof_sent>>

\* An accepted peer sends a P2P_TIMED_MESSAGE (send_message_timed).
PeerSends(p) ==
    /\ reader[p] # "none" /\ p \notin eof_sent /\ sent[p] < MaxMsgs
    /\ stream' = [stream EXCEPT ![p] = Append(@, "TIMED")]
    /\ sent' = [sent EXCEPT ![p] = @ + 1]
    /\ UNCHANGED <<acc_pc, received, slot, reader, rfd, fd_conn, backlog,
                   started, bad_sent, eof_sent>>

\* A faulty peer sends a byte that is no message type.
PeerSendsBad(p) ==
    /\ p \in BadPeers /\ reader[p] # "none" /\ p \notin eof_sent /\ p \notin bad_sent
    /\ stream' = [stream EXCEPT ![p] = Append(@, "BAD")]
    /\ bad_sent' = bad_sent \cup {p}
    /\ UNCHANGED <<acc_pc, received, slot, reader, rfd, fd_conn, backlog,
                   started, sent, eof_sent>>

\* An accepted peer finishes and its socket is closed: end of stream.
PeerCloses(p) ==
    /\ reader[p] # "none" /\ p \notin eof_sent
    /\ stream' = [stream EXCEPT ![p] = Append(@, "EOF")]
    /\ eof_sent' = eof_sent \cup {p}
    /\ UNCHANGED <<acc_pc, received, slot, reader, rfd, fd_conn, backlog,
                   started, sent, bad_sent>>

AcceptThread == (\E c \in Clients : Accept(c)) \/ AcceptError \/ Join

Next ==
    \/ AcceptThread
    \/ \E p \in Peers : ReaderStart(p) \/ ReadByte(p)
    \/ \E c \in Clients : ClientConnects(c)
    \/ \E p \in Peers : PeerSends(p) \/ PeerSendsBad(p) \/ PeerCloses(p)

\* The accept thread and every reader keep running; every peer federate
\* connects at its startup and eventually ends.  Stray clients, messages
\* and bad bytes may never come.
Spec ==
    /\ Init /\ [][Next]_vars
    /\ WF_vars(\E c \in Clients : Accept(c)) /\ WF_vars(Join)
    /\ \A p \in Peers : WF_vars(ReaderStart(p)) /\ WF_vars(ReadByte(p)) /\ WF_vars(ClientConnects(p))
                        /\ WF_vars(PeerCloses(p))

-----------------------------------------------------------------------------
(* Properties                                                              *)

TypeOK ==
    /\ acc_pc \in {"accept", "join", "done", "returned"}
    /\ received \in 0..Cardinality(Peers)
    /\ slot \in [Peers -> FDs \cup {-1}]
    /\ reader \in [Peers -> {"none", "starting", "running", "exited"}]
    /\ rfd \in [Peers -> FDs \cup {0}]
    /\ fd_conn \in [FDs -> Clients \cup {NoConn}]
    /\ backlog \subseteq started /\ started \subseteq Clients

\* Spec 3, invariant 4: no two reader threads read the same open socket:
\* each inbound socket is owned by exactly one listen_to_federates.
OneReaderPerSocket ==
    \A a, b \in Peers :
        (a # b /\ reader[a] = "running" /\ reader[b] = "running" /\ rfd[a] = rfd[b])
            => fd_conn[rfd[a]] = NoConn

\* A slot of the inbound table that is set names an open socket of that
\* very peer: a reader that closes a socket also clears the slot, and no
\* other thread closes it.
SlotTracksSocket ==
    \A p \in Peers : slot[p] # -1 => fd_conn[slot[p]] = p

\* handle_p2p_connections_from_federates accepts every peer and returns
\* only after all their readers have exited.
AllPeersServed == <>(acc_pc = "done")

\* A reader reads a socket that is not its own peer's only after some peer
\* sent an unknown message type: an EOF or a failed read always ends the
\* loop, so the reuse by accept() of a descriptor a running reader still
\* holds starts with a reader that took the default case of the switch.
\* The damage then spreads: that reader can close another peer's socket,
\* whose reader (its own peer well-behaved) goes on to read a third one.
ForeignReadNeedsBadType ==
    \A p \in Peers :
        (reader[p] = "running" /\ fd_conn[rfd[p]] \notin {p, NoConn})
            => bad_sent # {}

PeersAcknowledged == \A p \in Peers : (p \in started) ~> (reader[p] # "none")

=============================================================================
