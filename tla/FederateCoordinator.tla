------------------------- MODULE FederateCoordinator -------------------------
(***************************************************************************)
(* The federate side of the time-advance protocol of federate.c:           *)
(* __next_event_time, __logical_time_complete, __broadcast_stop and the    *)
(* listen_to_rti thread with its handlers (TAG, STOP, TIMED_MESSAGE).      *)
(*                                                                         *)
(* Threads: the main (reactor) thread, the listen_to_rti thread and the    *)
(* threads that schedule physical actions.  Every critical section of the *)
(* code (pthread_mutex_lock .. unlock, or the whole time the main thread   *)
(* holds the mutex between condition waits) is one atomic step; the       *)
(* socket reads done outside the mutex are separate steps.  The condition *)
(* variable event_q_changed is the flag `woken`: a broadcast sets it when  *)
(* the main thread waits.                                                  *)
(*                                                                         *)
(* Startup: synchronize_with_other_federates sends TIMESTAMP, reads the   *)
(* RTI's reply itself, and only then creates the listen_to_rti thread.    *)
(*                                                                         *)
(* Logical time: start_time is 0, events happen at 1..StopTime, and       *)
(* microsteps are abstracted (an event scheduled with a non-positive delay *)
(* lands at current_time).  The RTI and one upstream federate are an      *)
(* environment written from the protocol of the spec (the RTI is not in   *)
(* this repository): the RTI grants TAG(min(NET, upstream LTC)) and relays *)
(* the upstream's messages in order on the same socket as its grants.     *)
(***************************************************************************)
EXTENDS Integers, Sequences, FiniteSets, FiniteSetsExt

CONSTANTS
    StopTime,         \* stop_time - start_time: the last logical time executed
    MaxUpstreamMsgs,  \* bound on TIMED_MESSAGEs relayed from the upstream federate
    MaxPhysical,      \* bound on physical actions scheduled by other threads
    InitialEvents     \* events on the queue at start (timers, startup reactions)

ASSUME /\ StopTime \in Nat \ {0}
       /\ MaxUpstreamMsgs \in Nat /\ MaxPhysical \in Nat
       /\ InitialEvents \subseteq 1..StopTime

NEVER == -1                 \* compares less than every time
Times == 1..StopTime
Msg(type, time) == [type |-> type, time |-> time]

VARIABLES
    __fed_has_upstream, __fed_has_downstream,  \* set at initialization, then fixed
    __tag, __tag_pending, stop_requested,   \* coordinator state (mutex-protected)
    current_time, event_q,                  \* reactor state the coordinator reads
    main_pc, req, woken,                    \* main thread; woken = event_q_changed signalled
    rti_pc, rti_frame,                      \* listen_to_rti thread and the frame it has read
    to_rti, from_rti,                       \* the two directions of _lf_rti_socket
    phys_count,                             \* physical actions scheduled so far
    up_time, up_ltc, up_msgs,               \* upstream federate (environment)
    rti_net, rti_tag, rti_stop, rti_started, \* RTI (environment)
    max_net, returned                       \* history: largest NET the RTI saw; last return

fed == <<__fed_has_upstream, __fed_has_downstream>>
coord == <<__tag, __tag_pending, stop_requested>>
reactor == <<current_time, event_q, main_pc, req, woken, phys_count>>
env == <<up_time, up_ltc, up_msgs, rti_net, rti_tag, rti_stop, rti_started, max_net>>
vars == <<fed, coord, reactor, rti_pc, rti_frame, to_rti, from_rti, env, returned>>

WaitStates == {"netwait", "sleep"}
FrameTypes == {"TIMESTAMP", "NET", "LTC", "STOP", "TIMED", "TAG"}
StartupStates == {"sync", "syncread", "startwait"}

Init ==
    /\ __fed_has_upstream \in BOOLEAN /\ __fed_has_downstream \in BOOLEAN
    /\ __tag = NEVER /\ __tag_pending = FALSE /\ stop_requested = FALSE
    /\ current_time = 0 /\ event_q = InitialEvents
    /\ main_pc = "sync" /\ req = 0 /\ woken = FALSE /\ phys_count = 0
    /\ rti_pc = "none" /\ rti_frame = Msg("TAG", NEVER)
    /\ to_rti = <<>> /\ from_rti = <<>>
    /\ up_time = 1 /\ up_ltc = 0 /\ up_msgs = 0
    /\ rti_net = NEVER /\ rti_tag = NEVER /\ rti_stop = FALSE /\ rti_started = FALSE
    /\ max_net = NEVER /\ returned = [req |-> 0, val |-> 0, granted |-> 0]

-----------------------------------------------------------------------------
(* Helpers of federate.c.                                                  *)

\* pthread_cond_broadcast(&event_q_changed): wakes the main thread if it waits.
Broadcast == woken' = (main_pc \in WaitStates)

\* send_time(type, time): one 9-byte frame on the RTI socket.
send_time(type, time) == Msg(type, time)

\* __logical_time_complete(time): LTC only if there are downstream federates.
__logical_time_complete(time) ==
    IF __fed_has_downstream THEN <<send_time("LTC", time)>> ELSE <<>>

\* __broadcast_stop(): STOP carrying the current logical time.
__broadcast_stop(time) == send_time("STOP", time)

\* send_message_timed(): the timestamp is the sender's logical time.
send_message_timed(time) == Msg("TIMED", time)

\* The reactor's use of r = __next_event_time(t): wait for physical time t
\* when r = t, otherwise re-plan from the event queue.
Returned(t, r) ==
    /\ returned' = [req |-> t, val |-> r, granted |-> __tag]
    /\ main_pc' = IF r = t THEN "sleep" ELSE "plan"

-----------------------------------------------------------------------------
(* The main thread.                                                        *)

\* Mutant: synchronize_with_other_federates creates listen_to_rti before it
\* asks for the start time.
get_start_time_from_rti_reader_first ==
    /\ main_pc = "sync"
    /\ to_rti' = Append(to_rti, send_time("TIMESTAMP", 0))
    /\ main_pc' = "syncread" /\ rti_pc' = "read"
    /\ UNCHANGED <<fed, coord, current_time, event_q, req, woken, phys_count,
                   rti_frame, from_rti, env, returned>>

\* get_start_time_from_rti(get_physical_time()) sends TIMESTAMP with the
\* federate's physical time (start times are relative: 0) ...
get_start_time_from_rti ==
    /\ main_pc = "sync"
    /\ to_rti' = Append(to_rti, send_time("TIMESTAMP", 0))
    /\ main_pc' = "syncread"
    /\ UNCHANGED <<fed, coord, current_time, event_q, req, woken, phys_count,
                   rti_pc, rti_frame, from_rti, env, returned>>

\* ... and reads the 9-byte reply from the socket itself; a first byte other
\* than TIMESTAMP would end the program.  synchronize_with_other_federates
\* then sets current_time = start_time (stop_time follows from it) and
\* creates the listen_to_rti thread.
SyncReadReply ==
    /\ main_pc = "syncread" /\ from_rti # <<>>
    /\ Head(from_rti).type = "TIMESTAMP"
    /\ from_rti' = Tail(from_rti)
    /\ current_time' = Head(from_rti).time
    /\ rti_pc' = "read" /\ main_pc' = "startwait"
    /\ UNCHANGED <<fed, coord, event_q, req, woken, phys_count, rti_frame,
                   to_rti, env, returned>>

\* wait_until(current_time), then physical_start_time is sampled; the
\* reactor's event loop begins.
StartWait ==
    /\ main_pc = "startwait" /\ main_pc' = "plan"
    /\ UNCHANGED <<fed, coord, current_time, event_q, req, woken, phys_count,
                   rti_pc, rti_frame, to_rti, from_rti, env, returned>>

\* Mutant: the "already granted" test off by one (__tag + 1 >= t).
__next_event_time_granted_off_by_one(t) ==
    /\ req' = t
    /\ \/ /\ ~__fed_has_downstream /\ ~__fed_has_upstream
          /\ Returned(t, t) /\ UNCHANGED <<to_rti, __tag_pending, woken>>
       \/ /\ __fed_has_downstream \/ __fed_has_upstream
          /\ __tag + 1 >= t
          /\ Returned(t, t) /\ UNCHANGED <<to_rti, __tag_pending, woken>>
       \/ /\ __fed_has_downstream \/ __fed_has_upstream
          /\ __tag + 1 < t
          /\ to_rti' = Append(to_rti, send_time("NET", t))
          /\ \/ /\ ~__fed_has_upstream
                /\ Returned(t, t) /\ UNCHANGED <<__tag_pending, woken>>
             \/ /\ __fed_has_upstream
                /\ __tag_pending' = TRUE /\ main_pc' = "netwait" /\ woken' = FALSE
                /\ UNCHANGED returned

\* __next_event_time(t) up to the condition wait, mutex held throughout.
__next_event_time(t) ==
    /\ req' = t
    /\ \/ /\ ~__fed_has_downstream /\ ~__fed_has_upstream
          /\ Returned(t, t) /\ UNCHANGED <<to_rti, __tag_pending, woken>>
       \/ /\ __fed_has_downstream \/ __fed_has_upstream
          /\ __tag >= t
          /\ Returned(t, t) /\ UNCHANGED <<to_rti, __tag_pending, woken>>
       \/ /\ __fed_has_downstream \/ __fed_has_upstream
          /\ __tag < t
          /\ to_rti' = Append(to_rti, send_time("NET", t))
          /\ \/ /\ ~__fed_has_upstream
                /\ Returned(t, t) /\ UNCHANGED <<__tag_pending, woken>>
             \/ /\ __fed_has_upstream
                /\ __tag_pending' = TRUE /\ main_pc' = "netwait" /\ woken' = FALSE
                /\ UNCHANGED returned

\* The earliest event on the queue, or stop_time when it is empty.
NextTime == IF event_q = {} THEN StopTime ELSE Min(event_q)

\* The reactor asks the coordinator before advancing to the next event.
Plan ==
    /\ main_pc = "plan" /\ ~stop_requested
    /\ __next_event_time(NextTime)
    /\ UNCHANGED <<fed, __tag, stop_requested, current_time, event_q, phys_count,
                   rti_pc, rti_frame, from_rti, env>>

\* The main loop sees stop_requested after a wakeup and stops.
MainStop ==
    /\ main_pc = "plan" /\ stop_requested
    /\ main_pc' = "done"
    /\ UNCHANGED <<fed, coord, current_time, event_q, req, woken, phys_count,
                   rti_pc, rti_frame, to_rti, from_rti, env, returned>>

\* Mutant: an event at the requested time itself ends the wait (<=).
NetWaitWoken_head_le ==
    /\ main_pc = "netwait" /\ woken
    /\ woken' = FALSE
    /\ \/ /\ __tag_pending
          /\ event_q # {} /\ Min(event_q) <= req
          /\ Returned(req, Min(event_q))
       \/ /\ __tag_pending
          /\ ~(event_q # {} /\ Min(event_q) <= req)
          /\ UNCHANGED <<main_pc, returned>>
       \/ /\ ~__tag_pending
          /\ Returned(req, __tag)
    /\ UNCHANGED <<fed, coord, current_time, event_q, req, phys_count,
                   rti_pc, rti_frame, to_rti, from_rti, env>>

\* pthread_cond_wait returns in __next_event_time: the loop re-checks
\* __tag_pending and the head of the event queue.
NetWaitWoken ==
    /\ main_pc = "netwait" /\ woken
    /\ woken' = FALSE
    /\ \/ /\ __tag_pending
          /\ event_q # {} /\ Min(event_q) < req
          /\ Returned(req, Min(event_q))
       \/ /\ __tag_pending
          /\ ~(event_q # {} /\ Min(event_q) < req)
          /\ UNCHANGED <<main_pc, returned>>
       \/ /\ ~__tag_pending
          /\ Returned(req, __tag)
    /\ UNCHANGED <<fed, coord, current_time, event_q, req, phys_count,
                   rti_pc, rti_frame, to_rti, from_rti, env>>

\* wait_until(t) is cut short by a broadcast: the reactor re-plans.
SleepInterrupted ==
    /\ main_pc = "sleep" /\ woken
    /\ woken' = FALSE /\ main_pc' = "plan"
    /\ UNCHANGED <<fed, coord, current_time, event_q, req, phys_count,
                   rti_pc, rti_frame, to_rti, from_rti, env, returned>>

\* The outputs of the reactions at logical time t.
ReactionOutputs(t) ==
    {<<>>, <<__broadcast_stop(t)>>}
    \cup (IF __fed_has_downstream THEN {<<send_message_timed(t)>>} ELSE {})

\* Physical time reaches the requested time with no broadcast during the
\* sleep (one would have interrupted it, spec 2): the reactor advances
\* logical time to the earliest event now on the queue (an event that came
\* while __next_event_time waited may precede the request), runs the
\* reactions (which may send a timed message downstream or request a
\* stop) and then calls __logical_time_complete.
Advance ==
    /\ main_pc = "sleep" /\ ~woken
    /\ LET t == NextTime IN
       /\ current_time' = t
       /\ event_q' = event_q \ {t}
       /\ \E out \in ReactionOutputs(t) :
             to_rti' = to_rti \o out \o __logical_time_complete(t)
       /\ main_pc' = IF t = StopTime THEN "done" ELSE "plan"
    /\ UNCHANGED <<fed, coord, req, woken, phys_count, rti_pc, rti_frame,
                   from_rti, env, returned>>

-----------------------------------------------------------------------------
(* The listen_to_rti thread and its handlers.                              *)

\* handle_timed_message: schedule at timestamp - current logical time; a
\* non-positive delay lands at the current time (next microstep).
\* schedule_value_already_locked broadcasts event_q_changed.
handle_timed_message(timestamp) ==
    /\ event_q' = event_q \cup {Max({timestamp, current_time})}
    /\ Broadcast
    /\ UNCHANGED <<fed, __tag, __tag_pending, stop_requested>>

\* Mutant: the grant is stored without broadcasting event_q_changed.
handle_time_advance_grant_no_broadcast(g) ==
    /\ __tag' = g /\ __tag_pending' = FALSE
    /\ UNCHANGED woken
    /\ UNCHANGED <<fed, stop_requested, event_q>>

\* Mutant: the decoded grant is one less than the value on the wire.
handle_time_advance_grant_decode_off(g) ==
    /\ __tag' = g - 1 /\ __tag_pending' = FALSE
    /\ Broadcast
    /\ UNCHANGED <<fed, stop_requested, event_q>>

\* handle_time_advance_grant: store the grant, clear the pending flag, wake.
handle_time_advance_grant(g) ==
    /\ __tag' = g /\ __tag_pending' = FALSE
    /\ Broadcast
    /\ UNCHANGED <<fed, stop_requested, event_q>>

\* handle_incoming_stop_message: the stop time is read and ignored.
handle_incoming_stop_message ==
    /\ stop_requested' = TRUE
    /\ Broadcast
    /\ UNCHANGED <<fed, __tag, __tag_pending, event_q>>

\* listen_to_rti reads a whole frame from the socket, without the mutex.
ReadFrame ==
    /\ rti_pc = "read" /\ from_rti # <<>>
    /\ rti_frame' = Head(from_rti) /\ from_rti' = Tail(from_rti)
    /\ rti_pc' = "handle"
    /\ UNCHANGED <<fed, coord, reactor, to_rti, env, returned>>

\* ... then takes the mutex and dispatches on the type byte.
HandleFrame ==
    /\ rti_pc = "handle" /\ rti_pc' = "read"
    /\ \/ rti_frame.type = "TIMED" /\ handle_timed_message(rti_frame.time)
       \/ rti_frame.type = "TAG" /\ handle_time_advance_grant(rti_frame.time)
       \/ rti_frame.type = "STOP" /\ handle_incoming_stop_message
    /\ UNCHANGED <<fed, current_time, main_pc, req, phys_count, rti_frame,
                   to_rti, from_rti, env, returned>>

-----------------------------------------------------------------------------
(* Other threads of the reactor: a physical action is scheduled under the *)
(* mutex at a time after the current logical time, and broadcast.          *)

SchedulePhysical ==
    /\ main_pc \notin {"done"} \cup StartupStates /\ phys_count < MaxPhysical
    /\ \E p \in (current_time + 1)..StopTime : event_q' = event_q \cup {p}
    /\ phys_count' = phys_count + 1
    /\ Broadcast
    /\ UNCHANGED <<fed, coord, current_time, main_pc, req, rti_pc, rti_frame,
                   to_rti, from_rti, env, returned>>

-----------------------------------------------------------------------------
(* Environment: the RTI and one upstream federate, from the protocol.     *)

\* The RTI reads the next frame this federate sent.  A STOP is broadcast
\* back to every federate, this one included, once.
RtiReceive ==
    /\ to_rti # <<>>
    /\ to_rti' = Tail(to_rti)
    /\ LET m == Head(to_rti) IN
       \/ /\ m.type = "TIMESTAMP"
          /\ from_rti' = Append(from_rti, Msg("TIMESTAMP", 0))
          /\ rti_started' = TRUE
          /\ UNCHANGED <<rti_net, rti_stop, max_net>>
       \/ /\ m.type = "NET"
          /\ rti_net' = m.time /\ max_net' = Max({max_net, m.time})
          /\ UNCHANGED <<from_rti, rti_stop, rti_started>>
       \/ /\ m.type \in {"LTC", "TIMED"}
          /\ UNCHANGED <<from_rti, rti_net, rti_stop, rti_started, max_net>>
       \/ /\ m.type = "STOP"
          /\ from_rti' = IF rti_stop THEN from_rti
                         ELSE Append(from_rti, Msg("STOP", m.time))
          /\ rti_stop' = TRUE
          /\ UNCHANGED <<rti_net, rti_started, max_net>>
    /\ UNCHANGED <<fed, coord, reactor, rti_pc, rti_frame, up_time, up_ltc,
                   up_msgs, rti_tag, returned>>

\* The RTI grants what both this federate's NET and the upstream's LTC
\* allow, and only when that exceeds its previous grant.
RtiGrant ==
    /\ __fed_has_upstream /\ rti_net # NEVER
    /\ LET g == Min({rti_net, up_ltc}) IN
          /\ g \in Times /\ g > rti_tag
          /\ from_rti' = Append(from_rti, Msg("TAG", g))
          /\ rti_tag' = g
    /\ UNCHANGED <<fed, coord, reactor, rti_pc, rti_frame, to_rti, up_time, up_ltc,
                   up_msgs, rti_net, rti_stop, rti_started, max_net, returned>>

\* Another federate, started, requests a stop; the RTI broadcasts STOP.
\* The RTI answers every TIMESTAMP before the federation starts, so
\* nothing precedes the start time on this federate's socket.
RtiStop ==
    /\ rti_started /\ ~rti_stop /\ rti_stop' = TRUE
    /\ from_rti' = Append(from_rti, Msg("STOP", rti_tag))
    /\ UNCHANGED <<fed, coord, reactor, rti_pc, rti_frame, to_rti, up_time, up_ltc,
                   up_msgs, rti_net, rti_tag, rti_started, max_net, returned>>

\* The upstream federate sends a message at its logical time; the RTI
\* relays it in order on this federate's socket.
UpstreamSend ==
    /\ rti_started /\ __fed_has_upstream /\ up_time \in Times
    /\ up_msgs < MaxUpstreamMsgs
    /\ from_rti' = Append(from_rti, send_message_timed(up_time))
    /\ up_msgs' = up_msgs + 1
    /\ UNCHANGED <<fed, coord, reactor, rti_pc, rti_frame, to_rti, up_time, up_ltc,
                   rti_net, rti_tag, rti_stop, rti_started, max_net, returned>>

\* The upstream federate completes its logical time (LTC to the RTI).
UpstreamComplete ==
    /\ __fed_has_upstream /\ up_time \in Times
    /\ up_ltc' = up_time /\ up_time' = up_time + 1
    /\ UNCHANGED <<fed, coord, reactor, rti_pc, rti_frame, to_rti, from_rti,
                   up_msgs, rti_net, rti_tag, rti_stop, rti_started, max_net, returned>>

\* The main thread has exited; the system may stay as it is.
Finished == main_pc = "done" /\ UNCHANGED vars

MainThread == get_start_time_from_rti \/ SyncReadReply \/ StartWait
              \/ Plan \/ MainStop \/ NetWaitWoken \/ SleepInterrupted \/ Advance
Environment == RtiReceive \/ RtiGrant \/ RtiStop \/ UpstreamSend \/ UpstreamComplete

Next ==
    \/ MainThread
    \/ ReadFrame \/ HandleFrame
    \/ SchedulePhysical
    \/ Environment
    \/ Finished

\* Weak fairness: the main thread, the reader thread, the RTI and the
\* upstream federate keep running; physical actions, extra messages and
\* stop requests may never happen.
Fairness ==
    /\ WF_vars(MainThread)
    /\ WF_vars(ReadFrame) /\ WF_vars(HandleFrame)
    /\ WF_vars(RtiReceive) /\ WF_vars(RtiGrant) /\ WF_vars(UpstreamComplete)

Spec == Init /\ [][Next]_vars /\ Fairness

-----------------------------------------------------------------------------
(* Properties.                                                             *)

TypeOK ==
    /\ __tag \in {NEVER} \cup Times /\ __tag_pending \in BOOLEAN
    /\ stop_requested \in BOOLEAN
    /\ current_time \in 0..StopTime /\ event_q \subseteq 0..StopTime
    /\ main_pc \in StartupStates \cup {"plan", "netwait", "sleep", "done"}
    /\ req \in 0..StopTime
    /\ woken \in BOOLEAN /\ rti_pc \in {"none", "read", "handle"}
    /\ rti_frame.type \in FrameTypes
    /\ \A i \in DOMAIN to_rti : to_rti[i].type \in FrameTypes
    /\ \A i \in DOMAIN from_rti : from_rti[i].type \in FrameTypes

\* listen_to_rti never reaches the default case of its switch (which ends
\* the program with "unrecognized message type"): the one frame it has no
\* case for, the RTI's TIMESTAMP reply, is consumed by the main thread in
\* get_start_time_from_rti before synchronize_with_other_federates creates
\* the reader, and the RTI sends nothing else before it.
ReaderFramesHandled ==
    rti_pc = "handle" => rti_frame.type \in {"TIMED", "TAG", "STOP"}

\* With upstream federates, the main thread never advances logical time
\* past the last TIME_ADVANCE_GRANT stored by handle_time_advance_grant
\* (spec 5: "never advances past t without having received TAG >= t").
GrantCoversLogicalTime ==
    __fed_has_upstream => current_time <= Max({__tag, 0})

\* Every message the RTI relays from the upstream federate is scheduled by
\* handle_timed_message strictly in the future of the logical time the
\* main thread has reached: the grant protocol, the FIFO RTI socket and the
\* reader thread together never deliver a message late.
CausalDelivery ==
    [][ (rti_pc = "handle" /\ rti_pc' = "read" /\ rti_frame.type = "TIMED")
          => rti_frame.time > current_time ]_vars

\* The main thread always finishes: it reaches stop_time or honours a STOP,
\* whatever the order of grants, messages and physical actions.
Termination == <>(main_pc = "done")

\* The value __next_event_time(t) returns is never later than t (spec 8).
ReturnWithinRequest == returned.val <= returned.req

\* The value __next_event_time returns is "safe to advance logical time
\* to" (its comment): with upstream federates it is covered by the grant.
ReturnWithinGrant == __fed_has_upstream => returned.val <= returned.granted

\* NEXT_EVENT_TIME(t) promises the RTI that this federate will send no
\* message timestamped before t (comment of __next_event_time): every
\* TIMED_MESSAGE the RTI reads is no earlier than every NET it read before.
NetPromiseKept ==
    [][ (to_rti # <<>> /\ to_rti' = Tail(to_rti) /\ Head(to_rti).type = "TIMED")
          => Head(to_rti).time >= max_net ]_vars

=============================================================================
