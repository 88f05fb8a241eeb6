--------------------------- MODULE DaemonClients ---------------------------
(***************************************************************************)
(* The server of the daemon: the main thread accepts connections into a    *)
(* fixed array of client slots, one detached thread serves each client,    *)
(* and the counter, the slots, the streams of the configuration mode and   *)
(* the file descriptors are shared.  A step is what happens between two    *)
(* points at which another thread may interfere.                           *)
(*                                                                         *)
(* What a configuration client's command does is Supervisor's subject;     *)
(* here it is only a time during which the thread does not look at         *)
(* daemon_terminated.                                                      *)
(***************************************************************************)
EXTENDS Integers, FiniteSets

CONSTANTS MaxClients,  \* MAX_NUMBER_SUP_CLIENTS (5)
          Fds,         \* descriptor numbers the kernel has left
          NoFd         \* the value -1 of client_sd

ASSUME ClientsAssumption == MaxClients \in Nat \ {0} /\ NoFd \notin Fds

Slots == 1..MaxClients   \* server_internals->clients

Nobody == 0              \* no slot: the log as output, a closed descriptor

Unassigned == -1         \* an accepted connection that has no slot yet

VARIABLES acceptor,           \* where daemon_mode_server_routine is
          new_client,         \* the descriptor it has just accepted
          placed,             \* the slot it has put the client into
          file,               \* the connection behind every descriptor
          client_sd,          \* client_sd of every slot
          streams,            \* how many FILEs fdopen made for the slot
          thread,             \* where the thread of every slot is
          leaving,            \* threads between freeing a slot and counting
          clients_cnt,
          config_mode_active,
          output_fd,          \* whose stream output_fd and input_fd are
          daemon_terminated

server == <<acceptor, new_client, placed>>

mode == <<config_mode_active, output_fd, daemon_terminated>>

vars == <<server, file, client_sd, streams, thread, leaving, clients_cnt, mode>>

\* What a descriptor stands for: the connection of a slot's client, one that
\* has no slot yet, or nothing.
Connections == Slots \cup {Unassigned, Nobody}

Used == {x \in Slots : client_sd[x] # NoFd}

Init ==
    /\ acceptor = "loop" /\ new_client = NoFd /\ placed = Nobody
    /\ file = [f \in Fds |-> Nobody]
    /\ client_sd = [x \in Slots |-> NoFd]
    /\ streams = [x \in Slots |-> 0]
    /\ thread = [x \in Slots |-> "none"]
    /\ leaving = 0 /\ clients_cnt = 0
    /\ config_mode_active = FALSE
    /\ output_fd = Nobody
    /\ daemon_terminated = FALSE

-----------------------------------------------------------------------------
(* daemon_mode_server_routine *)

\* The loop's test; from here select() waits for a connection.
Listen ==
    /\ acceptor = "loop" /\ ~daemon_terminated
    /\ acceptor' = "select"
    /\ UNCHANGED <<new_client, placed, file, client_sd, streams, thread,
                   leaving, clients_cnt, mode>>

\* A timeout, or an accept() that fails, or a connection.
Accept ==
    /\ acceptor = "select"
    /\ \/ acceptor' = "loop" /\ UNCHANGED <<new_client, file>>
       \/ \E f \in Fds : /\ file[f] = Nobody
                         /\ file' = [file EXCEPT ![f] = Unassigned]
                         /\ new_client' = f
                         /\ acceptor' = "test"
    /\ UNCHANGED <<placed, client_sd, streams, thread, leaving, clients_cnt, mode>>

\* Mutant: one client too many is let in.
RoomForOneMore == clients_cnt <= MaxClients

\* Read without the lock.
Room == clients_cnt < MaxClients

Test ==
    /\ acceptor = "test"
    /\ IF Room THEN acceptor' = "place" /\ UNCHANGED <<file, new_client>>
       ELSE /\ acceptor' = "loop" /\ new_client' = NoFd
            /\ file' = [file EXCEPT ![new_client] = Nobody]
    /\ UNCHANGED <<placed, client_sd, streams, thread, leaving, clients_cnt, mode>>

\* The first free slot; without one the connection would be forgotten.
FirstFree ==
    IF Slots \ Used = {} THEN Nobody
    ELSE CHOOSE x \in Slots \ Used : \A z \in Slots \ Used : x <= z

Place ==
    /\ acceptor = "place"
    /\ placed' = FirstFree
    /\ acceptor' = IF FirstFree = Nobody THEN "loop" ELSE "count"
    /\ client_sd' = [x \in Slots |-> IF x = FirstFree THEN new_client
                                                     ELSE client_sd[x]]
    /\ file' = [file EXCEPT ![new_client] = IF @ = Unassigned /\ FirstFree # Nobody
                                            THEN FirstFree ELSE @]
    /\ new_client' = NoFd
    /\ UNCHANGED <<streams, thread, leaving, clients_cnt, mode>>

Count ==
    /\ acceptor = "count"
    /\ clients_cnt' = clients_cnt + 1
    /\ acceptor' = "create"
    /\ UNCHANGED <<new_client, placed, file, client_sd, streams, thread, leaving, mode>>

\* pthread_create
Create ==
    /\ acceptor = "create"
    /\ thread' = [thread EXCEPT ![placed] = "open"]
    /\ acceptor' = "loop" /\ placed' = Nobody
    /\ UNCHANGED <<new_client, file, client_sd, streams, leaving, clients_cnt, mode>>

\* close() closes whatever the number stands for by now.
Closed(x) == [file EXCEPT ![client_sd[x]] = Nobody]

\* Mutant: the client that was not served stays counted.
CreateFailsCounted ==
    /\ acceptor = "create"
    /\ file' = Closed(placed)
    /\ client_sd' = [client_sd EXCEPT ![placed] = NoFd]
    /\ acceptor' = "loop" /\ placed' = Nobody
    /\ UNCHANGED <<new_client, streams, thread, leaving, clients_cnt, mode>>

CreateFails ==
    /\ acceptor = "create"
    /\ file' = Closed(placed)
    /\ client_sd' = [client_sd EXCEPT ![placed] = NoFd]
    /\ clients_cnt' = clients_cnt - 1
    /\ acceptor' = "loop" /\ placed' = Nobody
    /\ UNCHANGED <<new_client, streams, thread, leaving, mode>>

Server == Listen \/ Accept \/ Test \/ Place \/ Count \/ Create \/ CreateFails

-----------------------------------------------------------------------------
(* daemon_serve_client_routine, the thread of slot x *)

Goto(x, from, to) == thread[x] = from /\ thread' = [thread EXCEPT ![x] = to]

\* fdopen twice; a failure goes to the disconnection at once, before
\* client_input_stream_fd is set.
daemon_open_client_streams(x) ==
    /\ \/ Goto(x, "open", "code") /\ streams' = [streams EXCEPT ![x] = 2]
       \/ \E n \in {0, 1} : Goto(x, "open", "fclose")
                            /\ streams' = [streams EXCEPT ![x] = n]
    /\ UNCHANGED <<server, file, client_sd, leaving, clients_cnt, mode>>

\* The configuration mode; every other code and every error disconnects, after
\* the answer was sent if there is one.
daemon_get_code_from_client(x) ==
    /\ Goto(x, "code", "config") \/ Goto(x, "code", "close")
    /\ UNCHANGED <<server, file, client_sd, streams, leaving, clients_cnt, mode>>

\* Test and set, under server_internals->lock.
EnterConfigMode(x) ==
    /\ IF config_mode_active
       THEN Goto(x, "config", "close") /\ UNCHANGED config_mode_active
       ELSE Goto(x, "config", "streams") /\ config_mode_active' = TRUE
    /\ UNCHANGED <<server, file, client_sd, streams, leaving, clients_cnt,
                   output_fd, daemon_terminated>>

TakeStreams(x) ==
    /\ Goto(x, "streams", "loop")
    /\ output_fd' = x
    /\ UNCHANGED <<server, file, client_sd, streams, leaving, clients_cnt,
                   config_mode_active, daemon_terminated>>

\* A command begins; it may wait for the client's answers as long as it likes.
Request(x) ==
    /\ Goto(x, "loop", "command") /\ ~daemon_terminated
    /\ UNCHANGED <<server, file, client_sd, streams, leaving, clients_cnt, mode>>

\* It ends; the option 0 for the third time ("Dstop") terminates the daemon.
RequestDone(x) ==
    /\ Goto(x, "command", "loop")
    /\ daemon_terminated' \in {daemon_terminated, TRUE}
    /\ UNCHANGED <<server, file, client_sd, streams, leaving, clients_cnt,
                   config_mode_active, output_fd>>

\* Mutant: only the end of the connection ends the loop.
LoopUntilHangup(x) == FALSE /\ UNCHANGED vars

\* The test of the loop, at least every 0.5 s.
LoopEnds(x) ==
    /\ Goto(x, "loop", "reset") /\ daemon_terminated
    /\ UNCHANGED <<server, file, client_sd, streams, leaving, clients_cnt, mode>>

\* A hang-up of the client or an error of select.
HangUp(x) ==
    /\ Goto(x, "loop", "reset")
    /\ UNCHANGED <<server, file, client_sd, streams, leaving, clients_cnt, mode>>

\* Mutant: the next client is let in before the streams are given back.
ReleaseFirst(x) ==
    \/ /\ Goto(x, "reset", "release") /\ config_mode_active' = FALSE
       /\ UNCHANGED <<server, file, client_sd, streams, leaving, clients_cnt,
                      output_fd, daemon_terminated>>
    \/ /\ Goto(x, "release", "close") /\ output_fd' = Nobody
       /\ UNCHANGED <<server, file, client_sd, streams, leaving, clients_cnt,
                      config_mode_active, daemon_terminated>>

\* input_fd and output_fd are given back before the mode is.
LeaveConfigMode(x) ==
    \/ /\ Goto(x, "reset", "release") /\ output_fd' = Nobody
       /\ UNCHANGED <<server, file, client_sd, streams, leaving, clients_cnt,
                      config_mode_active, daemon_terminated>>
    \/ /\ Goto(x, "release", "close") /\ config_mode_active' = FALSE
       /\ UNCHANGED <<server, file, client_sd, streams, leaving, clients_cnt,
                      output_fd, daemon_terminated>>

-----------------------------------------------------------------------------
(* daemon_disconnect_client: the same descriptor is closed up to four times. *)

\* close(client_input_stream_fd), then fclose() of every stream there is.
CloseStreams(x) ==
    /\ \/ /\ Goto(x, "close", "fclose")
          /\ file' = Closed(x)
          /\ UNCHANGED streams
       \/ /\ thread[x] = "fclose" /\ streams[x] > 0
          /\ file' = Closed(x)
          /\ streams' = [streams EXCEPT ![x] = @ - 1]
          /\ UNCHANGED thread
       \/ /\ Goto(x, "fclose", "free") /\ streams[x] = 0
          /\ UNCHANGED <<file, streams>>
    /\ UNCHANGED <<server, client_sd, leaving, clients_cnt, mode>>

\* close(client_sd); from here on the slot is free.
FreeSlot(x) ==
    /\ Goto(x, "free", "none")
    /\ file' = Closed(x)
    /\ client_sd' = [client_sd EXCEPT ![x] = NoFd]
    /\ leaving' = leaving + 1
    /\ UNCHANGED <<server, streams, clients_cnt, mode>>

\* Mutant: a client that leaves is counted out twice.
CountOutTwice ==
    /\ leaving > 0
    /\ leaving' = leaving - 1
    /\ clients_cnt' = clients_cnt - 2
    /\ UNCHANGED <<server, file, client_sd, streams, thread, mode>>

\* The end of a thread whose slot is already free, under the server's lock.
CountOut ==
    /\ leaving > 0
    /\ leaving' = leaving - 1
    /\ clients_cnt' = clients_cnt - 1
    /\ UNCHANGED <<server, file, client_sd, streams, thread, mode>>

-----------------------------------------------------------------------------

\* supervisor_termination, called by a signal handler.
Terminate ==
    /\ ~daemon_terminated
    /\ daemon_terminated' = TRUE
    /\ UNCHANGED <<server, file, client_sd, streams, thread, leaving, clients_cnt,
                   config_mode_active, output_fd>>

\* What a thread does without waiting for its client.
Thread(x) ==
    \/ daemon_open_client_streams(x) \/ daemon_get_code_from_client(x)
    \/ EnterConfigMode(x) \/ TakeStreams(x) \/ LoopEnds(x) \/ LeaveConfigMode(x)
    \/ CloseStreams(x) \/ FreeSlot(x)

Next ==
    \/ Server \/ Terminate \/ CountOut
    \/ \E x \in Slots : Thread(x) \/ Request(x) \/ RequestDone(x) \/ HangUp(x)

Spec == Init /\ [][Next]_vars

(***************************************************************************)
(* A thread runs on unless it waits for its client: the mode code is       *)
(* waited for 2 s at most and the loop is tested every 0.5 s.  Nothing is  *)
(* assumed of a client in the middle of a command, nor of the acceptor.    *)
(***************************************************************************)
FairSpec == Spec /\ \A x \in Slots : WF_vars(Thread(x))

-----------------------------------------------------------------------------
(* Properties. *)

TypeOK ==
    /\ acceptor \in {"loop", "select", "test", "place", "count", "create"}
    /\ new_client \in Fds \cup {NoFd}
    /\ placed \in Slots \cup {Nobody}
    /\ file \in [Fds -> Connections]
    /\ client_sd \in [Slots -> Fds \cup {NoFd}]
    /\ streams \in [Slots -> 0..2]
    /\ thread \in [Slots -> {"none", "open", "code", "config", "streams", "loop",
                            "command", "reset", "release", "close", "fclose", "free"}]
    /\ leaving \in 0..MaxClients
    /\ clients_cnt \in 0..MaxClients
    /\ config_mode_active \in BOOLEAN
    /\ output_fd \in Slots \cup {Nobody}
    /\ daemon_terminated \in BOOLEAN

(***************************************************************************)
(* A client that passes the test of the counter finds a free slot: the     *)
(* counter, tested without the lock and changed apart from the slots, is   *)
(* never below the number of slots in use when it is tested.  Otherwise    *)
(* the connection would stay open for ever with no thread behind it.       *)
(***************************************************************************)
AcceptFindsSlot == acceptor = "place" => Used # Slots

(***************************************************************************)
(* No slot is lost: the counter is the number of clients in the slots and  *)
(* of those that have left their slot and not yet counted themselves out.  *)
(***************************************************************************)
ClientsCounted ==
    clients_cnt + (IF acceptor = "count" THEN 1 ELSE 0) = Cardinality(Used) + leaving

(***************************************************************************)
(* While a client is in the configuration mode input_fd and output_fd are  *)
(* its own: no other client's thread has taken them or given them back.    *)
(***************************************************************************)
ConfigOutputOwned ==
    \A x \in Slots : thread[x] \in {"loop", "command"} => output_fd = x

(***************************************************************************)
(* After daemon_terminated is set every thread ends, or waits for its      *)
(* client in the middle of a command.                                      *)
(***************************************************************************)
ClientsLeave ==
    \A x \in Slots :
        daemon_terminated ~> thread[x] \in {"none", "command"}

(***************************************************************************)
(* supervisor.h: daemon_disconnect_client "disconnects a client and makes  *)
(* needed clean up (closing streams etc.)" - one client.  The connection   *)
(* of another client, which has not begun to disconnect, stays its own.    *)
(***************************************************************************)
ConnectionStaysOpen ==
    \A x \in Slots :
        thread[x] \in {"open", "code", "config", "streams", "loop", "command"}
            => file[client_sd[x]] = x
=============================================================================
