------------------------------- MODULE Dialog -------------------------------
(***************************************************************************)
(* The conversation of an operator with the daemon in configuration mode:  *)
(* the command line client that forwards what is typed, the loop of the    *)
(* client's thread with its select() on the socket and its buffered stream *)
(* above it, and running_modules_lock, which a command keeps while it      *)
(* waits for the operator's answer and which the service thread needs.     *)
(*                                                                         *)
(* What the commands do to the modules is Supervisor's; who is admitted to *)
(* the configuration mode is DaemonClients'.                               *)
(***************************************************************************)
EXTENDS Selection, FiniteSets

CONSTANTS Options,    \* lines typed at the menu
          Answers,    \* lines typed at a question
          MaxAhead    \* bound on the lines waiting for the server

ASSUME DialogAssumption ==
    /\ MaxAhead \in Nat
    /\ Options \subseteq Seq(Character) /\ Answers \subseteq Seq(Character)

VARIABLES cli,      \* the client's process: "up" or "closed"
          shown,    \* the prompt that the operator sees and has not answered
          hasty,    \* has this operator typed something else than an answer?
          zeros,    \* zeros of a Dstop that are still to be sent
          stopping, \* Dstop was typed at the menu
          socket,   \* lines sent and not read from the socket
          stream,   \* lines in the buffer of client_input_stream
          place,    \* where the client's thread is
          lock,     \* who holds running_modules_lock
          nine_cnt,
          daemon_terminated,
          heard     \* the line read last, and by which prompt

operator == <<hasty, zeros, stopping>>

server == <<place, lock, nine_cnt, daemon_terminated, heard>>

dvars == <<cli, shown, operator, socket, stream, server>>

Nothing == [by |-> "none", for |-> "none", text |-> <<>>]

DialogInit ==
    /\ cli = "up" /\ shown = "menu" /\ hasty = FALSE
    /\ zeros = 0 /\ stopping = FALSE
    /\ socket = <<>> /\ stream = <<>>
    /\ place = "select" /\ lock = "free"
    /\ nine_cnt = 0 /\ daemon_terminated = FALSE
    /\ heard = Nothing

-----------------------------------------------------------------------------
(* The client and its operator.                                            *)

Sent(for, text) == socket' = Append(socket, [for |-> for, text |-> text])

Typing == cli = "up" /\ zeros = 0

\* An answer to the prompt on the screen.
TypeLine ==
    /\ Typing /\ shown # "none"
    /\ \E text \in IF shown = "menu" THEN Options ELSE Answers : Sent(shown, text)
    /\ shown' = "none"
    /\ UNCHANGED <<cli, operator, stream, server>>

\* A line typed before there is a prompt for it.
TypeAhead ==
    /\ Typing /\ shown = "none"
    /\ Len(socket) + Len(stream) < MaxAhead
    /\ \E text \in Options : Sent("menu", text)
    /\ hasty' = TRUE
    /\ UNCHANGED <<cli, shown, zeros, stopping, stream, server>>

\* Mutant: the loop of the client ends one zero too early.
TwoZeros ==
    /\ Typing /\ Len(socket) + Len(stream) < MaxAhead
    /\ zeros' = 2
    /\ hasty' = (hasty \/ shown # "menu")
    /\ stopping' = (~hasty /\ shown = "menu")
    /\ shown' = "none"
    /\ UNCHANGED <<cli, socket, stream, server>>

\* The client turns it into three zeros.
TypeDstop ==
    /\ Typing /\ Len(socket) + Len(stream) < MaxAhead
    /\ zeros' = 3
    /\ hasty' = (hasty \/ shown # "menu")
    /\ stopping' = (~hasty /\ shown = "menu")
    /\ shown' = "none"
    /\ UNCHANGED <<cli, socket, stream, server>>

\* There are 300 ms between two zeros: in that time a server that waits in
\* select() has read what there is.
SendZero ==
    /\ cli = "up" /\ zeros > 0
    /\ place = "select" => socket = <<>>
    /\ Sent("menu", <<0>>)
    /\ zeros' = zeros - 1
    /\ UNCHANGED <<cli, shown, hasty, stopping, stream, server>>

\* Cquit, or the end of the client's terminal.
CloseClient ==
    /\ Typing
    /\ cli' = "closed" /\ shown' = "none"
    /\ UNCHANGED <<operator, socket, stream, server>>

-----------------------------------------------------------------------------
(* The client's thread in the server.                                      *)

\* fgets: a line of the buffer, which is filled from the socket when empty.
get_input_from_stream(prompt) ==
    LET all == IF stream = <<>> THEN socket ELSE stream
    IN  /\ all # <<>>
        /\ stream' = Tail(all)
        /\ socket' = IF stream = <<>> THEN <<>> ELSE socket
        /\ heard' = [by |-> prompt, for |-> Head(all).for, text |-> Head(all).text]

\* The options are sent again after a command, unless a Dstop may be coming
\* in.
daemon_send_options_to_client ==
    shown' = IF nine_cnt' = 0 /\ ~daemon_terminated' /\ cli = "up"
             THEN "menu" ELSE shown

\* Mutant: the menu is on the screen while the command waits for the lock.
AskAfterMenu == place' = "asking" /\ shown' = "menu"

\* The commands 1, 2 and 3 wait for running_modules_lock.
AskForModules == place' = "asking" /\ UNCHANGED shown

CountZero ==
    /\ nine_cnt' = nine_cnt + 1
    /\ daemon_terminated' = (daemon_terminated \/ nine_cnt' = 3)

\* select() says there is something in the socket: the next line is a command.
ReadOption ==
    /\ place = "select" /\ ~daemon_terminated /\ socket # <<>>
    /\ get_input_from_stream("menu")
    /\ LET request == get_number_from_input_choosing_option(heard'.text)
       IN  /\ IF request = 0 THEN CountZero
                             ELSE UNCHANGED <<nine_cnt, daemon_terminated>>
           /\ CASE request \in 1..3 -> AskForModules
                [] request = 7 -> place' = "reload" /\ UNCHANGED shown
                [] request = 9 -> /\ place' = "logs"
                                  /\ shown' = IF cli = "up" THEN "logs" ELSE shown
                [] OTHER -> UNCHANGED place /\ daemon_send_options_to_client
    /\ UNCHANGED <<cli, operator, lock>>

\* The list is sent with the question; or there is nothing to choose from.
AskQuestion ==
    /\ place = "asking" /\ lock = "free"
    /\ \/ /\ lock' = "client" /\ place' = "question"
          /\ shown' = IF cli = "up" THEN "question" ELSE shown
          /\ UNCHANGED <<nine_cnt, daemon_terminated>>
       \/ /\ place' = "select" /\ UNCHANGED <<lock, nine_cnt, daemon_terminated>>
          /\ daemon_send_options_to_client
    /\ UNCHANGED <<cli, operator, socket, stream, heard>>

\* The reload asks nothing and has the lock from its first line to its last.
Reload ==
    /\ place = "reload" /\ lock = "free"
    /\ place' = "select" /\ UNCHANGED <<lock, nine_cnt, daemon_terminated>>
    /\ daemon_send_options_to_client
    /\ UNCHANGED <<cli, operator, socket, stream, heard>>

\* What fgets returns: a line, or nothing after a hang-up.
Answered(prompt) ==
    \/ get_input_from_stream(prompt)
    \/ /\ stream = <<>> /\ socket = <<>> /\ cli = "closed"
       /\ heard' = Nothing
       /\ UNCHANGED <<socket, stream>>

\* Mutant: an early return for an empty answer keeps the lock.
UnlockNonempty == lock' = IF heard'.text = <<>> THEN lock ELSE "free"

\* The answer was applied, or refused.
UnlockModules == lock' = "free"

ReadAnswer ==
    /\ place = "question" /\ Answered("question")
    /\ UnlockModules
    /\ place' = "select" /\ UNCHANGED <<nine_cnt, daemon_terminated>>
    /\ daemon_send_options_to_client
    /\ UNCHANGED <<cli, operator>>

\* The number of a log file; no lock is held.
ReadLogNumber ==
    /\ place = "logs" /\ Answered("logs")
    /\ place' = "select" /\ UNCHANGED <<nine_cnt, daemon_terminated, lock>>
    /\ daemon_send_options_to_client
    /\ UNCHANGED <<cli, operator>>

\* Nothing came for 500 ms, so there is no Dstop under way.
Timeout ==
    /\ place = "select" /\ ~daemon_terminated
    /\ socket = <<>> /\ cli = "up" /\ zeros = 0
    /\ nine_cnt > 0
    /\ nine_cnt' = 0
    /\ UNCHANGED <<place, lock, daemon_terminated, heard>>
    /\ daemon_send_options_to_client
    /\ UNCHANGED <<cli, operator, socket, stream>>

\* The loop's condition, or select() with nothing to read: the client is gone.
Disconnect ==
    /\ place = "select"
    /\ daemon_terminated \/ (cli = "closed" /\ socket = <<>>)
    /\ place' = "ended" /\ cli' = "closed" /\ shown' = "none" /\ zeros' = 0
    /\ UNCHANGED <<hasty, stopping, socket, stream, lock, nine_cnt,
                   daemon_terminated, heard>>

\* The next operator connects in configuration mode.
Connect ==
    /\ place = "ended" /\ ~daemon_terminated
    /\ cli' = "up" /\ shown' = "menu" /\ hasty' = FALSE
    /\ zeros' = 0 /\ stopping' = FALSE
    /\ socket' = <<>> /\ stream' = <<>>
    /\ place' = "select" /\ nine_cnt' = 0
    /\ heard' = Nothing
    /\ UNCHANGED <<lock, daemon_terminated>>

-----------------------------------------------------------------------------
(* The service thread, as far as the lock goes.                            *)

ServiceTakes ==
    /\ lock = "free" /\ lock' = "service"
    /\ UNCHANGED <<cli, shown, operator, socket, stream, place, nine_cnt,
                   daemon_terminated, heard>>

ServiceLeaves ==
    /\ lock = "service" /\ lock' = "free"
    /\ UNCHANGED <<cli, shown, operator, socket, stream, place, nine_cnt,
                   daemon_terminated, heard>>

ClientThread == ReadOption \/ ReadAnswer \/ ReadLogNumber \/ Timeout \/ Disconnect

DialogNext ==
    \/ TypeLine \/ TypeAhead \/ TypeDstop \/ SendZero \/ CloseClient
    \/ ReadOption \/ AskQuestion \/ Reload \/ ReadAnswer \/ ReadLogNumber
    \/ Timeout \/ Disconnect \/ Connect
    \/ ServiceTakes \/ ServiceLeaves

\* Nobody has to type; the threads and the client run.  The service thread
\* sleeps between two cycles without the lock and an operator takes longer
\* than a thread to get hold of a free lock, hence the strong fairness.
DialogFairness ==
    /\ WF_dvars(SendZero) /\ WF_dvars(ClientThread) /\ WF_dvars(ServiceLeaves)
    /\ SF_dvars(AskQuestion) /\ SF_dvars(Reload) /\ SF_dvars(ServiceTakes)

DialogSpec == DialogInit /\ [][DialogNext]_dvars /\ DialogFairness

-----------------------------------------------------------------------------

\* An operator who answers what is on the screen is understood: the line is
\* read by the prompt it was typed for, never by one that came up meanwhile
\* (daemon_serve_client_routine sends the menu when a command is done).
AnswersMeetQuestions == ~hasty => heard.by = heard.for

\* A selection has the numbers that its line names, each once, and a line that
\* is no selection is refused (parse_numbers_user_selection); numbers from
\* INT_MAX on are excepted, they wrap around.
SelectionAsWritten ==
    heard.by = "question" /\ Fits(heard.text)
        => MeansWhatItSays(heard.text, parse_numbers_user_selection(heard.text))

\* Dstop stops the daemon: its three zeros are counted together, the timeout
\* of the loop does not come in between.
StopRequestStops == stopping ~> daemon_terminated

\* A command gives running_modules_lock back once the operator has answered or
\* left, whatever the answer is: only an operator who does neither keeps the
\* service thread from its cycle.
LockGivenBack ==
    (lock = "client" /\ (socket \o stream # <<>> \/ cli = "closed")) ~> (lock # "client")
=============================================================================
