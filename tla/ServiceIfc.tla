----------------------------- MODULE ServiceIfc -----------------------------
(***************************************************************************)
(* The service interface: in every cycle the service thread connects to    *)
(* the Unix socket of each running module, sends a request on every        *)
(* connection and reads the replies, which carry the module's statistics.  *)
(* The sockets are non-blocking and a call gives up after a fixed number   *)
(* of attempts, so that a module cannot hold up the supervisor.            *)
(*                                                                         *)
(* The module adds the sockets to Supervisor: a step of the service thread *)
(* is a step of Supervisor together with what it does to the sockets.      *)
(* `place' is where the thread is in the part of its cycle that Supervisor *)
(* leaves out; it holds running_modules_lock there, too.                   *)
(***************************************************************************)
EXTENDS Supervisor

CONSTANTS Fds,        \* descriptor numbers of the supervisor; 0 is stdin
          MaxTry,     \* SERVICE_WAIT_MAX_TRY (8)
          MaxChunks,  \* a reply's statistics arrive in at most so many pieces
          NotJson,    \* statistics that do not parse, or no object
          Documents   \* statistics a module may send, if they parse

ASSUME ServiceIfcAssumption ==
    /\ Fds \subseteq Nat /\ 0 \in Fds
    /\ MaxTry \in Nat /\ MaxChunks \in Nat
    /\ NotJson \notin Documents

\* The counts are read into unsigned integers; -1 stands for a missing one.
ASSUME DocumentsAssumption ==
    \A d \in Documents : d.in_cnt \in Nat \cup {-1} /\ d.out_cnt \in Nat \cup {-1}

VARIABLES place,      \* "out", "connect", "request" or "receive"
          z,          \* loop index of the three loops over the slots
          ifc,        \* what the slots know of their service interfaces
          files,      \* the supervisor's descriptors
          listening,  \* processes that have opened their service socket
          header,     \* header->com, one buffer for requests and replies
          rx          \* progress of the reply that is being read

ifcvars == <<place, z, ifc, files, listening, header, rx>>

allvars == <<vars, ifcvars>>

(***************************************************************************)
(* A slot's part.  conn_timer is service_ifc_conn_timer with whole periods *)
(* taken off, so that 0 is a timer just reset.  A table of interfaces has  *)
(* a count and an array of entries, of which only "is ifc_id set" is kept. *)
(* Slots come out of calloc and memset: the descriptor of an unused one is *)
(* 0.                                                                      *)
(***************************************************************************)
EmptyIfc == [sd |-> 0, isconnected |-> FALSE, conn_timer |-> 0,
             in |-> [total |-> 0, ids |-> <<>>],
             out |-> [total |-> 0, ids |-> <<>>]]

Closed == [kind |-> "closed"]

Stdin == [kind |-> "stdin"]

\* A connection to process p: the requests p has not read, what it has still
\* to write, and what it has written and the supervisor has not read.
SocketTo(p) == [kind |-> "socket", pid |-> p, open |-> TRUE,
                inbox |-> <<>>, tosend |-> <<>>, unread |-> <<>>]

Sockets == {f \in Fds : files[f].kind = "socket"}

NoTries == [part |-> "header", size |-> 0, got |-> 0, tries |-> 0]

Get == "SERVICE_GET_COM"

Ok == "SERVICE_OK_REPLY"

IfcInit ==
    /\ Init
    /\ place = "out" /\ z = 1
    /\ ifc = [m \in Modules |-> EmptyIfc]
    /\ files = [f \in Fds |-> IF f = 0 THEN Stdin ELSE Closed]
    /\ listening \in SUBSET {p \in Pids : Alive(p)}
    /\ header = "none"
    /\ rx = NoTries

-----------------------------------------------------------------------------
(* What the steps of Supervisor do to the sockets. *)

\* Close the descriptors of the modules in S that have one.
CloseOf(S) ==
    files' = [f \in Fds |-> IF \E m \in S : ifc[m].sd = f THEN Closed ELSE files[f]]

NoSocket(i) == [i EXCEPT !.sd = -1, !.isconnected = FALSE]

\* Modules whose process the status check finds ended.
FoundEnded == {m \in Loaded : /\ running_modules[m].module_pid \in Pids
                              /\ ~Exists(running_modules[m].module_pid)}

\* Mutant: the socket of an ended module is left to the next start.
ForgetEnded ==
    /\ ifc' = [m \in Modules |-> IF m \in FoundEnded
                                 THEN [ifc[m] EXCEPT !.isconnected = FALSE]
                                 ELSE ifc[m]]
    /\ UNCHANGED files

CloseEnded ==
    /\ ifc' = [m \in Modules |-> IF m \in FoundEnded THEN NoSocket(ifc[m])
                                                     ELSE ifc[m]]
    /\ CloseOf(FoundEnded)

\* The four status checks of a cycle; the third and the fourth are followed
\* by the loops of this module.
CheckStep ==
    /\ place = "out" /\ pc \in {"idle", "check", "report", "receive"}
    /\ ServiceStep
    /\ CloseEnded
    /\ place' = CASE pc = "report" -> "connect"
                  [] pc = "receive" -> "receive"
                  [] OTHER -> "out"
    /\ z' = 1
    /\ header' = IF pc = "report" THEN Get ELSE header
    /\ rx' = NoTries
    /\ UNCHANGED listening

\* init_module_variables forgets the descriptor, it does not close it.
Initialized(i) == [NoSocket(i) EXCEPT !.conn_timer = 0]

StartStep ==
    /\ place = "out" /\ pc = "update"
    /\ ServiceStep
    /\ ifc' = [m \in Modules |-> IF m \in ToStart THEN Initialized(ifc[m])
                                                  ELSE ifc[m]]
    /\ UNCHANGED <<place, z, files, listening, header, rx>>

\* service_disconnect_from_module for the modules in S.
Disconnected(i) ==
    IF i.isconnected THEN Initialized(i) ELSE [i EXCEPT !.conn_timer = 0]

service_disconnect_from_module(S) ==
    /\ ifc' = [m \in Modules |-> IF m \in S THEN Disconnected(ifc[m]) ELSE ifc[m]]
    /\ CloseOf({m \in S : ifc[m].isconnected})

\* A module that waits for its restart is disconnected, a freed slot zeroed.
ServeStep ==
    /\ place = "out" /\ pc = "serve"
    /\ ServiceStep
    /\ LET waiting == {m \in Loaded : /\ y <= Len(slots) /\ m = slots[y]
                                      /\ ~running_modules[m].served
                                      /\ ~running_modules[m].remove_module
                                      /\ running_modules[m].init_module
                                      /\ running_modules[m].module_status}
           freed == {m \in Loaded : /\ y <= Len(slots) /\ m = slots[y]
                                    /\ Removable(running_modules[m])}
       IN  IF freed # {}
           THEN /\ ifc' = [m \in Modules |-> IF m \in freed THEN EmptyIfc ELSE ifc[m]]
                /\ UNCHANGED files
           ELSE service_disconnect_from_module(waiting)
    /\ UNCHANGED <<place, z, listening, header, rx>>

\* The first load initialises the modules whose process it adopts.
LoadStep ==
    /\ place = "out" /\ pc \in {"load", "reload"}
    /\ Reload
    /\ ifc' = [m \in Modules |->
          IF /\ pc = "load" /\ y > Len(config.modules)
             /\ m \in Loaded /\ running_modules[m].module_pid \in Pids
          THEN Initialized(ifc[m]) ELSE ifc[m]]
    /\ UNCHANGED <<place, z, files, listening, header, rx>>

\* Signals and reaping leave the sockets alone, and so do the commands.
QuietStep ==
    /\ place = "out" /\ pc \in {"sigint", "clean", "sigkill", "cleanagain"}
    /\ ServiceStep
    /\ UNCHANGED ifcvars

CommandStep == place = "out" /\ Command /\ UNCHANGED ifcvars

-----------------------------------------------------------------------------
(* The three loops over the slots. *)

\* Go on with the next slot, or with the next phase after the last one.
NextSlot(next) ==
    IF z < Len(slots) THEN z' = z + 1 /\ place' = place
                      ELSE z' = 1 /\ place' = next

\* A table without slots.
EmptyLoop ==
    /\ place # "out" /\ slots = <<>>
    /\ place' = IF place = "connect" THEN "request" ELSE "out"
    /\ UNCHANGED <<vars, z, ifc, files, listening, header, rx>>

InLoop(where) == place = where /\ slots # <<>>

NextTry(t) == IF t = Periods THEN 1 ELSE t + 1

\* Mutant: one attempt only.
AttemptOnce(t) == t = 0

\* The first cycle without a connection, then every Periods cycles.
Attempt(t) == NextTry(t) % Periods = 1

\* socket and connect, after a descriptor that is left over was closed: they
\* fail if no descriptor is free or the process has not opened its socket.
service_connect_to_module(m) ==
    LET p == running_modules[m].module_pid
        kept == [f \in Fds |-> IF f = ifc[m].sd THEN Closed ELSE files[f]]
        free == {f \in Fds : kept[f] = Closed}
    IN  IF free # {} /\ p \in listening
        THEN LET f == CHOOSE f \in free : \A g \in free : f <= g
             IN  /\ files' = [kept EXCEPT ![f] = SocketTo(p)]
                 /\ ifc' = [ifc EXCEPT ![m].sd = f, ![m].isconnected = TRUE,
                                       ![m].conn_timer = 0]
        ELSE /\ files' = kept
             /\ ifc' = [ifc EXCEPT ![m].sd = -1,
                                   ![m].conn_timer = NextTry(@)]

service_check_connections ==
    /\ InLoop("connect")
    /\ LET m == slots[z]
       IN  IF ~running_modules[m].module_status \/ ifc[m].isconnected
           THEN UNCHANGED <<ifc, files>>
           ELSE IF Attempt(ifc[m].conn_timer) THEN service_connect_to_module(m)
           ELSE /\ ifc' = [ifc EXCEPT ![m].conn_timer = NextTry(@)]
                /\ UNCHANGED files
    /\ NextSlot("request")
    /\ UNCHANGED <<vars, listening, header, rx>>

\* The request fits into an empty socket; send fails if the process has
\* ended (EPIPE), and may fail otherwise.
service_send_data ==
    /\ InLoop("request")
    /\ LET m == slots[z]
           f == ifc[m].sd
       IN  \/ /\ ~ifc[m].isconnected
              /\ UNCHANGED <<ifc, files>>
           \/ /\ ifc[m].isconnected /\ files[f].open
              /\ files' = [files EXCEPT ![f].inbox = Append(@, header)]
              /\ UNCHANGED ifc
           \/ /\ ifc[m].isconnected
              /\ service_disconnect_from_module({m})
    /\ NextSlot("out")
    /\ UNCHANGED <<vars, listening, header, rx>>

\* A reply is read from the modules that run and are connected.
Receiving(m) == running_modules[m].module_status /\ ifc[m].isconnected

SkipReceive ==
    /\ InLoop("receive") /\ ~Receiving(slots[z])
    /\ NextSlot("out")
    /\ UNCHANGED <<vars, ifc, files, listening, header, rx>>

\* Mutant: a module that fails to answer in time keeps its connection.
GiveUpKept(m, i) == ifc' = [ifc EXCEPT ![m] = i] /\ UNCHANGED files

\* Any failure while receiving ends the connection; `i' is what has become of
\* the slot's statistics until then.
GiveUp(m, i) == ifc' = [ifc EXCEPT ![m] = Disconnected(i)] /\ CloseOf({m})

\* Mutant: an attempt too many.
OutOfTriesLate(tries) == tries > MaxTry + 1

OutOfTries(tries) == tries > MaxTry

\* Mutant: a timeout is not counted.
TimeoutIgnored(tries) == tries

TimeoutCounted(tries) == tries + 1

\* EAGAIN, until the attempts are used up.
RecvAgain ==
    /\ InLoop("receive") /\ Receiving(slots[z])
    /\ LET f == ifc[slots[z]].sd
       IN  files[f].open /\ files[f].unread = <<>>
    /\ IF OutOfTries(TimeoutCounted(rx.tries))
       THEN /\ GiveUp(slots[z], ifc[slots[z]])
            /\ NextSlot("out") /\ rx' = NoTries
       ELSE /\ rx' = [rx EXCEPT !.tries = TimeoutCounted(@)]
            /\ UNCHANGED <<ifc, files, place, z>>
    /\ UNCHANGED <<vars, listening, header>>

\* The process has ended: end of file or a reset connection.
RecvClosed ==
    /\ InLoop("receive") /\ Receiving(slots[z])
    /\ ~files[ifc[slots[z]].sd].open
    /\ GiveUp(slots[z], ifc[slots[z]])
    /\ NextSlot("out") /\ rx' = NoTries
    /\ UNCHANGED <<vars, listening, header>>
-----------------------------------------------------------------------------
(***************************************************************************)
(* service_decode_module_stats.  A document has two counts (-1: the key is *)
(* missing) and two arrays of entries, TRUE if the entry is complete; a    *)
(* missing array is an array with a broken entry.  The statistics found    *)
(* before something is missing stay in the slot.                           *)
(***************************************************************************)

\* Mutant: the count stays as it was when the new array cannot be allocated.
ResizedOrGone(t, n, alloc) ==
    IF n = t.total THEN t
    ELSE IF alloc THEN [total |-> n, ids |-> [i \in 1..n |-> FALSE]]
    ELSE [total |-> t.total, ids |-> <<>>]

\* The array is replaced when the number of interfaces has changed.
Resized(t, n, alloc) ==
    IF n = t.total THEN t
    ELSE IF alloc THEN [total |-> n, ids |-> [i \in 1..n |-> FALSE]]
    ELSE [total |-> 0, ids |-> <<>>]

NoMemory(t, n, alloc) == n # t.total /\ ~alloc

\* Entries beyond the count are not looked at.
BrokenEntry(t, entries) ==
    \E i \in DOMAIN entries : i <= t.total /\ ~entries[i]

\* The entries before the first broken one are taken over.
Filled(t, entries) ==
    [t EXCEPT !.ids = [i \in DOMAIN t.ids |->
        \/ t.ids[i]
        \/ i \in DOMAIN entries /\ \A j \in 1..i : entries[j]]]

service_decode_module_stats(i, doc, alloc) ==
    LET stop0 == doc = NotJson \/ doc.in_cnt = -1
        in1   == IF stop0 THEN i.in ELSE Resized(i.in, doc.in_cnt, alloc.in)
        stop1 == \/ stop0
                 \/ NoMemory(i.in, doc.in_cnt, alloc.in)
                 \/ doc.out_cnt = -1
        out1  == IF stop1 THEN i.out ELSE Resized(i.out, doc.out_cnt, alloc.out)
        stop2 == stop1 \/ NoMemory(i.out, doc.out_cnt, alloc.out)
        in2   == IF stop2 THEN in1 ELSE Filled(in1, doc.in)
        stop3 == stop2 \/ BrokenEntry(in1, doc.in)
        out2  == IF stop3 THEN out1 ELSE Filled(out1, doc.out)
    IN  [ok |-> ~(stop3 \/ BrokenEntry(out1, doc.out)),
         ifc |-> [i EXCEPT !.in = in2, !.out = out2]]

\* What follows when all of a reply is there; an empty one does not parse.
Decode(m, doc) ==
    \E alloc \in [in : BOOLEAN, out : BOOLEAN] :
        LET d == service_decode_module_stats(ifc[m], doc, alloc)
        IN  IF d.ok
            THEN /\ ifc' = [ifc EXCEPT ![m] = d.ifc]
                 /\ files' = [files EXCEPT ![ifc[m].sd].unread = Tail(@)]
            ELSE GiveUp(m, d.ifc)

\* One piece arrives.  The header is read over the request that was sent.
RecvHeader ==
    /\ InLoop("receive") /\ Receiving(slots[z]) /\ rx.part = "header"
    /\ LET m == slots[z]
           f == ifc[m].sd
           reply == Head(files[f].unread)
       IN  /\ files[f].unread # <<>>
           /\ header' = reply.com
           /\ IF reply.com # Ok
              THEN GiveUp(m, ifc[m]) /\ NextSlot("out") /\ rx' = NoTries
              ELSE IF reply.data_size = 0
              THEN Decode(m, NotJson) /\ NextSlot("out") /\ rx' = NoTries
              ELSE /\ files' = [files EXCEPT ![f].unread = Tail(@)]
                   /\ rx' = [part |-> "data", size |-> reply.data_size,
                             got |-> 0, tries |-> 0]
                   /\ UNCHANGED <<ifc, place, z>>
    /\ UNCHANGED <<vars, listening>>

RecvData ==
    /\ InLoop("receive") /\ Receiving(slots[z]) /\ rx.part = "data"
    /\ LET m == slots[z]
           f == ifc[m].sd
       IN  /\ files[f].unread # <<>>
           /\ IF rx.got + 1 = rx.size
              THEN /\ Decode(m, Head(files[f].unread).doc)
                   /\ NextSlot("out") /\ rx' = NoTries
              ELSE /\ files' = [files EXCEPT ![f].unread = Tail(@)]
                   /\ rx' = [rx EXCEPT !.got = @ + 1]
                   /\ UNCHANGED <<ifc, place, z>>
    /\ UNCHANGED <<vars, listening, header>>

-----------------------------------------------------------------------------
(* The modules' side (libtrap), as far as the supervisor relies on it. *)

Listen(p) ==
    /\ Alive(p) /\ p \notin listening
    /\ listening' = listening \cup {p}
    /\ UNCHANGED <<vars, place, z, ifc, files, header, rx>>

\* A request is answered by a header and the pieces it announces; a request
\* that is not understood is answered by another code.
Answer(f) ==
    /\ f \in Sockets /\ files[f].open
    /\ files[f].inbox # <<>> /\ files[f].tosend = <<>>
    /\ \E com \in {Ok, "other"}, n \in 0..MaxChunks, doc \in Documents :
          /\ com = Ok => Head(files[f].inbox) = Get
          /\ files' = [files EXCEPT
                ![f].inbox = Tail(@),
                ![f].tosend =
                    <<[com |-> com, data_size |-> n]>> \o
                    [i \in 1..n |-> [doc |-> IF com = Ok THEN doc ELSE NotJson]]]
    /\ UNCHANGED <<vars, place, z, ifc, listening, header, rx>>

Write(f) ==
    /\ f \in Sockets /\ files[f].open /\ files[f].tosend # <<>>
    /\ files' = [files EXCEPT ![f].tosend = Tail(@),
                              ![f].unread = Append(@, Head(files[f].tosend))]
    /\ UNCHANGED <<vars, place, z, ifc, listening, header, rx>>

ProcessExit(p) ==
    /\ Exit(p)
    /\ listening' = listening \ {p}
    /\ files' = [f \in Fds |->
          IF f \in Sockets /\ files[f].pid = p
          THEN [files[f] EXCEPT !.open = FALSE, !.inbox = <<>>, !.tosend = <<>>]
          ELSE files[f]]
    /\ UNCHANGED <<place, z, ifc, header, rx>>

-----------------------------------------------------------------------------
InterfaceStep ==
    \/ EmptyLoop
    \/ service_check_connections
    \/ service_send_data
    \/ SkipReceive \/ RecvAgain \/ RecvClosed \/ RecvHeader \/ RecvData

ServiceThread ==
    CheckStep \/ StartStep \/ ServeStep \/ QuietStep \/ InterfaceStep

ModuleStep ==
    \/ \E p \in Pids : Listen(p) \/ ProcessExit(p)
    \/ \E f \in Fds : Answer(f) \/ Write(f)

IfcNext == ServiceThread \/ LoadStep \/ CommandStep \/ ModuleStep

IfcSpec == IfcInit /\ [][IfcNext]_allvars

\* A reload runs on, and so does the service thread, which is not kept from the
\* lock for ever by commands and reloads.  Nothing is assumed of modules.
IfcFairSpec == IfcSpec /\ SF_allvars(ServiceThread) /\ WF_allvars(LoadStep)
-----------------------------------------------------------------------------
(* Properties. *)

Table == [total : Nat, ids : Seq(BOOLEAN)]

IfcTypeOK ==
    /\ place \in {"out", "connect", "request", "receive"}
    /\ z \in Nat \ {0}
    /\ ifc \in [Modules -> [sd : Fds \cup {-1}, isconnected : BOOLEAN,
                            conn_timer : 0..Periods,
                            in : Table, out : Table]]
    /\ DOMAIN files = Fds
    /\ \A f \in Fds : files[f].kind \in {"closed", "stdin", "socket"}
    /\ listening \in SUBSET Pids
    /\ header \in {"none", Get, Ok, "other"}
    /\ rx \in [part : {"header", "data"}, size : 0..MaxChunks,
               got : 0..MaxChunks, tries : 0..MaxTry]

(***************************************************************************)
(* Descriptors are neither leaked nor closed for somebody else.  Every     *)
(* socket is the one of exactly one slot, although init_module_variables   *)
(* forgets a descriptor without closing it; a connected slot has a socket  *)
(* to the process it records now, not to the one before; and descriptor 0, *)
(* which an unused slot holds since it was zeroed, stays open.             *)
(***************************************************************************)
OwnSockets ==
    /\ files[0] = Stdin
    /\ \A f \in Sockets : \E m \in Loaded :
          ifc[m].sd = f /\ \A n \in Modules \ {m} : ifc[n].sd # f
    /\ \A m \in Modules : ifc[m].isconnected =>
          /\ ifc[m].sd \in Sockets
          /\ files[ifc[m].sd].pid = running_modules[m].module_pid

(***************************************************************************)
(* Requests and replies stay in step.  When a request is about to be sent  *)
(* nothing is left on the connection: no unanswered request and no piece   *)
(* of an earlier reply, however late, short or wrong it was, so the next   *)
(* header read is the answer to this request.  And although replies are    *)
(* read into the same header, what is sent is always a request.            *)
(***************************************************************************)
Quiet(c) == c.inbox = <<>> /\ c.tosend = <<>> /\ c.unread = <<>>

InStep ==
    /\ place = "request" => \A i \in z..Len(slots) :
          ifc[slots[i]].isconnected => Quiet(files[ifc[slots[i]].sd])
    /\ \A f \in Sockets : files[f].inbox \in {<<>>, <<Get>>}

(***************************************************************************)
(* The statistics of a module are read by the listings up to the counts in *)
(* the slot: whatever part of a reply was decoded before an error, the     *)
(* arrays are as long as the counts say.                                   *)
(***************************************************************************)
ArraysMatchCounts ==
    \A m \in Modules : /\ Len(ifc[m].in.ids) = ifc[m].in.total
                       /\ Len(ifc[m].out.ids) = ifc[m].out.total

(***************************************************************************)
(* A module that does not answer, or stops in the middle of a reply, does  *)
(* not stop the supervisor: the service thread always gets through its     *)
(* cycle and releases running_modules_lock.                                *)
(***************************************************************************)
LockReleased == []<>(place = "out" /\ pc = "idle")

(***************************************************************************)
(* A module that has opened its service socket is connected in the end,    *)
(* even if it was not ready at the first attempt or was disconnected since.*)
(***************************************************************************)
Linked(m, p) ==
    ifc[m].isconnected /\ ifc[m].sd \in Sockets /\ files[ifc[m].sd].pid = p

InterfaceConnects ==
    \A m \in Modules, p \in Pids :
        m \in Loaded /\ running_modules[m].module_pid = p /\ p \in listening
            ~> Linked(m, p) \/ ~Alive(p)
=============================================================================
