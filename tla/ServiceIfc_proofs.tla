------------------------- MODULE ServiceIfc_proofs -------------------------
(***************************************************************************)
(* The service interface for every value of the constants: any number of   *)
(* modules, descriptors, attempts and pieces of a reply.                   *)
(***************************************************************************)
EXTENDS ServiceIfc, Supervisor_proofs, WellFoundedInduction

-----------------------------------------------------------------------------
(* The inductive invariant. *)

\* The supervisor has a connection to the process of the module.
Connected(m) == ifc[m].isconnected

\* The header of a reply.
Headers == [com : {Ok, "other"}, data_size : 0..MaxChunks]

\* A piece of the statistics.
Pieces == [doc : Documents \cup {NotJson}]

\* What a module writes to a connection.
Messages == Headers \cup Pieces

\* An open socket; a module is only ever sent requests.
Connection == [kind : {"socket"}, pid : Pids, open : BOOLEAN,
               inbox : Seq({Get}), tosend : Seq(Messages), unread : Seq(Messages)]

\* The connection of a module.
Conn(m) == files[ifc[m].sd]

\* What the supervisor has still to read, in its order.
Stream(c) == c.unread \o c.tosend

\* A table whose array is as long as its count says.
FullTable == {t \in Table : Len(t.ids) = t.total}

\* What a slot knows of its interface.
IfcRecord == [sd : Fds \cup {-1}, isconnected : BOOLEAN, conn_timer : 0..Periods,
              in : FullTable, out : FullTable]

\* Types, and where the loops are: requests are sent between the third status
\* check of a cycle and the fourth, replies are read after it.
LoopInv ==
    /\ place \in {"out", "connect", "request", "receive"}
    /\ z \in Nat \ {0}
    /\ place # "out" => z = 1 \/ z <= Len(slots)
    /\ place \in {"connect", "request"} => pc = "receive" /\ header = Get
    /\ place = "receive" =>
          /\ pc = "idle"
          /\ \A m \in Modules : Pid(m) \in Pids => Status(m)
    /\ ifc \in [Modules -> IfcRecord]
    /\ files \in [Fds -> Connection \cup {Closed, Stdin}]
    /\ listening \in SUBSET Pids
    /\ header \in {"none", Get, Ok, "other"}

\* A slot is connected or it has no descriptor: -1, or 0 as long as no process
\* was started for it.  No socket is shared and none is without an owner.
SockInv ==
    /\ files[0] = Stdin
    /\ \A m \in Modules : IF Connected(m) THEN ifc[m].sd \in Sockets
                                          ELSE ifc[m].sd \in {-1, 0}
    /\ \A m, n \in Modules : Connected(m) /\ Connected(n) /\ ifc[m].sd = ifc[n].sd => m = n
    /\ \A f \in Sockets : \E m \in Modules : Connected(m) /\ ifc[m].sd = f

\* The connection is the one to the process the slot records, and a slot that
\* records one does not have the descriptor 0.
PidInv ==
    \A m \in Modules :
        /\ Connected(m) => Conn(m).pid = Pid(m) /\ Pid(m) \in Pids
        /\ Pid(m) \in Pids => IF pc = "load" THEN ~Connected(m) ELSE ifc[m].sd # 0

\* The reply of this module is being read.
Reading(m) == place = "receive" /\ slots # <<>> /\ slots[z] = m

\* The modules that may have been sent a request that is not dealt with.
Pending(m) ==
    CASE place = "connect" -> FALSE
      [] place = "request" -> \E i \in DOMAIN slots : i < z /\ slots[i] = m
      [] place = "receive" -> \E i \in DOMAIN slots : i >= z /\ slots[i] = m
      [] OTHER -> pc = "receive"

\* At most a header and the pieces it announces are to be read; less if the
\* process has ended.
HeaderNext(c) ==
    /\ c.inbox # <<>> => c.inbox = <<Get>> /\ Stream(c) = <<>>
    /\ Stream(c) # <<>> =>
          /\ Stream(c)[1] \in Headers
          /\ Len(Stream(c)) <= 1 + Stream(c)[1].data_size
          /\ \A i \in DOMAIN Stream(c) : i > 1 => Stream(c)[i] \in Pieces

\* At most n pieces are to be read.
DataNext(c, n) ==
    /\ c.inbox = <<>>
    /\ Len(Stream(c)) <= n
    /\ \A i \in DOMAIN Stream(c) : Stream(c)[i] \in Pieces

\* What is on the connection of a module fits to what is read next.
InOrder(m) == IF Reading(m) /\ rx.part = "data" THEN DataNext(Conn(m), rx.size - rx.got)
                                                ELSE HeaderNext(Conn(m))

\* Requests and replies are in step.
SyncInv ==
    /\ rx \in [part : {"header", "data"}, size : 0..MaxChunks,
               got : 0..MaxChunks, tries : 0..MaxTry]
    /\ rx # NoTries => /\ place = "receive" /\ slots # <<>>
                       /\ Connected(slots[z])
    /\ rx.part = "data" => rx.got < rx.size
    /\ \A m \in Modules : Connected(m) => /\ InOrder(m)
                                          /\ ~Pending(m) => Quiet(Conn(m))

\* The part about the interface, and all of it.
LinkInv == LoopInv /\ SockInv /\ PidInv /\ SyncInv

\* The inductive invariant.
IfcInv == IInv /\ DistinctInv /\ LinkInv

-----------------------------------------------------------------------------
(* What the steps are to Supervisor. *)

(***************************************************************************)
(* Every step is one of Supervisor's or leaves its state alone.            *)
(***************************************************************************)
LEMMA IfcStep ==
    ASSUME [IfcNext]_allvars
    PROVE  [Next]_vars
BY DEF IfcNext, ServiceThread, CheckStep, StartStep, ServeStep, QuietStep, InterfaceStep,
   EmptyLoop, service_check_connections, service_send_data, SkipReceive, RecvAgain,
   RecvClosed, RecvHeader, RecvData, LoadStep, CommandStep, ModuleStep, Listen,
   ProcessExit, Answer, Write, Next, allvars, ifcvars

(***************************************************************************)
(* So what was proved of the service thread holds here.                    *)
(***************************************************************************)
LEMMA IfcIInv ==
    ASSUME IInv, DistinctInv, [IfcNext]_allvars
    PROVE  IInv' /\ DistinctInv' /\ TypeOK'
<1>1. [Next]_vars /\ TypeOK
    BY IfcStep DEF IInv
<1> QED BY <1>1, NextInv, DistinctStep DEF IInv

(***************************************************************************)
(* A module with a recorded process is in the table.                       *)
(***************************************************************************)
LEMMA RecordedLoaded ==
    ASSUME IInv, NEW m \in Modules, Pid(m) \in Pids
    PROVE  m \in Loaded
BY SupervisorAssumption DEF IInv, UnloadedInv

(***************************************************************************)
(* The identifiers a step of Supervisor changes: the status check forgets  *)
(* the ended ones, a start sets one where there was none, and the first    *)
(* load adopts what the backup file says.                                  *)
(***************************************************************************)
LEMMA CheckPids ==
    ASSUME TypeOK, service_check_modules_status, NEW m \in Modules
    PROVE  /\ Pid(m) \notin Pids => Pid(m)' = Pid(m)
           /\ Pid(m) \in Pids => Pid(m)' = IF Exists(Pid(m)) THEN Pid(m) ELSE NoPid
           /\ Pid(m)' \in Pids => Status(m)'
<1>1. running_modules[m] \in ModuleRecord
      /\ running_modules'[m] = Checked(running_modules[m], m)
    BY DEF TypeOK, service_check_modules_status
<1>2. NoPid \notin Pids
    BY SupervisorAssumption
<1> QED BY <1>1, <1>2, CheckedFacts DEF Pid, Status

\* A start: only slots without a process get one.
LEMMA StartPids ==
    ASSUME IInv, pc = "update", service_update_modules_status, NEW m \in Modules
    PROVE  /\ m \notin ToStart => Pid(m)' = Pid(m)
           /\ m \in ToStart => Pid(m) \notin Pids
<1>1. PICK child \in [ToStart -> FreePids \cup {ForkFailed}] :
         running_modules' = [n \in Modules |->
              LET r == Ticked(running_modules[n])
              IN  IF n \in ToStart THEN service_start_module(r, child[n])
                  ELSE IF n \in OutOfRestarts
                       THEN [r EXCEPT !.module_enabled = FALSE]
                  ELSE IF n \in Loaded THEN r
                  ELSE running_modules[n]]
    BY DEF service_update_modules_status
<1> DEFINE r == Ticked(running_modules[m])
<1>2. running_modules[m] \in ModuleRecord /\ r \in ModuleRecord /\ r.module_pid = Pid(m)
    BY TickedFacts DEF IInv, TypeOK, Pid
<1>3. m \notin ToStart => running_modules'[m] \in
         {[r EXCEPT !.module_enabled = FALSE], r, running_modules[m]}
    BY <1>1
<1> HIDE DEF r
<1>4. [r EXCEPT !.module_enabled = FALSE].module_pid = r.module_pid
    BY <1>2 DEF ModuleRecord
<1>5. m \notin ToStart => Pid(m)' = Pid(m)
    BY <1>2, <1>3, <1>4 DEF Pid
<1>6. m \in ToStart => ~Status(m)
    BY DEF ToStart, Down, Status
<1>7. m \in ToStart => Pid(m) \notin Pids
    BY <1>6 DEF IInv, StatusInv, Status
<1> QED BY <1>5, <1>7

\* Signals, reaping and commands change no identifier.
LEMMA QuietPids ==
    ASSUME TypeOK,
           \/ service_stop_modules_sigint \/ service_stop_modules_sigkill
           \/ service_clean_after_children \/ Command,
           NEW m \in Modules
    PROVE  Pid(m)' = Pid(m)
<1> DEFINE r == running_modules[m]
<1>1. r \in ModuleRecord
    BY DEF TypeOK
<1>2. running_modules'[m] \in
         {r, [r EXCEPT !.sent_sigint = TRUE, !.restart_cnt = -1],
          [r EXCEPT !.restart_cnt = -1], [r EXCEPT !.module_is_my_child = FALSE],
          [r EXCEPT !.module_enabled = TRUE, !.restart_cnt = -1],
          [r EXCEPT !.module_enabled = FALSE],
          [r EXCEPT !.served = FALSE, !.module_enabled = FALSE, !.init_module = TRUE],
          Reset(r)}
  <2>1. CASE Command
      BY <2>1 DEF Command, interactive_set_enabled, interactive_set_disabled,
         interactive_restart_module, SetProfile, ReloadBegin, Update
  <2> QED BY <2>1 DEF service_stop_modules_sigint, service_stop_modules_sigkill,
          service_clean_after_children, Update
<1> HIDE DEF r
<1>3. Reset(r).module_pid = r.module_pid
    BY <1>1, ResetFacts
<1>4. running_modules'[m].module_pid = r.module_pid
    BY <1>1, <1>2, <1>3 DEF ModuleRecord
<1> QED BY <1>4 DEF Pid, r

\* A reload changes none either, once the first load is over.
LEMMA ReloadPids ==
    ASSUME IInv, Reload, pc # "load" \/ ReloadEnd, NEW m \in Modules
    PROVE  Pid(m)' = Pid(m)
<1> DEFINE r == running_modules[m]
<1>1. r \in ModuleRecord /\ TypeOK
    BY DEF IInv, TypeOK
<1>2. CASE ReloadEnd
  <2>1. running_modules'[m] \in
           {r, [r EXCEPT !.served = FALSE],
            [r EXCEPT !.served = FALSE, !.module_enabled = FALSE, !.remove_module = TRUE]}
      BY <1>2 DEF ReloadEnd
  <2> HIDE DEF r
  <2>2. running_modules'[m].module_pid = r.module_pid
      BY <1>1, <2>1 DEF ModuleRecord
  <2> QED BY <2>2 DEF Pid, r
<1>3. CASE ReloadModule /\ pc = "reload"
  <2>1. /\ After.module_pid = Before.module_pid /\ Element.name \in Modules
        /\ running_modules' = [running_modules EXCEPT ![Element.name] = After]
      BY <1>1, <1>3, ReloadFacts DEF BackupPid
  <2>2. Before.module_pid = Pid(Element.name)
    <3>1. CASE Fresh
        BY <2>1, <3>1, SlotFacts DEF Before, Fresh, IInv, UnloadedInv
    <3>2. CASE ~Fresh
        BY <3>2 DEF Before, Pid
    <3> QED BY <3>1, <3>2
  <2> QED BY <1>1, <2>1, <2>2 DEF Pid, TypeOK
<1> QED BY <1>2, <1>3 DEF Reload, ReloadModule

\* The serving loop forgets an identifier only with the slot.
LEMMA ServePids ==
    ASSUME IInv, ServeModule \/ ServeDone, NEW m \in Modules
    PROVE  \/ Pid(m)' = Pid(m)
           \/ /\ y \in DOMAIN slots /\ m = slots[y] /\ ServeModule
              /\ Removable(running_modules[m]) /\ Pid(m)' = NoPid
<1>1. running_modules[m] \in ModuleRecord /\ TypeOK
    BY DEF IInv, TypeOK
<1>2. CASE ServeDone
    BY <1>2 DEF ServeDone, Pid
<1>3. CASE ServeModule
  <2>1. y \in DOMAIN slots
      BY <1>1, <1>3, LenProperties DEF TypeOK, ServeModule
  <2>2. CASE Removable(running_modules[slots[y]])
    <3>1. running_modules' = [running_modules EXCEPT ![slots[y]] = EmptySlot]
        BY <1>3, <2>2 DEF ServeModule, free_module_and_shift_array
    <3> QED BY <1>1, <1>3, <2>1, <2>2, <3>1, SlotFacts DEF Pid, TypeOK
  <2>3. CASE ~Removable(running_modules[slots[y]])
    <3>1. running_modules'[m] \in {running_modules[m], Served(running_modules[m])}
        BY <1>1, <1>3, <2>3 DEF ServeModule, TypeOK
    <3> QED BY <1>1, <3>1, ServedFacts DEF Pid
  <2> QED BY <2>2, <2>3
<1> QED BY <1>2, <1>3

-----------------------------------------------------------------------------
(* What the operators on a slot's interface and on a connection return. *)

(***************************************************************************)
(* Forgetting and closing a descriptor, and a zeroed slot.                 *)
(***************************************************************************)
LEMMA IfcFacts ==
    /\ EmptyIfc \in IfcRecord /\ EmptyIfc.sd = 0 /\ EmptyIfc.isconnected = FALSE
    /\ \A i \in IfcRecord :
          /\ NoSocket(i) \in IfcRecord /\ NoSocket(i).sd = -1
          /\ NoSocket(i).isconnected = FALSE
          /\ Initialized(i) \in IfcRecord /\ Initialized(i).sd = -1
          /\ Initialized(i).isconnected = FALSE
          /\ Disconnected(i) \in IfcRecord
          /\ Disconnected(i).sd = IF i.isconnected THEN -1 ELSE i.sd
          /\ Disconnected(i).isconnected = FALSE
<1>1. 0 \in 0..Periods /\ 0 \in Fds
    BY PeriodsAssumption, ServiceIfcAssumption
<1>2. [total |-> 0, ids |-> <<>>] \in FullTable
    BY DEF FullTable, Table
<1>3. EmptyIfc \in IfcRecord /\ EmptyIfc.sd = 0 /\ EmptyIfc.isconnected = FALSE
    BY <1>1, <1>2 DEF EmptyIfc, IfcRecord
<1>4. ASSUME NEW i \in IfcRecord
      PROVE  /\ NoSocket(i) \in IfcRecord /\ NoSocket(i).sd = -1
             /\ NoSocket(i).isconnected = FALSE
    BY DEF NoSocket, IfcRecord
<1>5. ASSUME NEW i \in IfcRecord
      PROVE  /\ Initialized(i) \in IfcRecord /\ Initialized(i).sd = -1
             /\ Initialized(i).isconnected = FALSE
    BY <1>1, <1>4 DEF Initialized, IfcRecord
<1>6. ASSUME NEW i \in IfcRecord, ~i.isconnected
      PROVE  /\ [i EXCEPT !.conn_timer = 0] \in IfcRecord
             /\ [i EXCEPT !.conn_timer = 0].sd = i.sd
             /\ [i EXCEPT !.conn_timer = 0].isconnected = FALSE
    BY <1>1, <1>6 DEF IfcRecord
<1> QED BY <1>3, <1>4, <1>5, <1>6 DEF Disconnected

(***************************************************************************)
(* A module that writes moves a message along.                             *)
(***************************************************************************)
LEMMA WriteSeq ==
    ASSUME NEW S, NEW u \in Seq(S), NEW t \in Seq(S), t # <<>>
    PROVE  Append(u, Head(t)) \o Tail(t) = u \o t
OBVIOUS

\* Reading takes the first message off.
LEMMA ReadSeq ==
    ASSUME NEW S, NEW u \in Seq(S), NEW t \in Seq(S), u # <<>>
    PROVE  /\ Len(Tail(u) \o t) = Len(u \o t) - 1
           /\ \A i \in DOMAIN (Tail(u) \o t) :
                 i + 1 \in DOMAIN (u \o t) /\ (Tail(u) \o t)[i] = (u \o t)[i + 1]
           /\ u \o t # <<>> /\ (u \o t)[1] = Head(u)
OBVIOUS

\* What was written is a prefix of all that is to be read.
LEMMA PrefixSeq ==
    ASSUME NEW S, NEW u \in Seq(S), NEW t \in Seq(S)
    PROVE  /\ Len(u) <= Len(u \o t) /\ Len(u) \in Nat /\ Len(u \o t) \in Nat
           /\ \A i \in DOMAIN u : i \in DOMAIN (u \o t) /\ u[i] = (u \o t)[i]
           /\ u # <<>> => u \o t # <<>> /\ u[1] = (u \o t)[1]
           /\ Len(u \o t) <= 0 => u = <<>> /\ t = <<>>
OBVIOUS

(***************************************************************************)
(* Nothing is on a connection; then a request is sent and answered.        *)
(***************************************************************************)
LEMMA QuietFacts ==
    ASSUME NEW c \in Connection, Quiet(c)
    PROVE  /\ Stream(c) = <<>> /\ HeaderNext(c)
           /\ [c EXCEPT !.inbox = Append(@, Get)] \in Connection
           /\ HeaderNext([c EXCEPT !.inbox = Append(@, Get)])
<1>1. c.unread = <<>> /\ c.tosend = <<>> /\ c.inbox = <<>> /\ Append(c.inbox, Get) = <<Get>>
    BY DEF Quiet
<1>2. Stream(c) = <<>>
    BY <1>1 DEF Stream
<1> DEFINE d == [c EXCEPT !.inbox = <<Get>>]
<1>3. <<Get>> \in Seq({Get})
    OBVIOUS
<1>4. /\ d \in Connection /\ d.inbox = <<Get>>
      /\ d.unread = c.unread /\ d.tosend = c.tosend
    BY <1>3 DEF Connection
<1>5. d = [c EXCEPT !.inbox = Append(@, Get)]
    BY <1>1 DEF Connection
<1> HIDE DEF d
<1>6. Stream(d) = <<>>
    BY <1>1, <1>4 DEF Stream
<1>7. HeaderNext(d) /\ HeaderNext(c)
    BY <1>1, <1>2, <1>4, <1>6 DEF HeaderNext
<1> QED BY <1>2, <1>4, <1>5, <1>7

\* A header and the pieces it announces.
Reply(com, n, doc) == <<[com |-> com, data_size |-> n]>> \o [i \in 1..n |-> [doc |-> doc]]

\* The answer to a request is all that is on the connection then.
LEMMA AnswerFacts ==
    ASSUME NEW c \in Connection, HeaderNext(c), c.inbox # <<>>,
           NEW com \in {Ok, "other"}, NEW n \in 0..MaxChunks,
           NEW doc \in Documents \cup {NotJson},
           NEW t, t = Reply(com, n, doc)
    PROVE  /\ t \in Seq(Messages) /\ Tail(c.inbox) = <<>>
           /\ \A d \in Connection : d.inbox = <<>> /\ d.tosend = t /\ d.unread = c.unread
                                   => HeaderNext(d)
<1> DEFINE h == [com |-> com, data_size |-> n]
           ps == [i \in 1..n |-> [doc |-> doc]]
           q == <<h>> \o ps
<1>1. c.inbox = <<Get>> /\ Stream(c) = <<>>
    BY DEF HeaderNext
<1>2. c.unread = <<>> /\ c.tosend = <<>>
    BY <1>1 DEF Stream, Connection
<1>3. h \in Headers /\ h.data_size = n /\ [doc |-> doc] \in Pieces /\ n \in Nat
    BY ServiceIfcAssumption DEF Headers, Pieces
<1>4. ps \in Seq(Pieces) /\ Len(ps) = n /\ \A i \in 1..n : ps[i] \in Pieces
  <2> HIDE DEF h
  <2>1. ps \in [1..n -> Pieces]
      BY <1>3
  <2> QED BY <1>3, <2>1, IsASeq, LenProperties
<1>10. q \in Seq(Messages) /\ Len(q) = n + 1 /\ q[1] = h
       /\ \A i \in DOMAIN q : i > 1 => q[i] \in Pieces
  <2> HIDE DEF h, ps
  <2>1. <<h>> \in Seq(Messages) /\ ps \in Seq(Messages)
      BY <1>3, <1>4 DEF Messages
  <2>2. q \in Seq(Messages) /\ Len(q) = n + 1 /\ q[1] = h /\ DOMAIN q = 1..(n + 1)
      BY <1>3, <1>4, <2>1, ConcatProperties, LenProperties
  <2>3. ASSUME NEW i \in 1..(n + 1), i > 1 PROVE q[i] \in Pieces
    <3>1. q[i] = ps[i - 1] /\ i - 1 \in 1..n
        BY <1>3, <1>4, <2>1, <2>3, ConcatProperties
    <3> QED BY <1>4, <3>1
  <2> QED BY <2>2, <2>3
<1>5. /\ t \in Seq(Messages) /\ Len(t) = n + 1 /\ t[1] = h
      /\ \A i \in DOMAIN t : i > 1 => t[i] \in Pieces
  <2>1. t = q
      BY Zenon DEF Reply
  <2> HIDE DEF q, h
  <2> QED BY <1>10, <2>1, Zenon
<1>6. Tail(c.inbox) = <<>>
    BY <1>1
<1>7. ASSUME NEW d \in Connection, d.inbox = <<>>, d.tosend = t, d.unread = c.unread
      PROVE  HeaderNext(d)
  <2>1. Stream(d) = t
      BY <1>2, <1>5, <1>7 DEF Stream
  <2> HIDE DEF h
  <2>2. h \in Headers /\ Len(t) <= 1 + h.data_size
      BY <1>3, <1>5
  <2> QED BY <1>5, <1>7, <2>1, <2>2 DEF HeaderNext
<1> QED BY <1>5, <1>6, <1>7

(***************************************************************************)
(* What is left to read does not change when the module writes it.         *)
(***************************************************************************)
LEMMA WriteFacts ==
    ASSUME NEW c \in Connection, c.tosend # <<>>,
           NEW d, d = [c EXCEPT !.tosend = Tail(@),
                                !.unread = Append(@, Head(c.tosend))]
    PROVE  /\ d \in Connection /\ d.pid = c.pid
           /\ d.inbox = c.inbox /\ Stream(d) = Stream(c)
<1>1. /\ Tail(c.tosend) \in Seq(Messages) /\ Head(c.tosend) \in Messages
      /\ Append(c.unread, Head(c.tosend)) \in Seq(Messages)
  <2>1. c.tosend \in Seq(Messages) /\ c.unread \in Seq(Messages)
      BY DEF Connection
  <2> QED BY <2>1
<1>2. /\ d \in Connection /\ d.pid = c.pid /\ d.inbox = c.inbox
      /\ d.tosend = Tail(c.tosend)
      /\ d.unread = Append(c.unread, Head(c.tosend))
    BY <1>1 DEF Connection
<1>3. Append(c.unread, Head(c.tosend)) \o Tail(c.tosend) = c.unread \o c.tosend
    BY WriteSeq DEF Connection
<1> QED BY <1>2, <1>3 DEF Stream

(***************************************************************************)
(* The supervisor reads the header, then the pieces, and what the header   *)
(* announced is the most that is left to read.                             *)
(***************************************************************************)
LEMMA ReadFacts ==
    ASSUME NEW c \in Connection, c.unread # <<>>,
           NEW d, d = [c EXCEPT !.unread = Tail(@)]
    PROVE  /\ d \in Connection /\ d.pid = c.pid
           /\ HeaderNext(c) => /\ Head(c.unread) \in Headers
                               /\ DataNext(d, Head(c.unread).data_size)
           /\ \A n \in Nat : DataNext(c, n) => /\ Head(c.unread) \in Pieces
                                               /\ n > 0 /\ DataNext(d, n - 1)
<1>1. c.unread \in Seq(Messages) /\ c.tosend \in Seq(Messages)
    BY DEF Connection
<1>2. Tail(c.unread) \in Seq(Messages)
    BY <1>1
<1>3. /\ d \in Connection /\ d.pid = c.pid /\ d.inbox = c.inbox
      /\ d.tosend = c.tosend /\ d.unread = Tail(c.unread)
    BY <1>2 DEF Connection
<1> DEFINE s == Stream(c)
           t == Stream(d)
<1>4. s \in Seq(Messages) /\ t \in Seq(Messages)
    BY <1>1, <1>2, <1>3, ConcatProperties DEF Stream
<1>7. s = c.unread \o c.tosend /\ t = Tail(c.unread) \o c.tosend
    BY <1>3 DEF Stream
<1>8. /\ Len(t) = Len(s) - 1 /\ s # <<>> /\ s[1] = Head(c.unread)
      /\ \A i \in DOMAIN t : i + 1 \in DOMAIN s /\ t[i] = s[i + 1]
  <2> DEFINE u == c.unread
             w == c.tosend
  <2>1. u \in Seq(Messages) /\ w \in Seq(Messages) /\ u # <<>>
      BY <1>1
  <2> HIDE DEF u, w
  <2>2. /\ Len(Tail(u) \o w) = Len(u \o w) - 1
        /\ \A i \in DOMAIN (Tail(u) \o w) :
              i + 1 \in DOMAIN (u \o w) /\ (Tail(u) \o w)[i] = (u \o w)[i + 1]
        /\ u \o w # <<>> /\ (u \o w)[1] = Head(u)
      BY <2>1, ReadSeq
  <2> QED BY <1>7, <2>2, Zenon DEF u, w
<1> HIDE DEF s, t
<1>5. ASSUME HeaderNext(c)
      PROVE  Head(c.unread) \in Headers /\ DataNext(d, Head(c.unread).data_size)
  <2>1. /\ c.inbox = <<>> /\ s[1] \in Headers /\ Len(s) <= 1 + s[1].data_size
        /\ \A i \in DOMAIN s : i > 1 => s[i] \in Pieces
      BY <1>4, <1>8, <1>5 DEF HeaderNext, s
  <2>2. Len(t) <= s[1].data_size
      BY <1>4, <1>8, <2>1, LenProperties DEF Headers
  <2>3. \A i \in DOMAIN t : t[i] \in Pieces
      BY <1>4, <1>8, <2>1
  <2> QED BY <1>3, <1>4, <1>8, <2>1, <2>2, <2>3 DEF DataNext, t
<1>6. ASSUME NEW n \in Nat, DataNext(c, n)
      PROVE  Head(c.unread) \in Pieces /\ n > 0 /\ DataNext(d, n - 1)
  <2>1. c.inbox = <<>> /\ Len(s) <= n /\ \A i \in DOMAIN s : s[i] \in Pieces
      BY <1>6 DEF DataNext, s
  <2>2. 1 \in DOMAIN s /\ Len(t) <= n - 1 /\ n > 0
      BY <1>4, <1>8, <2>1, LenProperties
  <2>3. \A i \in DOMAIN t : t[i] \in Pieces
      BY <1>4, <1>8, <2>1
  <2> QED BY <1>3, <1>4, <1>8, <2>1, <2>2, <2>3 DEF DataNext, t
<1> QED BY <1>3, <1>5, <1>6

(***************************************************************************)
(* The last piece leaves nothing behind.                                   *)
(***************************************************************************)
LEMMA DrainedFacts ==
    ASSUME NEW c \in Connection, DataNext(c, 0)
    PROVE  Quiet(c)
<1>1. c.inbox = <<>> /\ Len(c.unread \o c.tosend) <= 0
    BY DEF DataNext, Stream
<1>2. c.unread \in Seq(Messages) /\ c.tosend \in Seq(Messages)
    BY DEF Connection
<1>4. c.unread = <<>> /\ c.tosend = <<>>
    BY <1>1, <1>2, PrefixSeq
<1> QED BY <1>1, <1>4 DEF Quiet

(***************************************************************************)
(* A process that ends leaves what it has written.                         *)
(***************************************************************************)
LEMMA ExitFacts ==
    ASSUME NEW c \in Connection,
           NEW d, d = [c EXCEPT !.open = FALSE, !.inbox = <<>>, !.tosend = <<>>]
    PROVE  /\ d \in Connection /\ d.pid = c.pid
           /\ Quiet(c) => Quiet(d)
           /\ HeaderNext(c) => HeaderNext(d)
           /\ \A n \in Nat : DataNext(c, n) => DataNext(d, n)
<1>1. c.unread \in Seq(Messages) /\ c.tosend \in Seq(Messages)
    BY DEF Connection
<1>2. /\ d \in Connection /\ d.pid = c.pid /\ d.inbox = <<>>
      /\ d.tosend = <<>> /\ d.unread = c.unread
  <2>1. <<>> \in Seq({Get}) /\ <<>> \in Seq(Messages)
      OBVIOUS
  <2> QED BY <2>1 DEF Connection
<1> DEFINE s == Stream(c)
           t == Stream(d)
<1>8. s = c.unread \o c.tosend /\ t = c.unread
    BY <1>1, <1>2, ConcatEmptySeq DEF Stream
<1> HIDE DEF s, t
<1> DEFINE u == c.unread
           w == c.tosend
<1>9. u \in Seq(Messages) /\ w \in Seq(Messages)
    BY <1>1
<1> HIDE DEF u, w
<1>3. /\ Len(t) <= Len(s) /\ Len(t) \in Nat /\ Len(s) \in Nat
      /\ \A i \in DOMAIN t : i \in DOMAIN s /\ t[i] = s[i]
  <2>1. /\ Len(u) <= Len(u \o w) /\ Len(u) \in Nat /\ Len(u \o w) \in Nat
        /\ \A i \in DOMAIN u : i \in DOMAIN (u \o w) /\ u[i] = (u \o w)[i]
      BY <1>9, PrefixSeq
  <2> QED BY <1>8, <2>1, Zenon DEF u, w
<1>4. t # <<>> => s # <<>> /\ t[1] = s[1]
  <2>1. u # <<>> => u \o w # <<>> /\ u[1] = (u \o w)[1]
      BY <1>9, PrefixSeq
  <2> QED BY <1>8, <2>1, Zenon DEF u, w
<1>5. HeaderNext(c) => HeaderNext(d)
  <2> SUFFICES ASSUME HeaderNext(c), t # <<>>
               PROVE  /\ t[1] \in Headers /\ Len(t) <= 1 + t[1].data_size
                      /\ \A i \in DOMAIN t : i > 1 => t[i] \in Pieces
      BY <1>2 DEF HeaderNext, t
  <2>1. /\ s[1] \in Headers /\ Len(s) <= 1 + s[1].data_size
        /\ \A i \in DOMAIN s : i > 1 => s[i] \in Pieces
      BY <1>4 DEF HeaderNext, s
  <2>2. s[1].data_size \in Int
      BY <2>1 DEF Headers
  <2> QED BY <1>3, <1>4, <2>1, <2>2
<1>6. ASSUME NEW n \in Nat, DataNext(c, n) PROVE DataNext(d, n)
  <2>1. Len(s) <= n /\ \A i \in DOMAIN s : s[i] \in Pieces
      BY <1>6 DEF DataNext, s
  <2> QED BY <1>2, <1>3, <2>1 DEF DataNext, t
<1>7. Quiet(c) => Quiet(d)
    BY <1>2 DEF Quiet
<1> QED BY <1>2, <1>5, <1>6, <1>7

(***************************************************************************)
(* Whatever a reply carries, and wherever the decoder stops, the slot's    *)
(* arrays are as long as its counts say and its socket is what it was.     *)
(* What is no document is never accepted.                                  *)
(***************************************************************************)
LEMMA ResizedFacts ==
    ASSUME NEW t \in FullTable, NEW n \in Nat, NEW alloc
    PROVE  Resized(t, n, alloc) \in FullTable
<1>1. [total |-> 0, ids |-> <<>>] \in FullTable
    BY DEF FullTable, Table
<1>2. [total |-> n, ids |-> [i \in 1..n |-> FALSE]] \in FullTable
  <2> DEFINE s == [i \in 1..n |-> FALSE]
  <2>1. s \in Seq(BOOLEAN) /\ Len(s) = n
      OBVIOUS
  <2> HIDE DEF s
  <2>2. [total |-> n, ids |-> s] \in FullTable
      BY <2>1 DEF FullTable, Table
  <2> QED BY <2>2 DEF s
<1> QED BY <1>1, <1>2 DEF Resized

\* Filling in the entries keeps the length of the array.
LEMMA FilledFacts ==
    ASSUME NEW t \in FullTable, NEW entries
    PROVE  Filled(t, entries) \in FullTable
<1> DEFINE took(i) == \/ t.ids[i]
                      \/ i \in DOMAIN entries /\ \A j \in 1..i : entries[j]
           s == [i \in DOMAIN t.ids |-> took(i)]
<1>1. /\ t.ids \in Seq(BOOLEAN) /\ Len(t.ids) = t.total /\ t.total \in Nat
      /\ DOMAIN t.ids = 1..t.total
    BY DEF FullTable, Table
<1>2. \A i \in DOMAIN t.ids : took(i) \in BOOLEAN
    OBVIOUS
<1> HIDE DEF took
<1>3. s \in [1..t.total -> BOOLEAN]
    BY <1>1, <1>2
<1> HIDE DEF s
<1>4. s \in Seq(BOOLEAN) /\ Len(s) = t.total
    BY <1>1, <1>3
<1>5. [t EXCEPT !.ids = s] \in FullTable
    BY <1>4 DEF FullTable, Table
<1> QED BY <1>5 DEF Filled, s, took

\* The decoder as a whole, at whichever entry it stops.
LEMMA DecodeFacts ==
    ASSUME NEW i \in IfcRecord, NEW doc \in Documents \cup {NotJson}, NEW alloc
    PROVE  LET d == service_decode_module_stats(i, doc, alloc)
           IN  /\ d.ifc \in IfcRecord
               /\ d.ifc.sd = i.sd /\ d.ifc.isconnected = i.isconnected
               /\ d.ok => doc # NotJson
<1> DEFINE stop0 == doc = NotJson \/ doc.in_cnt = -1
           in1   == IF stop0 THEN i.in ELSE Resized(i.in, doc.in_cnt, alloc.in)
           stop1 == \/ stop0
                    \/ NoMemory(i.in, doc.in_cnt, alloc.in)
                    \/ doc.out_cnt = -1
           out1  == IF stop1 THEN i.out ELSE Resized(i.out, doc.out_cnt, alloc.out)
           stop2 == stop1 \/ NoMemory(i.out, doc.out_cnt, alloc.out)
           in2   == IF stop2 THEN in1 ELSE Filled(in1, doc.in)
           stop3 == stop2 \/ BrokenEntry(in1, doc.in)
           out2  == IF stop3 THEN out1 ELSE Filled(out1, doc.out)
           d     == service_decode_module_stats(i, doc, alloc)
<1>1. i.in \in FullTable /\ i.out \in FullTable
    BY DEF IfcRecord
<1>2. ~stop0 => doc.in_cnt \in Nat
    BY DocumentsAssumption
<1>3. ~stop1 => doc.out_cnt \in Nat
    BY DocumentsAssumption
<1>4. stop0 => stop3
    OBVIOUS
<1> HIDE DEF stop0, stop1
<1>5. in1 \in FullTable /\ out1 \in FullTable
    BY <1>1, <1>2, <1>3, ResizedFacts
<1> HIDE DEF in1, out1, stop2, stop3
<1>6. in2 \in FullTable /\ out2 \in FullTable
    BY <1>5, FilledFacts
<1>7. /\ d.ok = ~(stop3 \/ BrokenEntry(out1, doc.out))
      /\ d.ifc = [i EXCEPT !.in = in2, !.out = out2]
    BY DEF service_decode_module_stats, stop0, stop1, stop2, stop3, in1, out1
<1> HIDE DEF in2, out2, d
<1>8. /\ d.ifc \in IfcRecord /\ d.ifc.sd = i.sd
      /\ d.ifc.isconnected = i.isconnected
    BY <1>6, <1>7 DEF IfcRecord
<1>9. d.ok => doc # NotJson
    BY <1>4, <1>7 DEF stop0
<1> QED BY <1>8, <1>9 DEF d

(***************************************************************************)
(* Of a set of numbers one is the smallest: the descriptor that socket()   *)
(* returns.                                                                *)
(***************************************************************************)
LEMMA Smallest ==
    ASSUME NEW S \in SUBSET Nat, S # {}
    PROVE  \E f \in S : \A g \in S : f <= g
<1>1. IsWellFoundedOn(OpToRel(<, Nat), Nat)
    BY NatLessThanWellFounded
<1>2. PICK f \in S : \A g \in S : ~(<<g, f>> \in OpToRel(<, Nat))
    BY <1>1, WFMin
<1>3. \A g \in S : ~(g < f)
    BY <1>2 DEF OpToRel
<1> QED BY <1>3

-----------------------------------------------------------------------------
(* What the steps share. *)

(***************************************************************************)
(* Only a socket, which is not descriptor 0, is a connection.              *)
(***************************************************************************)
LEMMA ConnFacts ==
    ASSUME LoopInv, SockInv, NEW m \in Modules
    PROVE  /\ ifc[m] \in IfcRecord
           /\ Connected(m) => /\ Conn(m) \in Connection /\ ifc[m].sd \in Fds
                              /\ ifc[m].sd # 0 /\ ifc[m].sd # -1
           /\ \A f \in Fds : files[f].kind = "socket" <=> files[f] \in Connection
<1>1. \A f \in Fds : files[f].kind = "socket" <=> files[f] \in Connection
  <2>1. Closed.kind # "socket" /\ Stdin.kind # "socket"
      BY DEF Closed, Stdin
  <2> QED BY <2>1 DEF LoopInv, Connection
<1>2. Stdin.kind # "socket"
    BY DEF Stdin
<1>3. ifc[m] \in IfcRecord
    BY DEF LoopInv
<1>4. Connected(m) => ifc[m].sd \in Fds /\ files[ifc[m].sd].kind = "socket"
    BY DEF SockInv, Sockets
<1>5. files[0].kind # "socket" /\ -1 \notin Fds
    BY <1>2, ServiceIfcAssumption DEF SockInv
<1> QED BY <1>1, <1>3, <1>4, <1>5 DEF Conn

(***************************************************************************)
(* When the modules in S lose their connections, and the sockets are       *)
(* closed, the other connections stay as they are, and every socket has    *)
(* its owner.                                                              *)
(***************************************************************************)
LEMMA Drop ==
    ASSUME LoopInv, SockInv, NEW S \in SUBSET Modules,
           ifc' \in [Modules -> IfcRecord],
           \A m \in S : ~ifc'[m].isconnected /\ ifc'[m].sd \in {-1, 0},
           \A m \in Modules \ S : ifc'[m] = ifc[m],
           files' = [f \in Fds |-> IF \E m \in S : Connected(m) /\ ifc[m].sd = f
                                   THEN Closed ELSE files[f]]
    PROVE  /\ SockInv' /\ files' \in [Fds -> Connection \cup {Closed, Stdin}]
           /\ \A m \in Modules : Connected(m)' =>
                 m \notin S /\ Connected(m) /\ Conn(m)' = Conn(m)
<1> USE DEF Connected
<1>1. files' \in [Fds -> Connection \cup {Closed, Stdin}]
    BY DEF LoopInv
<1>2. ASSUME NEW m \in Modules, Connected(m)'
      PROVE  m \notin S /\ Connected(m) /\ ifc'[m] = ifc[m] /\ ifc[m].sd \in Fds
    BY <1>2, ConnFacts
<1>3. ASSUME NEW m \in Modules, Connected(m)'
      PROVE  files'[ifc[m].sd] = files[ifc[m].sd]
    BY <1>2, <1>3 DEF SockInv
<1>4. \A m \in Modules : Connected(m)' =>
         m \notin S /\ Connected(m) /\ Conn(m)' = Conn(m)
    BY <1>2, <1>3 DEF Conn
<1>5. files'[0] = Stdin
    BY ConnFacts, ServiceIfcAssumption DEF SockInv
<1>6. \A f \in Fds : f \in Sockets' => f \in Sockets /\ files'[f] = files[f]
    BY DEF Sockets, Closed
<1>7. \A m \in Modules : IF Connected(m)' THEN ifc'[m].sd \in Sockets'
                                          ELSE ifc'[m].sd \in {-1, 0}
  <2>1. ASSUME NEW m \in Modules, Connected(m)' PROVE ifc'[m].sd \in Sockets'
      BY <1>2, <1>3, <2>1 DEF SockInv, Sockets
  <2>2. ASSUME NEW m \in Modules, ~Connected(m)' PROVE ifc'[m].sd \in {-1, 0}
      BY <2>2 DEF SockInv
  <2> QED BY <2>1, <2>2
<1>8. \A m, n \in Modules : Connected(m)' /\ Connected(n)' /\ ifc'[m].sd = ifc'[n].sd => m = n
    BY <1>2 DEF SockInv
<1>9. ASSUME NEW f \in Sockets' PROVE \E m \in Modules : Connected(m)' /\ ifc'[m].sd = f
  <2>1. f \in Fds /\ f \in Sockets
      BY <1>6 DEF Sockets
  <2>2. PICK m \in Modules : Connected(m) /\ ifc[m].sd = f
      BY <2>1 DEF SockInv
  <2>3. m \notin S
      BY <2>1, <2>2 DEF Sockets, Closed
  <2> QED BY <2>2, <2>3
<1>10. SockInv'
    BY <1>5, <1>7, <1>8, <1>9 DEF SockInv
<1> QED BY <1>1, <1>4, <1>10

(***************************************************************************)
(* If no reply is being read afterwards and nothing is left on any         *)
(* connection, requests and replies are in step.                           *)
(***************************************************************************)
LEMMA InOrderWhenIdle ==
    ASSUME rx' = NoTries,
           \A m \in Modules : Connected(m)' =>
               HeaderNext(Conn(m)') /\ (Pending(m)' \/ Quiet(Conn(m)'))
    PROVE  SyncInv'
<1>1. rx' \in [part : {"header", "data"}, size : 0..MaxChunks,
               got : 0..MaxChunks, tries : 0..MaxTry]
    BY ServiceIfcAssumption DEF NoTries
<1>2. rx'.part # "data"
    BY DEF NoTries
<1>3. ASSUME NEW m \in Modules, Connected(m)'
      PROVE  InOrder(m)' /\ (~Pending(m)' => Quiet(Conn(m))')
  <2>1. HeaderNext(Conn(m))' = HeaderNext(Conn(m)') /\ Quiet(Conn(m))' = Quiet(Conn(m)')
      BY DEF HeaderNext, Quiet, Stream
  <2> QED BY <1>2, <1>3, <2>1 DEF InOrder
<1> QED BY <1>1, <1>2, <1>3 DEF SyncInv

(***************************************************************************)
(* Before and after the loops nothing is on a connection, and no reply is  *)
(* being read.                                                             *)
(***************************************************************************)
LEMMA QuietOutside ==
    ASSUME LoopInv, SockInv, SyncInv, place = "out"
    PROVE  /\ rx = NoTries
           /\ \A m \in Modules : Connected(m) =>
                 HeaderNext(Conn(m)) /\ (pc # "receive" => Quiet(Conn(m)))
<1>1. rx = NoTries /\ \A m \in Modules : ~Reading(m)
    BY DEF SyncInv, Reading
<1>2. \A m \in Modules : Pending(m) => pc = "receive"
    BY DEF Pending
<1> QED BY <1>1, <1>2 DEF SyncInv, InOrder

\* So requests and replies stay in step when connections only go away.
LEMMA QuietStays ==
    ASSUME LoopInv, SockInv, SyncInv, place = "out", pc # "receive", rx' = rx,
           \A m \in Modules : Connected(m)' => Connected(m) /\ Conn(m)' = Conn(m)
    PROVE  SyncInv'
<1>1. rx' = NoTries
    BY QuietOutside
<1>2. \A m \in Modules : Connected(m)' =>
          HeaderNext(Conn(m)') /\ (Pending(m)' \/ Quiet(Conn(m)'))
    BY QuietOutside
<1> QED BY <1>1, <1>2, InOrderWhenIdle

-----------------------------------------------------------------------------
(* The steps of Supervisor. *)

(***************************************************************************)
(* A status check closes the connections of the modules it finds ended.    *)
(***************************************************************************)
LEMMA CheckLinks ==
    ASSUME IfcInv, CheckStep
    PROVE  LinkInv'
<1> USE DEF IfcInv, LinkInv
<1>1. service_check_modules_status /\ UNCHANGED slots
    BY DEF CheckStep, ServiceStep, Go, ServeModule, ServeDone,
       service_check_modules_status, tables
<1>2. /\ pc \notin {"load", "reload"} /\ pc' \notin {"load", "reload"}
      /\ pc = "report" => pc' = "receive"
      /\ pc = "receive" => pc' = "idle"
    BY DEF CheckStep, ServiceStep, Go, ServeModule, ServeDone
<1>3. /\ FoundEnded \in SUBSET Modules
      /\ \A m \in Modules : m \in FoundEnded <=> Pid(m) \in Pids /\ ~Exists(Pid(m))
    BY LoadedModules, RecordedLoaded DEF FoundEnded, Pid, IInv
<1>4. ifc' \in [Modules -> IfcRecord]
    BY IfcFacts DEF CheckStep, CloseEnded, LoopInv
<1>5. /\ \A m \in FoundEnded : ~ifc'[m].isconnected /\ ifc'[m].sd \in {-1, 0}
      /\ \A m \in Modules \ FoundEnded : ifc'[m] = ifc[m]
    BY <1>3, IfcFacts DEF CheckStep, CloseEnded, LoopInv
<1>6. ASSUME NEW m \in FoundEnded, NEW f \in Fds, ifc[m].sd = f PROVE Connected(m)
  <2>1. m \in Modules /\ ifc[m].sd # 0
      BY <1>2, <1>3 DEF PidInv
  <2>2. -1 \notin Fds
      BY ServiceIfcAssumption
  <2> QED BY <1>6, <2>1, <2>2 DEF SockInv
<1>7. files' = [f \in Fds |-> IF \E m \in FoundEnded : Connected(m) /\ ifc[m].sd = f
                              THEN Closed ELSE files[f]]
    BY <1>6 DEF CheckStep, CloseEnded, CloseOf
<1>8. /\ SockInv' /\ files' \in [Fds -> Connection \cup {Closed, Stdin}]
      /\ \A m \in Modules : Connected(m)' =>
             m \notin FoundEnded /\ Connected(m) /\ Conn(m)' = Conn(m)
    BY <1>3, <1>4, <1>5, <1>7, Drop
<1>9. \A m \in Modules : /\ m \in FoundEnded => Pid(m)' \notin Pids
                         /\ m \notin FoundEnded => Pid(m)' = Pid(m)
                         /\ Pid(m)' \in Pids => Status(m)'
    BY <1>1, <1>3, CheckPids, SupervisorAssumption DEF IInv
<1>10. PidInv'
    BY <1>2, <1>5, <1>8, <1>9 DEF PidInv
<1>11. LoopInv'
  <2>1. /\ place' \in {"out", "connect", "receive"} /\ z' = 1
        /\ place' = "connect" => pc = "report" /\ header' = Get
        /\ place' = "receive" => pc = "receive"
        /\ header' \in {header, Get} /\ listening' = listening
      BY DEF CheckStep
  <2> QED BY <1>2, <1>4, <1>8, <1>9, <2>1 DEF LoopInv
<1>12. SyncInv'
  <2>1. place = "out" /\ rx' = NoTries
      BY DEF CheckStep
  <2>2. ASSUME NEW m \in Modules, Connected(m)'
        PROVE  HeaderNext(Conn(m)') /\ (Pending(m)' \/ Quiet(Conn(m)'))
    <3>1. /\ Connected(m) /\ Conn(m)' = Conn(m)
          /\ HeaderNext(Conn(m)) /\ (pc # "receive" => Quiet(Conn(m)))
        BY <1>8, <2>1, <2>2, QuietOutside
    <3>2. ASSUME pc = "receive" PROVE Pending(m)'
      <4>1. place' = "receive" /\ z' = 1
          BY <3>2 DEF CheckStep
      <4>2. m \in Loaded
          BY <3>1, RecordedLoaded DEF PidInv
      <4>3. PICK i \in DOMAIN slots : slots[i] = m
          BY <4>2 DEF Loaded
      <4>4. i >= 1
          BY LenProperties DEF IInv, TypeOK
      <4> QED BY <1>1, <4>1, <4>3, <4>4 DEF Pending
    <3> QED BY <3>1, <3>2
  <2> QED BY <2>1, <2>2, InOrderWhenIdle
<1> QED BY <1>8, <1>10, <1>11, <1>12

(***************************************************************************)
(* init_module_variables forgets the descriptor of a module that is        *)
(* started, but it has none: its process was found ended before.           *)
(***************************************************************************)
LEMMA StartLinks ==
    ASSUME IfcInv, StartStep
    PROVE  LinkInv'
<1> USE DEF IfcInv, LinkInv
<1>1. /\ service_update_modules_status /\ pc' = "sigint" /\ pc = "update"
      /\ place = "out" /\ place' = "out"
    BY DEF StartStep, ServiceStep, Go, ServeModule, ServeDone
<1>2. ToStart \in SUBSET Modules
    BY LoadedModules DEF ToStart, Down, IInv
<1>3. ifc' \in [Modules -> IfcRecord]
    BY IfcFacts DEF StartStep, LoopInv
<1>4. /\ \A m \in ToStart : ~ifc'[m].isconnected /\ ifc'[m].sd = -1
      /\ \A m \in Modules \ ToStart : ifc'[m] = ifc[m]
    BY <1>2, IfcFacts DEF StartStep, LoopInv
<1>5. \A m \in Modules : /\ m \notin ToStart => Pid(m)' = Pid(m)
                         /\ m \in ToStart => Pid(m) \notin Pids
    BY <1>1, StartPids
<1>6. \A m \in ToStart : ~Connected(m)
    BY <1>2, <1>5 DEF PidInv
<1>7. files' = [f \in Fds |-> IF \E m \in ToStart : Connected(m) /\ ifc[m].sd = f
                              THEN Closed ELSE files[f]]
    BY <1>6 DEF StartStep, LoopInv
<1>8. /\ SockInv' /\ files' \in [Fds -> Connection \cup {Closed, Stdin}]
      /\ \A m \in Modules : Connected(m)' =>
             m \notin ToStart /\ Connected(m) /\ Conn(m)' = Conn(m)
  <2>1. \A m \in ToStart : ~ifc'[m].isconnected /\ ifc'[m].sd \in {-1, 0}
      BY <1>4
  <2> QED BY <1>2, <1>3, <1>4, <1>7, <2>1, Drop
<1>9. PidInv'
    BY <1>1, <1>4, <1>5, <1>8 DEF PidInv
<1>10. LoopInv'
    BY <1>1, <1>3, <1>8 DEF LoopInv, StartStep
<1>11. SyncInv'
    BY <1>1, <1>8, QuietStays DEF StartStep
<1> QED BY <1>8, <1>9, <1>10, <1>11

(***************************************************************************)
(* A slot that is freed has no connection, a module that waits for its     *)
(* restart loses it.                                                       *)
(***************************************************************************)
LEMMA ServeLinks ==
    ASSUME IfcInv, ServeStep
    PROVE  LinkInv'
<1> USE DEF IfcInv, LinkInv
<1> DEFINE waiting == {m \in Loaded : /\ y <= Len(slots) /\ m = slots[y]
                                      /\ ~running_modules[m].served
                                      /\ ~running_modules[m].remove_module
                                      /\ running_modules[m].init_module
                                      /\ running_modules[m].module_status}
           freed == {m \in Loaded : /\ y <= Len(slots) /\ m = slots[y]
                                    /\ Removable(running_modules[m])}
           S == IF freed # {} THEN freed ELSE waiting
<1>1. /\ ServeModule \/ ServeDone
      /\ pc = "serve" /\ pc' \in {"serve", "report"}
      /\ place = "out" /\ place' = "out"
    BY DEF ServeStep, ServiceStep, Go, ServeModule, ServeDone
<1>2. waiting \in SUBSET Modules /\ freed \in SUBSET Modules
    BY LoadedModules DEF IInv
<1>3. IF freed # {}
      THEN /\ ifc' = [m \in Modules |-> IF m \in freed THEN EmptyIfc ELSE ifc[m]]
           /\ UNCHANGED files
      ELSE service_disconnect_from_module(waiting)
    BY DEF ServeStep
<1>4. \A m \in freed : Pid(m) \notin Pids
    BY <1>1, <1>2 DEF Removable, IInv, StatusInv
<1>5. \A m \in Modules : \/ Pid(m)' = Pid(m)
                         \/ m \in freed /\ Pid(m)' = NoPid
  <2>1. ASSUME NEW m \in Modules,
               y \in DOMAIN slots /\ m = slots[y] /\ ServeModule
                  /\ Removable(running_modules[m])
        PROVE  m \in freed
      BY <2>1 DEF Loaded, ServeModule
  <2> HIDE DEF freed
  <2> QED BY <1>1, <2>1, ServePids
<1> HIDE DEF waiting, freed
<1>6. \A m \in freed : ~Connected(m)
    BY <1>2, <1>4 DEF PidInv
<1>7. /\ S \in SUBSET Modules
      /\ ifc' \in [Modules -> IfcRecord]
      /\ \A m \in S : ~ifc'[m].isconnected /\ ifc'[m].sd \in {-1, 0}
      /\ \A m \in Modules \ S : ifc'[m] = ifc[m]
      /\ files' = [f \in Fds |-> IF \E m \in S : Connected(m) /\ ifc[m].sd = f
                                 THEN Closed ELSE files[f]]
  <2>1. CASE freed # {}
    <3>1. /\ S = freed /\ UNCHANGED files
          /\ ifc' = [m \in Modules |-> IF m \in freed THEN EmptyIfc ELSE ifc[m]]
        BY <1>3, <2>1
    <3>2. /\ ifc' \in [Modules -> IfcRecord]
          /\ \A m \in S : ~ifc'[m].isconnected /\ ifc'[m].sd \in {-1, 0}
        BY <1>2, <3>1, IfcFacts DEF LoopInv
    <3> QED BY <1>2, <1>6, <3>1, <3>2 DEF LoopInv
  <2>2. CASE freed = {}
    <3>1. /\ S = waiting
          /\ ifc' = [m \in Modules |-> IF m \in waiting THEN Disconnected(ifc[m])
                                                        ELSE ifc[m]]
          /\ CloseOf({m \in waiting : ifc[m].isconnected})
        BY <1>3, <2>2 DEF service_disconnect_from_module
    <3>2. \A m \in Modules : ifc[m] \in IfcRecord
        BY DEF LoopInv
    <3>3. ifc' \in [Modules -> IfcRecord]
        BY <3>1, <3>2, IfcFacts
    <3>4. \A m \in S : ~ifc'[m].isconnected /\ ifc'[m].sd \in {-1, 0}
        BY <1>2, <3>1, <3>2, IfcFacts DEF SockInv, Connected
    <3>5. files' = [f \in Fds |-> IF \E m \in S : Connected(m) /\ ifc[m].sd = f
                                  THEN Closed ELSE files[f]]
        BY <3>1 DEF CloseOf, Connected
    <3> QED BY <1>2, <3>1, <3>3, <3>4, <3>5
  <2> QED BY <2>1, <2>2
<1>8. /\ SockInv' /\ files' \in [Fds -> Connection \cup {Closed, Stdin}]
      /\ \A m \in Modules : Connected(m)' =>
             m \notin S /\ Connected(m) /\ Conn(m)' = Conn(m)
  <2> HIDE DEF S
  <2> QED BY <1>7, Drop
<1>9. PidInv'
  <2>1. \A m \in Modules : Connected(m)' => Conn(m)'.pid = Pid(m)' /\ Pid(m)' \in Pids
      BY <1>5, <1>6, <1>8 DEF PidInv
  <2>2. ASSUME NEW m \in Modules, Pid(m)' \in Pids PROVE ifc'[m].sd # 0
    <3>1. Pid(m) \in Pids /\ ifc[m].sd # 0
        BY <1>1, <1>5, <2>2, SupervisorAssumption DEF PidInv
    <3>2. CASE m \in S
      <4>1. m \in waiting /\ ~(freed # {})
          BY <1>4, <3>1, <3>2
      <4>2. ifc'[m] = Disconnected(ifc[m]) /\ ifc[m] \in IfcRecord
          BY <1>3, <4>1 DEF service_disconnect_from_module, LoopInv
      <4> QED BY <3>1, <4>2, IfcFacts
    <3>3. CASE m \notin S
        BY <1>7, <3>1, <3>3
    <3> QED BY <3>2, <3>3
  <2> QED BY <1>1, <2>1, <2>2 DEF PidInv
<1>10. LoopInv'
    BY <1>1, <1>7, <1>8 DEF LoopInv, ServeStep
<1>11. SyncInv'
    BY <1>1, <1>8, QuietStays DEF ServeStep
<1> QED BY <1>8, <1>9, <1>10, <1>11

(***************************************************************************)
(* A step that leaves sockets and identifiers alone, before or after the   *)
(* loops.                                                                  *)
(***************************************************************************)
LEMMA SameLinks ==
    ASSUME IfcInv, UNCHANGED ifcvars, place = "out",
           pc # "load", pc # "receive", pc' # "load",
           \A m \in Modules : Pid(m)' = Pid(m)
    PROVE  LinkInv'
<1> USE DEF IfcInv, LinkInv
<1>1. UNCHANGED <<place, z, ifc, files, listening, header, rx>>
    BY DEF ifcvars
<1>2. \A m \in Modules : /\ Connected(m)' = Connected(m)
                         /\ Conn(m)' = Conn(m) /\ ifc'[m].sd = ifc[m].sd
    BY <1>1 DEF Connected, Conn
<1>3. SockInv'
    BY <1>1 DEF SockInv, Connected, Sockets
<1>4. PidInv'
    BY <1>1, <1>2 DEF PidInv
<1>5. LoopInv'
    BY <1>1 DEF LoopInv
<1>6. SyncInv'
    BY <1>1, <1>2, QuietStays
<1> QED BY <1>3, <1>4, <1>5, <1>6

(***************************************************************************)
(* The first load adopts processes for slots without a descriptor.         *)
(***************************************************************************)
LEMMA LoadLinks ==
    ASSUME IfcInv, LoadStep
    PROVE  LinkInv'
<1> USE DEF IfcInv, LinkInv
<1> DEFINE done == pc = "load" /\ y > Len(config.modules)
<1>1. /\ pc \in {"load", "reload"} /\ place = "out" /\ Reload
      /\ UNCHANGED <<place, z, files, listening, header, rx>>
    BY DEF LoadStep
<1>2. CASE pc = "load"
  <2>1. \A m \in Modules : ~Connected(m)
      BY <1>2 DEF PidInv
  <2>2. /\ ifc' \in [Modules -> IfcRecord]
        /\ \A m \in Modules : ~ifc'[m].isconnected /\ ifc'[m].sd \in {-1, 0}
      BY <1>1, <2>1, IfcFacts DEF LoadStep, LoopInv, Connected, SockInv
  <2>3. files' = [f \in Fds |-> IF \E m \in Modules : Connected(m) /\ ifc[m].sd = f
                                THEN Closed ELSE files[f]]
      BY <1>1, <2>1 DEF LoopInv
  <2>4. /\ SockInv' /\ files' \in [Fds -> Connection \cup {Closed, Stdin}]
        /\ \A m \in Modules : ~Connected(m)'
      BY <2>2, <2>3, Drop
  <2>5. PidInv'
    <3>1. ASSUME pc' # "load", NEW m \in Modules, Pid(m)' \in Pids PROVE ifc'[m].sd # 0
      <4>1. ReloadEnd
          BY <1>1, <1>2, <3>1 DEF Reload, ReloadModule
      <4>2. Pid(m)' = Pid(m) /\ y > Len(config.modules)
          BY <1>1, <4>1, ReloadPids DEF ReloadEnd
      <4>3. m \in Loaded /\ running_modules[m].module_pid \in Pids
          BY <3>1, <4>2, RecordedLoaded DEF Pid
      <4>4. ifc'[m] = Initialized(ifc[m]) /\ ifc[m] \in IfcRecord
          BY <1>2, <4>2, <4>3 DEF LoadStep, LoopInv
      <4> QED BY <4>4, IfcFacts
    <3> QED BY <2>4, <3>1 DEF PidInv
  <2>6. LoopInv'
      BY <1>1, <2>2, <2>4 DEF LoopInv
  <2>7. SyncInv'
      BY <1>1, <1>2, <2>4, QuietStays
  <2> QED BY <2>4, <2>5, <2>6, <2>7
<1>3. CASE pc = "reload"
  <2>1. \A m \in Modules : Pid(m)' = Pid(m)
      BY <1>1, <1>3, ReloadPids
  <2>2. ifc' = ifc
      BY <1>3 DEF LoadStep, LoopInv
  <2>3. pc' # "load"
      BY <1>1, <1>3 DEF Reload, ReloadModule, ReloadEnd
  <2> QED BY <1>1, <1>3, <2>1, <2>2, <2>3, SameLinks DEF ifcvars
<1> QED BY <1>1, <1>2, <1>3

\* Signals, reaping and commands leave the connections alone.
LEMMA QuietLinks ==
    ASSUME IfcInv, QuietStep \/ CommandStep
    PROVE  LinkInv'
<1> USE DEF IfcInv
<1>1. /\ place = "out" /\ UNCHANGED ifcvars
      /\ pc # "load" /\ pc # "receive" /\ pc' # "load"
    BY DEF QuietStep, CommandStep, ServiceStep, Go, ServeModule, ServeDone, Command,
       MayCommand, interactive_set_enabled, interactive_set_disabled,
       interactive_restart_module, SetProfile, ReloadBegin
<1>2. \A m \in Modules : Pid(m)' = Pid(m)
  <2>1. \/ service_stop_modules_sigint \/ service_stop_modules_sigkill
        \/ service_clean_after_children \/ Command
      BY DEF QuietStep, CommandStep, ServiceStep, Go, ServeModule, ServeDone
  <2> QED BY <2>1, QuietPids DEF IInv
<1> QED BY <1>1, <1>2, SameLinks

-----------------------------------------------------------------------------
(* The loops over the slots and the modules' side. *)

(***************************************************************************)
(* Messages on the connections change nothing about who owns them.         *)
(***************************************************************************)
LEMMA SameOwners ==
    ASSUME LoopInv, SockInv, PidInv, UNCHANGED <<running_modules, pc>>,
           \A m \in Modules : /\ ifc'[m].sd = ifc[m].sd
                              /\ ifc'[m].isconnected = ifc[m].isconnected,
           \A f \in Fds : IF files[f] \in Connection
                          THEN files'[f] \in Connection /\ files'[f].pid = files[f].pid
                          ELSE files'[f] = files[f]
    PROVE  SockInv' /\ PidInv' /\ \A m \in Modules : Connected(m)' = Connected(m)
<1>1. \A m \in Modules : Connected(m)' = Connected(m)
    BY DEF Connected
<1>2. \A f \in Fds : files[f].kind = "socket" <=> files[f] \in Connection
    BY ConnFacts, SupervisorAssumption
<1>3. \A f \in Fds : files'[f].kind = "socket" <=> files[f].kind = "socket"
    BY <1>2 DEF Connection
<1>4. Sockets' = Sockets
    BY <1>3 DEF Sockets
<1>5. files'[0] = Stdin
  <2>1. Stdin.kind # "socket"
      BY DEF Stdin
  <2> QED BY <1>2, <2>1, ServiceIfcAssumption DEF SockInv
<1>6. SockInv'
    BY <1>1, <1>4, <1>5 DEF SockInv
<1>7. \A m \in Modules : Pid(m)' = Pid(m)
    BY DEF Pid
<1>8. \A m \in Modules : Connected(m) => Conn(m)'.pid = Conn(m).pid
    BY ConnFacts DEF Conn
<1>9. PidInv'
    BY <1>1, <1>7, <1>8 DEF PidInv
<1> QED BY <1>1, <1>6, <1>9

(***************************************************************************)
(* The loops run over the slots of the table, and the requests over a      *)
(* slot after the other.                                                   *)
(***************************************************************************)
LEMMA LoopSlot ==
    ASSUME IfcInv, place # "out", slots # <<>>
    PROVE  z \in DOMAIN slots /\ slots[z] \in Modules
<1>1. slots \in Seq(Modules) /\ Len(slots) \in Nat /\ DOMAIN slots = 1..Len(slots)
    BY LenProperties DEF IfcInv, IInv, TypeOK
<1>2. Len(slots) # 0
    BY <1>1
<1> QED BY <1>1, <1>2 DEF IfcInv, LinkInv, LoopInv

\* The next slot, or the next phase after the last one.
LEMMA LoopGoesOn ==
    ASSUME IfcInv, place # "out", slots # <<>>, UNCHANGED <<vars, listening>>,
           place = "connect" => NextSlot("request"),
           place # "connect" => NextSlot("out"),
           header' = header \/ (place = "receive" /\ header' \in {Ok, "other"}),
           ifc' \in [Modules -> IfcRecord],
           files' \in [Fds -> Connection \cup {Closed, Stdin}]
    PROVE  LoopInv'
<1>1. Len(slots) \in Nat
    BY LenProperties DEF IfcInv, IInv, TypeOK
<1>2. UNCHANGED <<slots, pc, running_modules>>
    BY DEF vars
<1> QED BY <1>1, <1>2 DEF IfcInv, LinkInv, LoopInv, NextSlot, Pid, Status

\* A table without slots.
LEMMA EmptyLinks ==
    ASSUME IfcInv, EmptyLoop
    PROVE  LinkInv'
<1> USE DEF IfcInv, LinkInv
<1>1. /\ UNCHANGED <<slots, pc, running_modules>> /\ place # "out" /\ slots = <<>>
      /\ UNCHANGED <<z, ifc, files, listening, header, rx>>
      /\ place' = IF place = "connect" THEN "request" ELSE "out"
    BY DEF EmptyLoop, vars
<1>2. SockInv' /\ PidInv'
    BY <1>1 DEF SockInv, PidInv, Connected, Sockets, Conn, Pid
<1>3. LoopInv'
    BY <1>1 DEF LoopInv, Pid, Status
<1>4. \A m \in Modules : ~Pending(m) /\ ~Reading(m)
    BY <1>1 DEF Pending, Reading, LoopInv
<1>5. rx' = NoTries /\ rx = NoTries
    BY <1>1 DEF SyncInv
<1>6. \A m \in Modules : Connected(m)' = Connected(m) /\ Conn(m)' = Conn(m)
    BY <1>1 DEF Connected, Conn
<1>7. \A m \in Modules : Connected(m)' =>
          HeaderNext(Conn(m)') /\ (Pending(m)' \/ Quiet(Conn(m)'))
    BY <1>4, <1>6 DEF SyncInv, InOrder
<1>8. SyncInv'
    BY <1>5, <1>7, InOrderWhenIdle
<1> QED BY <1>2, <1>3, <1>8

(***************************************************************************)
(* A new connection takes a descriptor that was closed; no other slot had  *)
(* it, and nothing was left over in the slot.                              *)
(***************************************************************************)
LEMMA ConnectLinks ==
    ASSUME IfcInv, service_check_connections
    PROVE  LinkInv'
<1> USE DEF IfcInv, LinkInv
<1>10. PICK m \in Modules : m = slots[z]
  <2>1. place = "connect" /\ slots # <<>>
      BY DEF service_check_connections, InLoop
  <2> QED BY <2>1, LoopSlot
<1>11. PICK p : p = Pid(m)
    OBVIOUS
<1> DEFINE t == NextTry(ifc[m].conn_timer)
           free == {f \in Fds : files[f] = Closed}
           f0 == CHOOSE f \in free : \A g \in free : f <= g
<1>1. /\ place = "connect" /\ slots # <<>> /\ NextSlot("request")
      /\ UNCHANGED <<vars, listening, header, rx>>
      /\ pc = "receive"
    BY DEF service_check_connections, InLoop, LoopInv
<1>2. m \in Modules /\ ifc[m] \in IfcRecord /\ t \in 0..Periods /\ 0 \in 0..Periods
    BY PeriodsAssumption DEF LoopInv, IfcRecord, NextTry
<1>3. UNCHANGED <<slots, pc, running_modules>>
    BY <1>1 DEF vars
<1>4. rx' = NoTries /\ \A n \in Modules : Connected(n) => HeaderNext(Conn(n)) /\ Quiet(Conn(n))
    BY <1>1 DEF SyncInv, Pending, Reading, InOrder
<1> HIDE DEF t
<1>9. ASSUME ifc' \in [Modules -> IfcRecord],
             files' \in [Fds -> Connection \cup {Closed, Stdin}]
      PROVE  LoopInv'
  <2>1. UNCHANGED <<vars, listening>> /\ header' = header
      BY <1>1
  <2> QED BY <1>1, <1>9, <2>1, LoopGoesOn
<1>5. ASSUME files' = files, ifc' \in [Modules -> IfcRecord],
             \A n \in Modules : /\ ifc'[n].sd = ifc[n].sd
                                /\ ifc'[n].isconnected = ifc[n].isconnected
      PROVE  LinkInv'
  <2>1. LoopInv'
    <3>1. files' \in [Fds -> Connection \cup {Closed, Stdin}]
        BY <1>5 DEF LoopInv
    <3> QED BY <1>1, <1>5, <3>1, <1>9
  <2>2. SockInv' /\ PidInv' /\ \A n \in Modules : Connected(n)' = Connected(n)
    <3>1. \A f \in Fds : IF files[f] \in Connection
                         THEN files'[f] \in Connection /\ files'[f].pid = files[f].pid
                         ELSE files'[f] = files[f]
        BY <1>5
    <3> QED BY <1>3, <1>5, <3>1, SameOwners
  <2>3. \A n \in Modules : Conn(n)' = Conn(n)
      BY <1>5 DEF Conn
  <2>4. SyncInv'
      BY <1>4, <2>2, <2>3, InOrderWhenIdle
  <2> QED BY <2>1, <2>2, <2>4
<1>6. CASE UNCHANGED <<ifc, files>>
    BY <1>5, <1>6 DEF LoopInv
<1>7. CASE files' = files /\ ifc' = [ifc EXCEPT ![m].conn_timer = t]
  <2>1. /\ [ifc[m] EXCEPT !.conn_timer = t] \in IfcRecord
        /\ [ifc[m] EXCEPT !.conn_timer = t].sd = ifc[m].sd
        /\ [ifc[m] EXCEPT !.conn_timer = t].isconnected = ifc[m].isconnected
      BY <1>2 DEF IfcRecord
  <2>2. /\ ifc'[m] = [ifc[m] EXCEPT !.conn_timer = t]
        /\ \A n \in Modules : n # m => ifc'[n] = ifc[n]
        /\ ifc' \in [Modules -> IfcRecord]
      BY <1>2, <1>7, <2>1 DEF LoopInv
  <2> QED BY <1>5, <1>7, <2>1, <2>2
<1>8. CASE Status(m) /\ ~Connected(m) /\ service_connect_to_module(m)
  <2>1. p \in Pids /\ ifc[m].sd = -1
    <3>1. p \in Pids
        BY <1>8, <1>11 DEF IInv, StatusInv, Status
    <3> QED BY <1>1, <1>8, <1>11, <3>1 DEF PidInv, SockInv
  <2>2. [f \in Fds |-> IF f = ifc[m].sd THEN Closed ELSE files[f]] = files
      BY <2>1, ServiceIfcAssumption DEF LoopInv
  <2>3. CASE ~(free # {} /\ p \in listening)
    <3>1. files' = files /\ ifc' = [ifc EXCEPT ![m].sd = -1, ![m].conn_timer = NextTry(@)]
        BY <1>8, <1>11, <2>2, <2>3 DEF service_connect_to_module, Pid
    <3>2. ifc' = [ifc EXCEPT ![m] = [ifc[m] EXCEPT !.sd = -1, !.conn_timer = t]]
        BY <1>2, <3>1 DEF t, LoopInv, IfcRecord
    <3>3. [ifc[m] EXCEPT !.sd = -1, !.conn_timer = t] = [ifc[m] EXCEPT !.conn_timer = t]
        BY <1>2, <2>1 DEF IfcRecord
    <3> QED BY <1>7, <3>1, <3>2, <3>3
  <2>4. CASE free # {} /\ p \in listening
    <3>1. /\ f0 \in free
          /\ files' = [files EXCEPT ![f0] = SocketTo(p)]
          /\ ifc' = [ifc EXCEPT ![m].sd = f0, ![m].isconnected = TRUE,
                                ![m].conn_timer = 0]
      <4>1. \E f \in free : \A g \in free : f <= g
          BY <2>4, Smallest, ServiceIfcAssumption
      <4> QED BY <1>8, <1>11, <2>2, <2>4, <4>1 DEF service_connect_to_module, Pid
    <3> DEFINE i == [ifc[m] EXCEPT !.sd = f0, !.isconnected = TRUE, !.conn_timer = 0]
    <3> HIDE DEF f0
    <3>2. f0 \in Fds /\ files[f0] = Closed
        BY <3>1
    <3>3. i \in IfcRecord /\ i.sd = f0 /\ i.isconnected = TRUE
        BY <1>2, <3>2 DEF IfcRecord
    <3>4. ifc' = [ifc EXCEPT ![m] = i]
        BY <1>2, <3>1 DEF LoopInv, IfcRecord
    <3> HIDE DEF i
    <3>5. SocketTo(p) \in Connection /\ SocketTo(p).pid = p /\ Quiet(SocketTo(p))
        BY <2>1 DEF SocketTo, Connection, Quiet
    <3> HIDE DEF free
    <3>15. ifc \in [Modules -> IfcRecord] /\ files \in [Fds -> Connection \cup {Closed, Stdin}]
        BY DEF LoopInv
    <3>16. /\ ifc' \in [Modules -> IfcRecord] /\ ifc'[m] = i
           /\ \A n \in Modules : n # m => ifc'[n] = ifc[n]
        BY <1>2, <3>3, <3>4, <3>15
    <3>17. /\ files' \in [Fds -> Connection \cup {Closed, Stdin}]
           /\ files'[f0] = SocketTo(p)
           /\ \A f \in Fds : f # f0 => files'[f] = files[f]
        BY <3>1, <3>2, <3>5, <3>15
    <3>6. /\ ifc' \in [Modules -> IfcRecord] /\ ifc'[m] = i
          /\ \A n \in Modules : n # m => ifc'[n] = ifc[n]
          /\ files' \in [Fds -> Connection \cup {Closed, Stdin}]
          /\ files'[f0] = SocketTo(p)
          /\ \A f \in Fds : f # f0 => files'[f] = files[f]
        BY <3>16, <3>17
    <3>7. Closed.kind # "socket" /\ Closed # Stdin /\ SocketTo(p).kind = "socket"
        BY DEF Closed, Stdin, SocketTo
    <3>8. /\ \A n \in Modules : Connected(n) => n # m /\ ifc[n].sd # f0
          /\ f0 # 0
        BY <1>8, <3>2, <3>7 DEF SockInv, Sockets
    <3>9. \A n \in Modules : /\ Connected(n)' <=> Connected(n) \/ n = m
                             /\ Connected(n) => Conn(n)' = Conn(n) /\ ifc'[n].sd = ifc[n].sd
                             /\ Conn(m)' = SocketTo(p) /\ ifc'[m].sd = f0
      <4>1. \A n \in Modules : Connected(n) => ifc[n].sd \in Fds
          BY ConnFacts
      <4>2. Conn(m)' = files'[ifc'[m].sd]
          BY DEF Conn
      <4>3. Conn(m)' = SocketTo(p) /\ ifc'[m].sd = f0
          BY <3>3, <3>6, <4>2
      <4>4. \A n \in Modules : Connected(n)' <=> Connected(n) \/ n = m
          BY <1>2, <3>3, <3>6 DEF Connected
      <4>5. ASSUME NEW n \in Modules, Connected(n)
            PROVE  Conn(n)' = Conn(n) /\ ifc'[n].sd = ifc[n].sd
          BY <3>6, <3>8, <4>1, <4>5 DEF Conn
      <4> QED BY <4>3, <4>4, <4>5
    <3>10. Sockets' = Sockets \cup {f0}
        BY <3>2, <3>6, <3>7 DEF Sockets
    <3>11. SockInv'
      <4>1. files'[0] = Stdin
          BY <3>6, <3>8, ServiceIfcAssumption DEF SockInv
      <4>2. \A n \in Modules : IF Connected(n)' THEN ifc'[n].sd \in Sockets'
                                                ELSE ifc'[n].sd \in {-1, 0}
          BY <3>6, <3>9, <3>10 DEF SockInv
      <4>3. \A n, k \in Modules :
               Connected(n)' /\ Connected(k)' /\ ifc'[n].sd = ifc'[k].sd => n = k
          BY <3>8, <3>9 DEF SockInv
      <4>4. \A f \in Sockets' : \E n \in Modules : Connected(n)' /\ ifc'[n].sd = f
          BY <1>2, <3>9, <3>10 DEF SockInv
      <4> QED BY <4>1, <4>2, <4>3, <4>4 DEF SockInv
    <3>12. PidInv'
      <4>1. \A n \in Modules : Pid(n)' = Pid(n)
          BY <1>3 DEF Pid
      <4>2. \A n \in Modules : Connected(n)' => Conn(n)'.pid = Pid(n)' /\ Pid(n)' \in Pids
        <5>1. ASSUME NEW n \in Modules, Connected(n)'
              PROVE  Conn(n)'.pid = Pid(n) /\ Pid(n) \in Pids
          <6>1. CASE n = m
              BY <1>11, <2>1, <3>5, <3>9, <6>1
          <6>2. CASE n # m
              BY <3>9, <5>1, <6>2 DEF PidInv
          <6> QED BY <6>1, <6>2
        <5> QED BY <4>1, <5>1
      <4>3. \A n \in Modules : Pid(n) \in Pids => ifc'[n].sd # 0
          BY <1>1, <3>6, <3>8, <3>9 DEF PidInv
      <4> QED BY <1>1, <1>3, <4>1, <4>2, <4>3 DEF PidInv
    <3>13. LoopInv'
        BY <1>9, <3>6
    <3>14. SyncInv'
      <4>1. \A n \in Modules : Connected(n)' => HeaderNext(Conn(n)') /\ Quiet(Conn(n)')
        <5>1. HeaderNext(SocketTo(p)) /\ Quiet(SocketTo(p))
            BY <3>5, QuietFacts
        <5> QED BY <1>4, <3>9, <5>1
      <4> QED BY <1>4, <4>1, InOrderWhenIdle
    <3> QED BY <3>11, <3>12, <3>13, <3>14
  <2> QED BY <2>3, <2>4
<1> QED BY <1>6, <1>7, <1>8, <1>10 DEF service_check_connections, t, Status, Connected

(***************************************************************************)
(* A slot's request is the only one on its connection, and is to be dealt  *)
(* with until the slot's reply was read.                                   *)
(***************************************************************************)
LEMMA SendPending ==
    ASSUME IfcInv, place = "request", slots # <<>>, NextSlot("out"), UNCHANGED vars,
           NEW m \in Modules
    PROVE  /\ Pending(m) => Pending(m)'
           /\ m = slots[z] => ~Pending(m) /\ Pending(m)'
<1>1. z \in DOMAIN slots /\ z \in Nat /\ \A i \in DOMAIN slots : i \in Nat
    BY LoopSlot, LenProperties DEF IfcInv, IInv, TypeOK, LinkInv, LoopInv
<1>2. UNCHANGED <<slots, pc>> /\ pc = "receive"
    BY DEF vars, IfcInv, LinkInv, LoopInv
<1>3. CASE z < Len(slots)
  <2>1. place' = "request" /\ z' = z + 1
      BY <1>3 DEF NextSlot
  <2>2. Pending(m)' <=> \E i \in DOMAIN slots : i < z + 1 /\ slots[i] = m
      BY <1>2, <2>1 DEF Pending
  <2>3. Pending(m) <=> \E i \in DOMAIN slots : i < z /\ slots[i] = m
      BY DEF Pending
  <2>4. m = slots[z] => ~Pending(m)
      BY <1>1, <2>3 DEF IfcInv, DistinctInv
  <2>5. m = slots[z] => Pending(m)'
      BY <1>1, <2>2
  <2> QED BY <1>1, <2>2, <2>3, <2>4, <2>5
<1>4. CASE ~(z < Len(slots))
  <2>1. Pending(m)'
      BY <1>2, <1>4 DEF Pending, NextSlot
  <2>2. Pending(m) <=> \E i \in DOMAIN slots : i < z /\ slots[i] = m
      BY DEF Pending
  <2>3. m = slots[z] => ~Pending(m)
      BY <1>1, <2>2 DEF IfcInv, DistinctInv
  <2> QED BY <2>1, <2>3
<1> QED BY <1>3, <1>4

\* Only the slot whose reply was read is dealt with.
LEMMA ReceivePending ==
    ASSUME IfcInv, place = "receive", slots # <<>>, NextSlot("out"), UNCHANGED vars,
           NEW m \in Modules, m # slots[z]
    PROVE  Pending(m) => Pending(m)'
<1>1. /\ z \in DOMAIN slots /\ z \in Nat /\ Len(slots) \in Nat
      /\ \A i \in DOMAIN slots : i \in Nat /\ i <= Len(slots)
    BY LoopSlot, LenProperties DEF IfcInv, IInv, TypeOK, LinkInv, LoopInv
<1>2. UNCHANGED <<slots, pc>>
    BY DEF vars
<1>3. Pending(m) <=> \E i \in DOMAIN slots : i >= z /\ slots[i] = m
    BY DEF Pending
<1>4. CASE z < Len(slots)
  <2>1. place' = "receive" /\ z' = z + 1
      BY <1>4 DEF NextSlot
  <2>2. Pending(m)' <=> \E i \in DOMAIN slots : i >= z + 1 /\ slots[i] = m
      BY <1>2, <2>1 DEF Pending
  <2> QED BY <1>1, <1>3, <2>2
<1>5. CASE ~(z < Len(slots))
    BY <1>1, <1>3, <1>5
<1> QED BY <1>4, <1>5

(***************************************************************************)
(* The same for one module, after its statistics may have changed.         *)
(***************************************************************************)
LEMMA DropOne ==
    ASSUME LoopInv, SockInv, PidInv, UNCHANGED <<running_modules, pc>>,
           NEW m \in Modules, Connected(m), NEW i \in IfcRecord, i.isconnected,
           ifc' = [ifc EXCEPT ![m] = Disconnected(i)], CloseOf({m})
    PROVE  /\ SockInv' /\ PidInv' /\ ifc' \in [Modules -> IfcRecord]
           /\ files' \in [Fds -> Connection \cup {Closed, Stdin}]
           /\ \A n \in Modules : Connected(n)' =>
                 n # m /\ Connected(n) /\ Conn(n)' = Conn(n)
<1>1. PICK S \in SUBSET Modules : S = {m}
    OBVIOUS
<1>2. /\ Disconnected(i) \in IfcRecord /\ Disconnected(i).sd = -1
      /\ Disconnected(i).isconnected = FALSE
    BY IfcFacts
<1>3. /\ ifc' \in [Modules -> IfcRecord] /\ ifc'[m] = Disconnected(i)
      /\ \A n \in Modules \ S : ifc'[n] = ifc[n]
    BY <1>1, <1>2 DEF LoopInv
<1>4. \A n \in S : ~ifc'[n].isconnected /\ ifc'[n].sd \in {-1, 0}
    BY <1>1, <1>2, <1>3
<1>5. files' = [f \in Fds |-> IF \E n \in S : Connected(n) /\ ifc[n].sd = f
                              THEN Closed ELSE files[f]]
    BY <1>1 DEF CloseOf
<1>6. /\ SockInv' /\ files' \in [Fds -> Connection \cup {Closed, Stdin}]
      /\ \A n \in Modules : Connected(n)' =>
             n \notin S /\ Connected(n) /\ Conn(n)' = Conn(n)
    BY <1>3, <1>4, <1>5, Drop
<1>7. \A n \in Modules : Pid(n)' = Pid(n)
    BY DEF Pid
<1>8. PidInv'
    BY <1>1, <1>2, <1>3, <1>6, <1>7 DEF PidInv
<1> QED BY <1>1, <1>3, <1>6, <1>8

(***************************************************************************)
(* A message that moves on one connection leaves the others alone.         *)
(***************************************************************************)
LEMMA MoveOne ==
    ASSUME LoopInv, SockInv, PidInv, UNCHANGED <<running_modules, pc>>,
           NEW m \in Modules, Connected(m),
           \A n \in Modules : /\ ifc'[n].sd = ifc[n].sd
                              /\ ifc'[n].isconnected = ifc[n].isconnected,
           NEW c \in Connection, c.pid = Conn(m).pid,
           files' = [files EXCEPT ![ifc[m].sd] = c]
    PROVE  /\ SockInv' /\ PidInv'
           /\ files' \in [Fds -> Connection \cup {Closed, Stdin}]
           /\ \A n \in Modules :
                 /\ Connected(n)' = Connected(n)
                 /\ Connected(n) => Conn(n)' = IF n = m THEN c ELSE Conn(n)
<1>1. Conn(m) \in Connection /\ ifc[m].sd \in Fds
    BY ConnFacts
<1>2. /\ files' \in [Fds -> Connection \cup {Closed, Stdin}]
      /\ files'[ifc[m].sd] = c
      /\ \A f \in Fds : f # ifc[m].sd => files'[f] = files[f]
    BY <1>1 DEF LoopInv
<1>3. SockInv' /\ PidInv' /\ \A n \in Modules : Connected(n)' = Connected(n)
  <2>1. \A f \in Fds : IF files[f] \in Connection
                       THEN files'[f] \in Connection /\ files'[f].pid = files[f].pid
                       ELSE files'[f] = files[f]
      BY <1>1, <1>2 DEF Conn
  <2> QED BY <2>1, SameOwners
<1>4. ASSUME NEW n \in Modules, Connected(n)
      PROVE  Conn(n)' = IF n = m THEN c ELSE Conn(n)
  <2>1. ifc[n].sd \in Fds /\ (ifc[n].sd = ifc[m].sd => n = m)
      BY <1>4, ConnFacts DEF SockInv
  <2> QED BY <1>2, <2>1 DEF Conn
<1> QED BY <1>2, <1>3, <1>4

(***************************************************************************)
(* Nothing is on the connection that a request is sent on, and what is     *)
(* sent is a request, although replies are read into the same header.      *)
(***************************************************************************)
LEMMA SendLinks ==
    ASSUME IfcInv, service_send_data
    PROVE  LinkInv'
<1> USE DEF IfcInv, LinkInv
<1>1. /\ place = "request" /\ slots # <<>> /\ NextSlot("out")
      /\ UNCHANGED <<vars, listening>> /\ header' = header /\ rx' = rx
      /\ header = Get
    BY DEF service_send_data, InLoop, LoopInv
<1>2. PICK m \in Modules : m = slots[z]
    BY <1>1, LoopSlot
<1>3. UNCHANGED <<slots, pc, running_modules>> /\ UNCHANGED vars
    BY <1>1 DEF vars
<1>4. rx' = NoTries /\ \A n \in Modules : Connected(n) => HeaderNext(Conn(n))
    BY <1>1 DEF SyncInv, Reading, InOrder
<1>5. ASSUME ifc' \in [Modules -> IfcRecord],
             files' \in [Fds -> Connection \cup {Closed, Stdin}]
      PROVE  LoopInv'
    BY <1>1, <1>5, LoopGoesOn
<1>6. ASSUME \A n \in Modules : Connected(n)' =>
                 \/ n # m /\ Connected(n) /\ Conn(n)' = Conn(n)
                 \/ n = m /\ HeaderNext(Conn(n)')
      PROVE  SyncInv'
  <2>1. ASSUME NEW n \in Modules, Connected(n)'
        PROVE  HeaderNext(Conn(n)') /\ (Pending(n)' \/ Quiet(Conn(n)'))
    <3>1. CASE n = m
        BY <1>1, <1>2, <1>3, <1>6, <2>1, <3>1, SendPending
    <3>2. CASE n # m
      <4>1. Connected(n) /\ Conn(n)' = Conn(n) /\ HeaderNext(Conn(n))
          BY <1>4, <1>6, <2>1, <3>2
      <4>2. Pending(n) \/ Quiet(Conn(n))
          BY <4>1 DEF SyncInv
      <4> QED BY <1>1, <1>3, <4>1, <4>2, SendPending
    <3> QED BY <3>1, <3>2
  <2> QED BY <1>4, <2>1, InOrderWhenIdle
<1>7. CASE ~Connected(m) /\ UNCHANGED <<ifc, files>>
  <2>1. LoopInv'
      BY <1>5, <1>7 DEF LoopInv
  <2>2. SockInv' /\ PidInv'
      BY <1>3, <1>7 DEF SockInv, PidInv, Connected, Sockets, Conn, Pid
  <2>3. \A n \in Modules : Connected(n)' = Connected(n) /\ Conn(n)' = Conn(n)
      BY <1>7 DEF Connected, Conn
  <2> QED BY <1>6, <1>7, <2>1, <2>2, <2>3
<1>8. CASE /\ Connected(m) /\ UNCHANGED ifc
           /\ files' = [files EXCEPT ![ifc[m].sd].inbox = Append(@, Get)]
  <2> DEFINE c == [Conn(m) EXCEPT !.inbox = Append(@, Get)]
  <2>1. /\ Conn(m) \in Connection /\ ifc[m].sd \in Fds /\ Quiet(Conn(m))
      BY <1>1, <1>2, <1>3, <1>8, ConnFacts, SendPending DEF SyncInv
  <2>2. c \in Connection /\ HeaderNext(c) /\ c.pid = Conn(m).pid
    <3>1. c.pid = Conn(m).pid
        BY <2>1 DEF Connection
    <3> QED BY <2>1, <3>1, QuietFacts
  <2>3. files' = [files EXCEPT ![ifc[m].sd] = c]
      BY <1>8, <2>1 DEF Conn
  <2> HIDE DEF c
  <2>4. /\ SockInv' /\ PidInv'
        /\ files' \in [Fds -> Connection \cup {Closed, Stdin}]
        /\ \A n \in Modules :
              /\ Connected(n)' = Connected(n)
              /\ Connected(n) => Conn(n)' = IF n = m THEN c ELSE Conn(n)
      BY <1>3, <1>8, <2>2, <2>3, MoveOne
  <2>5. LoopInv'
      BY <1>5, <1>8, <2>4 DEF LoopInv
  <2>6. SyncInv'
      BY <1>6, <2>2, <2>4
  <2> QED BY <2>4, <2>5, <2>6
<1>9. CASE Connected(m) /\ service_disconnect_from_module({m})
  <2>1. ifc[m] \in IfcRecord /\ ifc[m].isconnected
      BY <1>9 DEF LoopInv, Connected
  <2>2. /\ ifc' = [ifc EXCEPT ![m] = Disconnected(ifc[m])]
        /\ CloseOf({m})
    <3>1. {n \in {m} : ifc[n].isconnected} = {m}
        BY <2>1
    <3>2. /\ ifc' = [n \in Modules |-> IF n \in {m} THEN Disconnected(ifc[n]) ELSE ifc[n]]
          /\ CloseOf({n \in {m} : ifc[n].isconnected})
        BY <1>9 DEF service_disconnect_from_module
    <3> QED BY <3>1, <3>2 DEF LoopInv
  <2>3. /\ SockInv' /\ PidInv' /\ ifc' \in [Modules -> IfcRecord]
        /\ files' \in [Fds -> Connection \cup {Closed, Stdin}]
        /\ \A n \in Modules : Connected(n)' =>
               n # m /\ Connected(n) /\ Conn(n)' = Conn(n)
      BY <1>3, <1>9, <2>1, <2>2, DropOne
  <2>4. LoopInv' /\ SyncInv'
      BY <1>5, <1>6, <2>3
  <2> QED BY <2>3, <2>4
<1> QED BY <1>1, <1>2, <1>7, <1>8, <1>9 DEF service_send_data, Connected

(***************************************************************************)
(* The loop goes on with the next slot when nothing is left on the         *)
(* connection of this one, or it has none any more.                        *)
(***************************************************************************)
LEMMA ReceiveGoesOn ==
    ASSUME IfcInv, InLoop("receive"), NextSlot("out"), rx' = NoTries,
           UNCHANGED <<vars, listening>>,
           header' = header \/ header' \in {Ok, "other"},
           ifc' \in [Modules -> IfcRecord],
           files' \in [Fds -> Connection \cup {Closed, Stdin}],
           NEW m \in Modules, m = slots[z],
           \A n \in Modules : Connected(n)' =>
               IF n = m THEN Conn(n)' \in Connection /\ Quiet(Conn(n)')
                        ELSE Connected(n) /\ Conn(n)' = Conn(n)
    PROVE  LoopInv' /\ SyncInv'
<1>1. place = "receive" /\ slots # <<>> /\ UNCHANGED vars
    BY DEF InLoop, vars
<1>2. LoopInv'
    BY <1>1, LoopGoesOn
<1>3. ASSUME NEW n \in Modules, Connected(n)'
      PROVE  HeaderNext(Conn(n)') /\ (Pending(n)' \/ Quiet(Conn(n)'))
  <2>1. CASE n = m
      BY <1>3, <2>1, QuietFacts
  <2>2. CASE n # m
    <3>1. Connected(n) /\ Conn(n)' = Conn(n) /\ ~Reading(n)
        BY <1>3, <2>2 DEF Reading
    <3>2. HeaderNext(Conn(n)) /\ (Pending(n) \/ Quiet(Conn(n)))
        BY <3>1 DEF IfcInv, LinkInv, SyncInv, InOrder
    <3> QED BY <1>1, <2>2, <3>1, <3>2, ReceivePending
  <2> QED BY <2>1, <2>2
<1> QED BY <1>2, <1>3, InOrderWhenIdle

\* A reply that is given up ends the connection, with all that is on it.
LEMMA GiveUpLinks ==
    ASSUME IfcInv, InLoop("receive"), NextSlot("out"), rx' = NoTries,
           UNCHANGED <<vars, listening>>,
           header' = header \/ header' \in {Ok, "other"},
           NEW m \in Modules, m = slots[z], Connected(m),
           NEW i \in IfcRecord, i.isconnected, GiveUp(m, i)
    PROVE  LinkInv'
<1> USE DEF IfcInv, LinkInv
<1>1. UNCHANGED <<running_modules, pc>>
    BY DEF vars
<1>2. /\ SockInv' /\ PidInv' /\ ifc' \in [Modules -> IfcRecord]
      /\ files' \in [Fds -> Connection \cup {Closed, Stdin}]
      /\ \A n \in Modules : Connected(n)' =>
             n # m /\ Connected(n) /\ Conn(n)' = Conn(n)
    BY <1>1, DropOne DEF GiveUp
<1>3. LoopInv' /\ SyncInv'
    BY <1>2, ReceiveGoesOn
<1> QED BY <1>2, <1>3

\* A module without a connection: it is not running either.
LEMMA SkipLinks ==
    ASSUME IfcInv, SkipReceive
    PROVE  LinkInv'
<1> USE DEF IfcInv, LinkInv
<1>1. /\ InLoop("receive") /\ place = "receive" /\ slots # <<>> /\ NextSlot("out")
      /\ UNCHANGED <<vars, listening>> /\ header' = header
      /\ UNCHANGED <<ifc, files, rx>> /\ UNCHANGED <<running_modules, pc>>
    BY DEF SkipReceive, InLoop, vars
<1>2. PICK m \in Modules : m = slots[z]
    BY <1>1, LoopSlot
<1>3. ~Connected(m)
    BY <1>1, <1>2 DEF SkipReceive, Receiving, PidInv, LoopInv, Connected, Status
<1>4. rx' = NoTries
    BY <1>1, <1>2, <1>3 DEF SyncInv
<1>5. SockInv' /\ PidInv'
    BY <1>1 DEF SockInv, PidInv, Connected, Sockets, Conn, Pid
<1>6. \A n \in Modules : Connected(n)' = Connected(n) /\ Conn(n)' = Conn(n)
    BY <1>1 DEF Connected, Conn
<1>7. /\ ifc' \in [Modules -> IfcRecord]
      /\ files' \in [Fds -> Connection \cup {Closed, Stdin}]
    BY <1>1 DEF LoopInv
<1>8. LoopInv' /\ SyncInv'
    BY <1>1, <1>2, <1>3, <1>4, <1>6, <1>7, ReceiveGoesOn
<1> QED BY <1>5, <1>8

(***************************************************************************)
(* While the same reply is being read.                                     *)
(***************************************************************************)
LEMMA StillReading ==
    ASSUME IfcInv, UNCHANGED <<vars, listening>>, UNCHANGED <<place, z, ifc>>,
           InLoop("receive"), NEW m \in Modules, m = slots[z], Connected(m),
           header' = header \/ header' \in {Ok, "other"},
           files' \in [Fds -> Connection \cup {Closed, Stdin}], SockInv', PidInv',
           rx' \in [part : {"header", "data"}, size : 0..MaxChunks,
                    got : 0..MaxChunks, tries : 0..MaxTry],
           rx'.part = "data" => rx'.got < rx'.size,
           \A n \in Modules : Connected(n) /\ n # m => Conn(n)' = Conn(n),
           IF rx'.part = "data" THEN DataNext(Conn(m)', rx'.size - rx'.got)
                                ELSE HeaderNext(Conn(m)')
    PROVE  LinkInv'
<1> USE DEF IfcInv, LinkInv
<1>1. UNCHANGED <<slots, pc, running_modules>> /\ place = "receive" /\ slots # <<>>
    BY DEF vars, InLoop
<1>2. LoopInv'
    BY <1>1 DEF LoopInv, Pid, Status
<1>3. \A n \in Modules : /\ Connected(n)' = Connected(n) /\ Pending(n)' = Pending(n)
                         /\ Reading(n)' <=> n = m
                         /\ Reading(n) <=> n = m
    BY <1>1 DEF Connected, Pending, Reading
<1>4. Pending(m)
    BY <1>1, LoopSlot DEF Pending, LoopInv
<1>5. ASSUME NEW n \in Modules, Connected(n)'
      PROVE  InOrder(n)' /\ (~Pending(n)' => Quiet(Conn(n))')
  <2>1. /\ HeaderNext(Conn(n))' = HeaderNext(Conn(n)')
        /\ Quiet(Conn(n))' = Quiet(Conn(n)')
        /\ DataNext(Conn(n), rx.size - rx.got)' = DataNext(Conn(n)', rx'.size - rx'.got)
      BY DEF HeaderNext, Quiet, DataNext, Stream
  <2>2. CASE n = m
      BY <1>3, <1>4, <2>1, <2>2 DEF InOrder
  <2>3. CASE n # m
    <3>1. Connected(n) /\ Conn(n)' = Conn(n) /\ ~Reading(n) /\ ~Reading(n)'
        BY <1>3, <1>5, <2>3
    <3>2. HeaderNext(Conn(n)) /\ (~Pending(n) => Quiet(Conn(n)))
        BY <3>1 DEF SyncInv, InOrder
    <3> QED BY <1>3, <2>1, <3>1, <3>2 DEF InOrder
  <2> QED BY <2>2, <2>3
<1>6. Connected(slots[z])' /\ place' = "receive" /\ slots' # <<>>
    BY <1>1 DEF Connected
<1>7. SyncInv'
    BY <1>5, <1>6 DEF SyncInv
<1> QED BY <1>2, <1>7

\* EAGAIN: the same reply is waited for, or given up.
LEMMA AgainLinks ==
    ASSUME IfcInv, RecvAgain
    PROVE  LinkInv'
<1> USE DEF IfcInv, LinkInv
<1>1. /\ InLoop("receive") /\ place = "receive" /\ slots # <<>>
      /\ UNCHANGED <<vars, listening>> /\ header' = header
      /\ UNCHANGED <<running_modules, pc>>
    BY DEF RecvAgain, InLoop, vars
<1>2. PICK m \in Modules : m = slots[z]
    BY <1>1, LoopSlot
<1>3. Connected(m) /\ ifc[m].isconnected /\ ifc[m] \in IfcRecord
    BY <1>2 DEF RecvAgain, Receiving, Connected, LoopInv
<1>4. CASE OutOfTries(TimeoutCounted(rx.tries))
  <2>1. GiveUp(m, ifc[m]) /\ NextSlot("out") /\ rx' = NoTries
      BY <1>2, <1>4 DEF RecvAgain
  <2> QED BY <1>1, <1>2, <1>3, <2>1, GiveUpLinks
<1>5. CASE ~OutOfTries(TimeoutCounted(rx.tries))
  <2>1. /\ rx' = [rx EXCEPT !.tries = rx.tries + 1] /\ rx.tries + 1 <= MaxTry
        /\ UNCHANGED <<place, z, ifc>> /\ UNCHANGED files
      BY <1>5, ServiceIfcAssumption DEF RecvAgain, OutOfTries, TimeoutCounted, SyncInv
  <2>2. /\ rx' \in [part : {"header", "data"}, size : 0..MaxChunks,
                    got : 0..MaxChunks, tries : 0..MaxTry]
        /\ rx'.part = rx.part /\ rx'.size = rx.size /\ rx'.got = rx.got
      BY <2>1, ServiceIfcAssumption DEF SyncInv
  <2>3. SockInv' /\ PidInv' /\ files' \in [Fds -> Connection \cup {Closed, Stdin}]
      BY <1>1, <2>1 DEF SockInv, PidInv, Connected, Sockets, Conn, Pid, LoopInv
  <2>4. \A n \in Modules : Conn(n)' = Conn(n)
      BY <2>1 DEF Conn
  <2>5. IF rx.part = "data" THEN DataNext(Conn(m), rx.size - rx.got)
                            ELSE HeaderNext(Conn(m))
      BY <1>1, <1>2, <1>3 DEF SyncInv, InOrder, Reading
  <2>6. rx'.part = "data" => rx'.got < rx'.size
      BY <2>2 DEF SyncInv
  <2>7. IF rx'.part = "data" THEN DataNext(Conn(m)', rx'.size - rx'.got)
                             ELSE HeaderNext(Conn(m)')
      BY <2>2, <2>4, <2>5
  <2> QED BY <1>1, <1>2, <1>3, <2>1, <2>2, <2>3, <2>4, <2>6, <2>7, StillReading
<1> QED BY <1>4, <1>5

\* The other side has closed the connection.
LEMMA ClosedLinks ==
    ASSUME IfcInv, RecvClosed
    PROVE  LinkInv'
<1> USE DEF IfcInv, LinkInv
<1>1. /\ InLoop("receive") /\ place = "receive" /\ slots # <<>>
      /\ UNCHANGED <<vars, listening>> /\ header' = header
      /\ NextSlot("out") /\ rx' = NoTries
    BY DEF RecvClosed, InLoop
<1>2. PICK m \in Modules : m = slots[z]
    BY <1>1, LoopSlot
<1>3. /\ Connected(m) /\ ifc[m].isconnected /\ ifc[m] \in IfcRecord
      /\ GiveUp(m, ifc[m])
    BY <1>2 DEF RecvClosed, Receiving, Connected, LoopInv
<1> QED BY <1>1, <1>2, <1>3, GiveUpLinks

(***************************************************************************)
(* A header is the next message, never a piece of an earlier reply.        *)
(***************************************************************************)
LEMMA HeaderLinks ==
    ASSUME IfcInv, RecvHeader
    PROVE  LinkInv'
<1> USE DEF IfcInv, LinkInv
<1>1. /\ InLoop("receive") /\ place = "receive" /\ slots # <<>>
      /\ UNCHANGED <<vars, listening>> /\ UNCHANGED <<running_modules, pc>>
      /\ rx.part = "header"
    BY DEF RecvHeader, InLoop, vars
<1>2. PICK m \in Modules : m = slots[z]
    BY <1>1, LoopSlot
<1>3. Connected(m) /\ ifc[m].isconnected /\ ifc[m] \in IfcRecord
    BY <1>2 DEF RecvHeader, Receiving, Connected, LoopInv
<1>4. PICK c \in Connection : c = Conn(m)
    BY <1>3, ConnFacts
<1>5. PICK reply : reply = Head(c.unread)
    OBVIOUS
<1>6. /\ c.unread # <<>> /\ header' = reply.com
      /\ \/ GiveUp(m, ifc[m]) /\ NextSlot("out") /\ rx' = NoTries
         \/ Decode(m, NotJson) /\ NextSlot("out") /\ rx' = NoTries
         \/ /\ reply.data_size # 0
            /\ files' = [files EXCEPT ![ifc[m].sd].unread = Tail(@)]
            /\ rx' = [part |-> "data", size |-> reply.data_size,
                      got |-> 0, tries |-> 0]
            /\ UNCHANGED <<place, z, ifc>>
    BY <1>2, <1>4, <1>5 DEF RecvHeader, Conn
<1>7. PICK d : d = [c EXCEPT !.unread = Tail(@)]
    OBVIOUS
<1>8. /\ HeaderNext(c) /\ d \in Connection /\ d.pid = c.pid
      /\ reply \in Headers /\ DataNext(d, reply.data_size)
  <2>1. HeaderNext(c)
      BY <1>1, <1>3, <1>4 DEF SyncInv, InOrder
  <2> QED BY <1>5, <1>6, <1>7, <2>1, ReadFacts
<1>9. reply.com \in {Ok, "other"} /\ reply.data_size \in 0..MaxChunks
    BY <1>8 DEF Headers
<1>10. CASE GiveUp(m, ifc[m]) /\ NextSlot("out") /\ rx' = NoTries
    BY <1>1, <1>2, <1>3, <1>6, <1>9, <1>10, GiveUpLinks
<1>11. CASE Decode(m, NotJson) /\ NextSlot("out") /\ rx' = NoTries
  <2>1. PICK i \in IfcRecord : i.isconnected /\ GiveUp(m, i)
    <3>1. PICK alloc \in [in : BOOLEAN, out : BOOLEAN] :
             LET e == service_decode_module_stats(ifc[m], NotJson, alloc)
             IN  IF e.ok
                 THEN /\ ifc' = [ifc EXCEPT ![m] = e.ifc]
                      /\ files' = [files EXCEPT ![ifc[m].sd].unread = Tail(@)]
                 ELSE GiveUp(m, e.ifc)
        BY <1>11 DEF Decode
    <3>2. PICK e : e = service_decode_module_stats(ifc[m], NotJson, alloc)
        OBVIOUS
    <3>3. e.ifc \in IfcRecord /\ e.ifc.isconnected = ifc[m].isconnected /\ ~e.ok
        BY <1>3, <3>2, DecodeFacts
    <3> QED BY <1>3, <3>1, <3>2, <3>3
  <2> QED BY <1>1, <1>2, <1>3, <1>6, <1>9, <1>11, <2>1, GiveUpLinks
<1>12. CASE /\ reply.data_size # 0
            /\ files' = [files EXCEPT ![ifc[m].sd].unread = Tail(@)]
            /\ rx' = [part |-> "data", size |-> reply.data_size,
                      got |-> 0, tries |-> 0]
            /\ UNCHANGED <<place, z, ifc>>
  <2>1. files' = [files EXCEPT ![ifc[m].sd] = d]
      BY <1>3, <1>4, <1>7, <1>12, ConnFacts DEF Conn
  <2>2. /\ SockInv' /\ PidInv'
        /\ files' \in [Fds -> Connection \cup {Closed, Stdin}]
        /\ \A n \in Modules :
              /\ Connected(n)' = Connected(n)
              /\ Connected(n) => Conn(n)' = IF n = m THEN d ELSE Conn(n)
      BY <1>1, <1>3, <1>4, <1>8, <1>12, <2>1, MoveOne
  <2>3. /\ rx' \in [part : {"header", "data"}, size : 0..MaxChunks,
                    got : 0..MaxChunks, tries : 0..MaxTry]
        /\ rx'.part = "data" /\ rx'.size = reply.data_size /\ rx'.got = 0
        /\ rx'.got < rx'.size
      BY <1>9, <1>12, ServiceIfcAssumption
  <2>4. rx'.size - rx'.got = reply.data_size
      BY <1>9, <2>3
  <2>5. Conn(m)' = d /\ DataNext(Conn(m)', rx'.size - rx'.got)
      BY <1>3, <1>8, <2>2, <2>4
  <2>6. header' = header \/ header' \in {Ok, "other"}
      BY <1>6, <1>9
  <2>7. UNCHANGED <<place, z, ifc>>
      BY <1>12
  <2> QED BY <1>1, <1>2, <1>3, <2>2, <2>3, <2>5, <2>6, <2>7, StillReading
<1> QED BY <1>6, <1>10, <1>11, <1>12

(***************************************************************************)
(* After the last piece nothing is left on the connection.                 *)
(***************************************************************************)
LEMMA DataLinks ==
    ASSUME IfcInv, RecvData
    PROVE  LinkInv'
<1> USE DEF IfcInv, LinkInv
<1>1. /\ InLoop("receive") /\ place = "receive" /\ slots # <<>>
      /\ UNCHANGED <<vars, listening>> /\ UNCHANGED <<running_modules, pc>>
      /\ rx.part = "data" /\ header' = header
    BY DEF RecvData, InLoop, vars
<1>2. PICK m \in Modules : m = slots[z]
    BY <1>1, LoopSlot
<1>3. /\ Connected(m) /\ ifc[m].isconnected /\ ifc[m] \in IfcRecord
      /\ ifc \in [Modules -> IfcRecord]
    BY <1>2 DEF RecvData, Receiving, Connected, LoopInv
<1>4. PICK c \in Connection : c = Conn(m)
    BY <1>3, ConnFacts
<1>5. PICK piece : piece = Head(c.unread)
    OBVIOUS
<1>6. /\ c.unread # <<>>
      /\ \/ /\ rx.got + 1 = rx.size
            /\ Decode(m, piece.doc) /\ NextSlot("out") /\ rx' = NoTries
         \/ /\ rx.got + 1 # rx.size
            /\ files' = [files EXCEPT ![ifc[m].sd].unread = Tail(@)]
            /\ rx' = [rx EXCEPT !.got = rx.got + 1]
            /\ UNCHANGED <<place, z, ifc>>
    BY <1>2, <1>4, <1>5 DEF RecvData, Conn
<1>7. PICK d : d = [c EXCEPT !.unread = Tail(@)]
    OBVIOUS
<1>8. rx.size - rx.got \in Nat /\ rx.got < rx.size /\ rx.got \in Nat /\ rx.size \in 0..MaxChunks
    BY <1>1 DEF SyncInv
<1>9. /\ d \in Connection /\ d.pid = c.pid
      /\ piece \in Pieces /\ DataNext(d, (rx.size - rx.got) - 1)
  <2>1. DataNext(c, rx.size - rx.got)
      BY <1>1, <1>2, <1>3, <1>4 DEF SyncInv, InOrder, Reading
  <2> QED BY <1>5, <1>6, <1>7, <1>8, <2>1, ReadFacts
<1>10. CASE /\ rx.got + 1 = rx.size
            /\ Decode(m, piece.doc) /\ NextSlot("out") /\ rx' = NoTries
  <2>1. PICK alloc \in [in : BOOLEAN, out : BOOLEAN] :
           LET e == service_decode_module_stats(ifc[m], piece.doc, alloc)
           IN  IF e.ok
               THEN /\ ifc' = [ifc EXCEPT ![m] = e.ifc]
                    /\ files' = [files EXCEPT ![ifc[m].sd].unread = Tail(@)]
               ELSE GiveUp(m, e.ifc)
      BY <1>10 DEF Decode
  <2>2. PICK e : e = service_decode_module_stats(ifc[m], piece.doc, alloc)
      OBVIOUS
  <2>3. /\ e.ifc \in IfcRecord /\ e.ifc.sd = ifc[m].sd
        /\ e.ifc.isconnected = ifc[m].isconnected
    <3>1. PICK doc \in Documents \cup {NotJson} : doc = piece.doc
        BY <1>9 DEF Pieces
    <3>2. e = service_decode_module_stats(ifc[m], doc, alloc)
        BY <2>2, <3>1
    <3> QED BY <1>3, <3>2, DecodeFacts
  <2>4. CASE GiveUp(m, e.ifc)
      BY <1>1, <1>2, <1>3, <1>10, <2>3, <2>4, GiveUpLinks
  <2>5. CASE /\ ifc' = [ifc EXCEPT ![m] = e.ifc]
             /\ files' = [files EXCEPT ![ifc[m].sd].unread = Tail(@)]
    <3>1. files' = [files EXCEPT ![ifc[m].sd] = d]
        BY <1>3, <1>4, <1>7, <2>5, ConnFacts DEF Conn
    <3>2. /\ ifc' \in [Modules -> IfcRecord]
          /\ \A n \in Modules : /\ ifc'[n].sd = ifc[n].sd
                                /\ ifc'[n].isconnected = ifc[n].isconnected
        BY <1>3, <2>3, <2>5
    <3>3. /\ SockInv' /\ PidInv'
          /\ files' \in [Fds -> Connection \cup {Closed, Stdin}]
          /\ \A n \in Modules :
                /\ Connected(n)' = Connected(n)
                /\ Connected(n) => Conn(n)' = IF n = m THEN d ELSE Conn(n)
        BY <1>1, <1>3, <1>4, <1>9, <3>1, <3>2, MoveOne
    <3>4. Quiet(d)
      <4>1. (rx.size - rx.got) - 1 = 0
          BY <1>8, <1>10
      <4> QED BY <1>9, <4>1, DrainedFacts
    <3>5. \A n \in Modules : Connected(n)' =>
             IF n = m THEN Conn(n)' \in Connection /\ Quiet(Conn(n)')
                      ELSE Connected(n) /\ Conn(n)' = Conn(n)
        BY <1>9, <3>3, <3>4
    <3>6. LoopInv' /\ SyncInv'
        BY <1>1, <1>2, <1>10, <3>2, <3>3, <3>5, ReceiveGoesOn
    <3> QED BY <3>3, <3>6
  <2> QED BY <2>1, <2>2, <2>4, <2>5
<1>11. CASE /\ rx.got + 1 # rx.size
            /\ files' = [files EXCEPT ![ifc[m].sd].unread = Tail(@)]
            /\ rx' = [rx EXCEPT !.got = rx.got + 1]
            /\ UNCHANGED <<place, z, ifc>>
  <2>1. files' = [files EXCEPT ![ifc[m].sd] = d]
      BY <1>3, <1>4, <1>7, <1>11, ConnFacts DEF Conn
  <2>2. /\ SockInv' /\ PidInv'
        /\ files' \in [Fds -> Connection \cup {Closed, Stdin}]
        /\ \A n \in Modules :
              /\ Connected(n)' = Connected(n)
              /\ Connected(n) => Conn(n)' = IF n = m THEN d ELSE Conn(n)
      BY <1>1, <1>3, <1>4, <1>9, <1>11, <2>1, MoveOne
  <2>3. rx.got + 1 \in 0..MaxChunks /\ rx.got + 1 < rx.size
      BY <1>8, <1>11, ServiceIfcAssumption
  <2>4. /\ rx' \in [part : {"header", "data"}, size : 0..MaxChunks,
                    got : 0..MaxChunks, tries : 0..MaxTry]
        /\ rx'.part = "data" /\ rx'.size = rx.size /\ rx'.got = rx.got + 1
      BY <1>1, <1>11, <2>3 DEF SyncInv
  <2>5. rx'.size - rx'.got = (rx.size - rx.got) - 1 /\ rx'.got < rx'.size
      BY <1>8, <2>3, <2>4
  <2>6. Conn(m)' = d /\ DataNext(Conn(m)', rx'.size - rx'.got)
      BY <1>3, <1>9, <2>2, <2>5
  <2>7. UNCHANGED <<place, z, ifc>>
      BY <1>11
  <2> QED BY <1>1, <1>2, <1>3, <2>2, <2>4, <2>5, <2>6, <2>7, StillReading
<1> QED BY <1>6, <1>10, <1>11

(***************************************************************************)
(* A step of a module on its side of a connection.                         *)
(***************************************************************************)
LEMMA OtherSide ==
    ASSUME IfcInv, UNCHANGED <<slots, running_modules, pc>>,
           UNCHANGED <<place, z, ifc, header, rx>>, listening' \in SUBSET Pids,
           files' \in [Fds -> Connection \cup {Closed, Stdin}], SockInv', PidInv',
           \A n \in Modules : Connected(n) =>
               /\ HeaderNext(Conn(n)) => HeaderNext(Conn(n)')
               /\ \A k \in Nat : DataNext(Conn(n), k) => DataNext(Conn(n)', k)
               /\ Quiet(Conn(n)) => Quiet(Conn(n)')
    PROVE  LinkInv'
<1> USE DEF IfcInv, LinkInv
<1>1. LoopInv'
    BY DEF LoopInv, Pid, Status
<1>2. \A n \in Modules : /\ Connected(n)' = Connected(n) /\ Pending(n)' = Pending(n)
                         /\ Reading(n)' = Reading(n)
    BY DEF Connected, Pending, Reading
<1>3. rx.part = "data" => rx.size - rx.got \in Nat
    BY DEF SyncInv
<1>4. ASSUME NEW n \in Modules, Connected(n)'
      PROVE  InOrder(n)' /\ (~Pending(n)' => Quiet(Conn(n))')
  <2>1. /\ HeaderNext(Conn(n))' = HeaderNext(Conn(n)')
        /\ Quiet(Conn(n))' = Quiet(Conn(n)')
        /\ DataNext(Conn(n), rx.size - rx.got)' = DataNext(Conn(n)', rx'.size - rx'.got)
      BY DEF HeaderNext, Quiet, DataNext, Stream
  <2>2. Connected(n) /\ InOrder(n) /\ (~Pending(n) => Quiet(Conn(n)))
      BY <1>2, <1>4 DEF SyncInv
  <2> QED BY <1>2, <1>3, <2>1, <2>2 DEF InOrder
<1>5. Connected(slots[z])' = Connected(slots[z])
    BY DEF Connected
<1>6. SyncInv'
    BY <1>4, <1>5 DEF SyncInv
<1> QED BY <1>1, <1>6

\* A module answers a request or writes a piece of its answer.
LEMMA AnswerLinks ==
    ASSUME IfcInv, NEW f \in Fds, Answer(f) \/ Write(f)
    PROVE  LinkInv'
<1> USE DEF IfcInv, LinkInv
<1>1. /\ UNCHANGED <<slots, running_modules, pc>> /\ f \in Sockets
      /\ UNCHANGED <<place, z, ifc, header, rx>> /\ UNCHANGED listening
    BY DEF Answer, Write, vars
<1>2. PICK m \in Modules : Connected(m) /\ ifc[m].sd = f
    BY <1>1 DEF SockInv
<1>3. PICK c \in Connection : c = Conn(m) /\ c = files[f]
    BY <1>2, ConnFacts DEF Conn
<1>4. \E d \in Connection :
         /\ files' = [files EXCEPT ![f] = d] /\ d.pid = c.pid
         /\ HeaderNext(c) => HeaderNext(d)
         /\ \A k \in Nat : DataNext(c, k) => DataNext(d, k)
         /\ Quiet(c) => Quiet(d)
  <2>1. CASE Answer(f)
    <3>1. PICK com \in {Ok, "other"}, n \in 0..MaxChunks, doc0 \in Documents :
            /\ com = Ok => Head(files[f].inbox) = Get
            /\ files' = [files EXCEPT
                  ![f].inbox = Tail(@),
                  ![f].tosend =
                      <<[com |-> com, data_size |-> n]>> \o
                      [i \in 1..n |-> [doc |-> IF com = Ok THEN doc0 ELSE NotJson]]]
        BY <2>1, Zenon DEF Answer
    <3>2. PICK doc \in Documents \cup {NotJson} : doc = IF com = Ok THEN doc0 ELSE NotJson
        OBVIOUS
    <3>9. PICK t : t = Reply(com, n, doc)
        OBVIOUS
    <3>3. PICK d : d = [c EXCEPT !.inbox = Tail(@), !.tosend = t]
        OBVIOUS
    <3>4. files' = [files EXCEPT ![f] = d]
      <4>1. files' = [files EXCEPT ![f].inbox = Tail(@), ![f].tosend = t]
          BY <3>1, <3>2, <3>9 DEF Reply
      <4>2. files \in [Fds -> Connection \cup {Closed, Stdin}]
          BY DEF LoopInv
      <4> QED BY <1>3, <3>3, <4>1, <4>2 DEF Connection
    <3>5. c.inbox # <<>>
        BY <1>3, <2>1 DEF Answer
    <3>6. HeaderNext(c)
      <4>1. InOrder(m)
          BY <1>2 DEF SyncInv
      <4> QED BY <1>3, <3>5, <4>1 DEF InOrder, DataNext
    <3>7. d \in Connection /\ d.pid = c.pid /\ HeaderNext(d)
      <4>1. /\ t \in Seq(Messages) /\ Tail(c.inbox) = <<>>
            /\ \A e \in Connection : e.inbox = <<>> /\ e.tosend = t /\ e.unread = c.unread
                                    => HeaderNext(e)
          BY <3>5, <3>6, <3>9, AnswerFacts
      <4>2. <<>> \in Seq({Get})
          OBVIOUS
      <4>3. d = [c EXCEPT !.inbox = <<>>, !.tosend = t]
          BY <3>3, <4>1 DEF Connection
      <4>4. /\ d \in Connection /\ d.pid = c.pid
            /\ d.inbox = <<>> /\ d.tosend = t /\ d.unread = c.unread
          BY <4>1, <4>2, <4>3 DEF Connection
      <4> QED BY <4>1, <4>4
    <3>8. ~Quiet(c) /\ \A k \in Nat : ~DataNext(c, k)
        BY <3>5 DEF Quiet, DataNext
    <3> QED BY <3>4, <3>7, <3>8
  <2>2. CASE Write(f)
    <3>1. /\ c.tosend # <<>>
          /\ files' = [files EXCEPT ![f].tosend = Tail(@),
                                    ![f].unread = Append(@, Head(c.tosend))]
        BY <1>3, <2>2 DEF Write
    <3>2. PICK d : d = [c EXCEPT !.tosend = Tail(@),
                                 !.unread = Append(@, Head(c.tosend))]
        OBVIOUS
    <3>3. files' = [files EXCEPT ![f] = d]
      <4>1. files \in [Fds -> Connection \cup {Closed, Stdin}]
          BY DEF LoopInv
      <4> QED BY <1>3, <3>1, <3>2, <4>1 DEF Connection
    <3>4. /\ d \in Connection /\ d.pid = c.pid
          /\ d.inbox = c.inbox /\ Stream(d) = Stream(c)
        BY <3>1, <3>2, WriteFacts
    <3>5. /\ HeaderNext(c) => HeaderNext(d)
          /\ \A k \in Nat : DataNext(c, k) => DataNext(d, k)
        BY <3>4 DEF HeaderNext, DataNext
    <3>6. ~Quiet(c)
        BY <3>1 DEF Quiet
    <3> QED BY <3>3, <3>4, <3>5, <3>6
  <2> QED BY <2>1, <2>2
<1>5. PICK d \in Connection :
         /\ files' = [files EXCEPT ![f] = d] /\ d.pid = c.pid
         /\ HeaderNext(c) => HeaderNext(d)
         /\ \A k \in Nat : DataNext(c, k) => DataNext(d, k)
         /\ Quiet(c) => Quiet(d)
    BY <1>4
<1>6. /\ SockInv' /\ PidInv'
      /\ files' \in [Fds -> Connection \cup {Closed, Stdin}]
      /\ \A n \in Modules : Connected(n) => Conn(n)' = IF n = m THEN d ELSE Conn(n)
  <2>1. \A n \in Modules : /\ ifc'[n].sd = ifc[n].sd
                           /\ ifc'[n].isconnected = ifc[n].isconnected
      BY <1>1
  <2>2. files' = [files EXCEPT ![ifc[m].sd] = d] /\ d.pid = Conn(m).pid
      BY <1>2, <1>3, <1>5
  <2>3. UNCHANGED <<running_modules, pc>>
      BY <1>1
  <2> QED BY <1>2, <2>1, <2>2, <2>3, MoveOne
<1>7. ASSUME NEW n \in Modules, Connected(n)
      PROVE  /\ HeaderNext(Conn(n)) => HeaderNext(Conn(n)')
             /\ \A k \in Nat : DataNext(Conn(n), k) => DataNext(Conn(n)', k)
             /\ Quiet(Conn(n)) => Quiet(Conn(n)')
  <2>1. CASE n = m
      BY <1>3, <1>5, <1>6, <1>7, <2>1
  <2>2. CASE n # m
      BY <1>6, <1>7, <2>2
  <2> QED BY <2>1, <2>2
<1>8. listening' \in SUBSET Pids
    BY <1>1 DEF LoopInv
<1> QED BY <1>1, <1>6, <1>7, <1>8, OtherSide

\* A process opens its socket or ends.
LEMMA ProcessLinks ==
    ASSUME IfcInv, NEW p \in Pids, Listen(p) \/ ProcessExit(p)
    PROVE  LinkInv'
<1> USE DEF IfcInv, LinkInv
<1>1. CASE Listen(p)
  <2>1. /\ UNCHANGED <<slots, running_modules, pc>>
        /\ UNCHANGED <<place, z, ifc, header, rx>>
        /\ UNCHANGED files /\ listening' \in SUBSET Pids
      BY <1>1 DEF Listen, vars, LoopInv
  <2>2. SockInv' /\ PidInv' /\ files' \in [Fds -> Connection \cup {Closed, Stdin}]
      BY <2>1 DEF SockInv, PidInv, Connected, Sockets, Conn, Pid, LoopInv
  <2>3. \A n \in Modules : Conn(n)' = Conn(n)
      BY <2>1 DEF Conn
  <2> QED BY <2>1, <2>2, <2>3, OtherSide
<1>2. CASE ProcessExit(p)
  <2>1. /\ UNCHANGED <<slots, running_modules, pc>>
        /\ UNCHANGED <<place, z, ifc, header, rx>>
        /\ listening' \in SUBSET Pids
      BY <1>2 DEF ProcessExit, Exit, tables, LoopInv
  <2>2. ASSUME NEW f \in Fds
        PROVE  IF files[f] \in Connection
               THEN files'[f] \in {files[f], [files[f] EXCEPT
                       !.open = FALSE, !.inbox = <<>>, !.tosend = <<>>]}
               ELSE files'[f] = files[f]
    <3>1. f \in Sockets <=> files[f] \in Connection
        BY ConnFacts, SupervisorAssumption DEF Sockets
    <3> QED BY <1>2, <3>1 DEF ProcessExit
  <2>3. ASSUME NEW f \in Fds, files[f] \in Connection
        PROVE  /\ files'[f] \in Connection /\ files'[f].pid = files[f].pid
               /\ Quiet(files[f]) => Quiet(files'[f])
               /\ HeaderNext(files[f]) => HeaderNext(files'[f])
               /\ \A n \in Nat : DataNext(files[f], n) => DataNext(files'[f], n)
    <3>1. PICK c \in Connection : c = files[f]
        BY <2>3
    <3>2. PICK d : d = [c EXCEPT !.open = FALSE, !.inbox = <<>>, !.tosend = <<>>]
        OBVIOUS
    <3>3. files'[f] = c \/ files'[f] = d
        BY <2>2, <2>3, <3>1, <3>2
    <3>4. /\ d \in Connection /\ d.pid = c.pid
          /\ Quiet(c) => Quiet(d)
          /\ HeaderNext(c) => HeaderNext(d)
          /\ \A n \in Nat : DataNext(c, n) => DataNext(d, n)
        BY <3>2, ExitFacts
    <3> QED BY <3>1, <3>3, <3>4
  <2>4. \A f \in Fds : IF files[f] \in Connection
                       THEN files'[f] \in Connection /\ files'[f].pid = files[f].pid
                       ELSE files'[f] = files[f]
      BY <2>2, <2>3
  <2>5. SockInv' /\ PidInv'
      BY <2>1, <2>4, SameOwners
  <2>6. files' \in [Fds -> Connection \cup {Closed, Stdin}]
    <3>1. \A f \in Fds : files'[f] \in Connection \cup {Closed, Stdin}
        BY <2>4 DEF LoopInv
    <3>2. files' = [f \in Fds |-> files'[f]]
        BY <1>2 DEF ProcessExit
    <3> QED BY <3>1, <3>2
  <2>7. ASSUME NEW n \in Modules, Connected(n)
        PROVE  /\ HeaderNext(Conn(n)) => HeaderNext(Conn(n)')
               /\ \A k \in Nat : DataNext(Conn(n), k) => DataNext(Conn(n)', k)
               /\ Quiet(Conn(n)) => Quiet(Conn(n)')
    <3>1. PICK f \in Fds : f = ifc[n].sd
        BY <2>7, ConnFacts
    <3>2. Conn(n) = files[f] /\ Conn(n)' = files'[f] /\ files[f] \in Connection
        BY <2>1, <2>7, <3>1, ConnFacts DEF Conn
    <3> QED BY <2>3, <3>2
  <2> QED BY <2>1, <2>5, <2>6, <2>7, OtherSide
<1> QED BY <1>1, <1>2

-----------------------------------------------------------------------------
(* The theorems. *)

(***************************************************************************)
(* The supervisor starts without connections.                              *)
(***************************************************************************)
LEMMA IfcStart == IfcInit => IfcInv
<1> SUFFICES ASSUME IfcInit PROVE IfcInv
    OBVIOUS
<1>1. IInv /\ pc = "load" /\ slots = <<>>
    BY InitInv DEF IfcInit, Init, StartsWith
<1>2. /\ place = "out" /\ z = 1 /\ header = "none" /\ rx = NoTries
      /\ ifc = [m \in Modules |-> EmptyIfc]
      /\ files = [f \in Fds |-> IF f = 0 THEN Stdin ELSE Closed]
      /\ listening \in SUBSET Pids
    BY DEF IfcInit
<1>3. DistinctInv
    BY <1>1 DEF DistinctInv
<1>4. LoopInv
    BY <1>2, IfcFacts DEF LoopInv
<1>5. \A m \in Modules : ~Connected(m) /\ ifc[m].sd = 0
    BY <1>2, IfcFacts DEF Connected
<1>6. Sockets = {}
    BY <1>2 DEF Sockets, Stdin, Closed
<1>7. SockInv
    BY <1>2, <1>5, <1>6, ServiceIfcAssumption DEF SockInv
<1>8. PidInv
    BY <1>1, <1>5 DEF PidInv
<1>9. SyncInv
  <2>1. /\ rx \in [part : {"header", "data"}, size : 0..MaxChunks,
                   got : 0..MaxChunks, tries : 0..MaxTry]
        /\ rx.part # "data"
      BY <1>2, ServiceIfcAssumption DEF NoTries
  <2> QED BY <1>2, <1>5, <2>1 DEF SyncInv
<1> QED BY <1>1, <1>3, <1>4, <1>7, <1>8, <1>9 DEF IfcInv, LinkInv

(***************************************************************************)
(* Every step keeps the invariant.                                         *)
(***************************************************************************)
LEMMA IfcKeeps == IfcInv /\ [IfcNext]_allvars => IfcInv'
<1> SUFFICES ASSUME IfcInv, [IfcNext]_allvars PROVE IfcInv'
    OBVIOUS
<1>1. IInv' /\ DistinctInv'
    BY IfcIInv DEF IfcInv
<1>2. CASE UNCHANGED allvars
  <2>1. UNCHANGED <<slots, running_modules, pc>> /\ UNCHANGED ifcvars
      BY <1>2 DEF allvars, vars
  <2>2. LinkInv' = LinkInv
      BY <2>1 DEF ifcvars, LinkInv, LoopInv, SockInv, PidInv, SyncInv, Connected, Conn,
         Sockets, Pid, Status, InOrder, Reading, Pending, HeaderNext, DataNext, Stream, Quiet
  <2> QED BY <1>1, <2>2 DEF IfcInv
<1>3. CASE ServiceThread \/ LoadStep \/ CommandStep
  <2>1. LinkInv'
      BY <1>3, CheckLinks, StartLinks, ServeLinks, QuietLinks, LoadLinks, EmptyLinks,
         ConnectLinks, SendLinks, SkipLinks, AgainLinks, ClosedLinks, HeaderLinks,
         DataLinks DEF ServiceThread, InterfaceStep
  <2> QED BY <1>1, <2>1 DEF IfcInv
<1>4. CASE ModuleStep
  <2>1. LinkInv'
      BY <1>4, ProcessLinks, AnswerLinks DEF ModuleStep
  <2> QED BY <1>1, <2>1 DEF IfcInv
<1> QED BY <1>2, <1>3, <1>4 DEF IfcNext

\* So it holds in every reachable state.
LEMMA IfcInvariance == IfcSpec => []IfcInv
BY IfcStart, IfcKeeps, PTL DEF IfcSpec

\* The invariant contains the types.
LEMMA IfcTypes == IfcInv => IfcTypeOK
<1> SUFFICES ASSUME IfcInv PROVE IfcTypeOK
    OBVIOUS
<1> USE DEF IfcInv, LinkInv
<1>1. IfcRecord \subseteq [sd : Fds \cup {-1}, isconnected : BOOLEAN,
                           conn_timer : 0..Periods, in : Table, out : Table]
    BY DEF IfcRecord, FullTable
<1>2. ifc \in [Modules -> [sd : Fds \cup {-1}, isconnected : BOOLEAN,
                           conn_timer : 0..Periods, in : Table, out : Table]]
    BY <1>1 DEF LoopInv
<1>3. DOMAIN files = Fds /\ \A f \in Fds : files[f].kind \in {"closed", "stdin", "socket"}
    BY DEF LoopInv, Connection, Closed, Stdin
<1> QED BY <1>2, <1>3 DEF IfcTypeOK, LoopInv, SyncInv

(***************************************************************************)
(* The variables keep their types, for every number of modules and         *)
(* descriptors: the attempts never exceed SERVICE_WAIT_MAX_TRY, and a      *)
(* descriptor is always a number of the supervisor's or -1.                *)
(***************************************************************************)
THEOREM IfcTypeCorrect == IfcSpec => []IfcTypeOK
BY IfcInvariance, IfcTypes, PTL

\* The invariant says who owns a socket.
LEMMA IfcOwners == IfcInv => OwnSockets
<1> SUFFICES ASSUME IfcInv PROVE OwnSockets
    OBVIOUS
<1> USE DEF IfcInv, LinkInv
<1>1. ASSUME NEW f \in Sockets
      PROVE  \E m \in Loaded : ifc[m].sd = f /\ \A n \in Modules \ {m} : ifc[n].sd # f
  <2>1. PICK m \in Modules : Connected(m) /\ ifc[m].sd = f
      BY DEF SockInv
  <2>2. m \in Loaded
      BY <2>1, RecordedLoaded DEF PidInv
  <2>3. f # -1 /\ f # 0
      BY <2>1, ConnFacts
  <2>4. \A n \in Modules \ {m} : ifc[n].sd # f
      BY <2>1, <2>3 DEF SockInv
  <2> QED BY <2>1, <2>2, <2>4
<1>2. ASSUME NEW m \in Modules, ifc[m].isconnected
      PROVE  /\ ifc[m].sd \in Sockets
             /\ files[ifc[m].sd].pid = running_modules[m].module_pid
    BY <1>2 DEF SockInv, PidInv, Connected, Conn, Pid
<1> QED BY <1>1, <1>2 DEF OwnSockets, SockInv

(***************************************************************************)
(* No descriptor is leaked or closed for somebody else: although           *)
(* init_module_variables forgets a descriptor without closing it, every    *)
(* socket belongs to exactly one slot of the table, a connected slot talks *)
(* to the process it records, and descriptor 0 stays open.                 *)
(***************************************************************************)
THEOREM SocketsOwned == IfcSpec => []OwnSockets
BY IfcInvariance, IfcOwners, PTL

\* The invariant says what is on a connection.
LEMMA IfcInStep == IfcInv => InStep
<1> SUFFICES ASSUME IfcInv PROVE InStep
    OBVIOUS
<1> USE DEF IfcInv, LinkInv
<1>1. ASSUME place = "request", NEW i \in z..Len(slots), ifc[slots[i]].isconnected
      PROVE  Quiet(files[ifc[slots[i]].sd])
  <2>1. /\ DOMAIN slots = 1..Len(slots) /\ z \in Nat \ {0} /\ slots \in Seq(Modules)
        /\ Len(slots) \in Nat
      BY LenProperties DEF IInv, TypeOK, LoopInv
  <2>2. i \in DOMAIN slots /\ slots[i] \in Modules
      BY <2>1
  <2>3. ~Pending(slots[i])
      BY <1>1, <2>1, <2>2 DEF Pending, DistinctInv
  <2> QED BY <1>1, <2>2, <2>3 DEF SyncInv, Connected, Conn
<1>2. ASSUME NEW f \in Sockets
      PROVE  files[f].inbox \in {<<>>, <<Get>>}
  <2>1. PICK m \in Modules : Connected(m) /\ ifc[m].sd = f
      BY DEF SockInv
  <2>2. InOrder(m)
      BY <2>1 DEF SyncInv
  <2> QED BY <2>1, <2>2 DEF InOrder, HeaderNext, DataNext, Conn
<1> QED BY <1>1, <1>2 DEF InStep

(***************************************************************************)
(* Requests and replies stay in step, however many pieces a reply has and  *)
(* however late, short or wrong it is: nothing is left on a connection     *)
(* when service_send_data uses it, and what is sent is a request.          *)
(***************************************************************************)
THEOREM StaysInStep == IfcSpec => []InStep
BY IfcInvariance, IfcInStep, PTL

\* The invariant says how long the arrays are.
LEMMA IfcArrays == IfcInv => ArraysMatchCounts
<1> SUFFICES ASSUME IfcInv PROVE ArraysMatchCounts
    OBVIOUS
<1>1. \A m \in Modules : ifc[m].in \in FullTable /\ ifc[m].out \in FullTable
    BY DEF IfcInv, LinkInv, LoopInv, IfcRecord
<1> QED BY <1>1 DEF ArraysMatchCounts, FullTable

(***************************************************************************)
(* Whatever service_decode_module_stats is sent, the slot's arrays are as  *)
(* long as the counts that the listings go by.                             *)
(***************************************************************************)
THEOREM ArraysMatch == IfcSpec => []ArraysMatchCounts
BY IfcInvariance, IfcArrays, PTL
=============================================================================
