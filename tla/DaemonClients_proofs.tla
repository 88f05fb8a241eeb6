------------------------ MODULE DaemonClients_proofs ------------------------
(***************************************************************************)
(* The server of the daemon for every number of clients.                   *)
(***************************************************************************)
EXTENDS DaemonClients, FiniteSetTheorems, TLAPS

(***************************************************************************)
(* What the acceptor holds at each place, and what a thread can rely on:   *)
(* its slot is in use, and the acceptor is not about to hand it out.       *)
(***************************************************************************)
SlotInv ==
    /\ acceptor \in {"test", "place"} => new_client \in Fds
    /\ acceptor \in {"count", "create"} =>
          /\ placed \in Slots
          /\ thread[placed] = "none"
          /\ client_sd[placed] # NoFd
    /\ acceptor \in {"place", "count"} => clients_cnt < MaxClients
    /\ \A x \in Slots : thread[x] # "none" => client_sd[x] # NoFd

(***************************************************************************)
(* From the test under the lock to the release the mode belongs to one     *)
(* thread.                                                                 *)
(***************************************************************************)
InMode(x) == thread[x] \in {"streams", "loop", "command", "reset", "release"}

ModeInv ==
    /\ \A x \in Slots : InMode(x) => config_mode_active
    /\ \A x, z \in Slots : InMode(x) /\ InMode(z) => x = z
    /\ ConfigOutputOwned

IInv == TypeOK /\ SlotInv /\ ClientsCounted /\ ModeInv

-----------------------------------------------------------------------------
(* Counting. *)

(***************************************************************************)
(* There are MaxClients slots, and never more of them in use.              *)
(***************************************************************************)
LEMMA UsedFinite ==
    /\ IsFiniteSet(Slots) /\ Cardinality(Slots) = MaxClients
    /\ IsFiniteSet(Used) /\ Cardinality(Used) \in 0..MaxClients
<1>1. IsFiniteSet(Slots) /\ Cardinality(Slots) = MaxClients
    BY FS_Interval, ClientsAssumption DEF Slots
<1>2. Used \in SUBSET Slots
    BY DEF Used
<1>3. IsFiniteSet(Used) /\ Cardinality(Used) <= MaxClients
    BY <1>1, <1>2, FS_Subset
<1>4. Cardinality(Used) \in Nat
    BY <1>3, FS_CardinalityType
<1> QED BY <1>1, <1>3, <1>4, ClientsAssumption

(***************************************************************************)
(* The acceptor takes one slot, if there is one left.                      *)
(***************************************************************************)
LEMMA SlotTaken ==
    ASSUME TypeOK, NEW x \in Slots, x \notin Used, NEW f \in Fds,
           client_sd' = [z \in Slots |-> IF z = x THEN f ELSE client_sd[z]]
    PROVE  Cardinality(Used') = Cardinality(Used) + 1
<1>1. Used' = Used \cup {x}
    BY ClientsAssumption DEF Used, TypeOK
<1> QED BY <1>1, UsedFinite, FS_AddElement

(***************************************************************************)
(* A client that leaves, or that could not be served, frees one.           *)
(***************************************************************************)
LEMMA SlotFreed ==
    ASSUME TypeOK, NEW x \in Slots, client_sd[x] # NoFd,
           client_sd' = [client_sd EXCEPT ![x] = NoFd]
    PROVE  Cardinality(Used') = Cardinality(Used) - 1
<1>1. Used' = Used \ {x} /\ x \in Used
    BY DEF Used, TypeOK
<1> QED BY <1>1, UsedFinite, FS_RemoveElement

(***************************************************************************)
(* Nothing is counted while no slot changes hands.                         *)
(***************************************************************************)
LEMMA SlotsKept ==
    ASSUME UNCHANGED client_sd
    PROVE  Used' = Used /\ Cardinality(Used') = Cardinality(Used)
BY DEF Used

(***************************************************************************)
(* The search of the acceptor has a first hit if it has any.               *)
(***************************************************************************)
LEMMA LeastNumber ==
    ASSUME NEW S \in SUBSET Nat, S # {}
    PROVE  \E x \in S : \A z \in S : x <= z
<1> DEFINE R == OpToRel(<, Nat)
<1>1. PICK x \in S : \A z \in S : ~(<<z, x>> \in R)
    <2>1. IsWellFoundedOn(R, Nat)
        BY NatLessThanWellFounded
    <2> HIDE DEF R
    <2> QED BY <2>1, WFMin
<1>2. \A z \in S : ~(z < x)
    BY <1>1 DEF OpToRel
<1> QED BY <1>2

(***************************************************************************)
(* A counter below its limit leaves a slot for the acceptor to find.       *)
(***************************************************************************)
LEMMA RoomMeansSlot ==
    ASSUME TypeOK, ClientsCounted, acceptor = "place", clients_cnt < MaxClients
    PROVE  /\ Used # Slots
           /\ FirstFree \in Slots /\ FirstFree \notin Used
<1>1. Cardinality(Used) < MaxClients
    BY UsedFinite, ClientsAssumption DEF ClientsCounted, TypeOK
<1>2. Used # Slots
    BY <1>1, UsedFinite, ClientsAssumption
<1> DEFINE free == Slots \ Used
<1>3. free # {} /\ free \subseteq Nat
    BY <1>2 DEF Slots, Used
<1>4. \E x \in free : \A z \in free : x <= z
    BY <1>3, LeastNumber
<1>5. FirstFree \in free
    BY <1>3, <1>4 DEF FirstFree
<1> QED BY <1>2, <1>5

-----------------------------------------------------------------------------
(* The inductive invariant, one part at a time. *)

(***************************************************************************)
(* The acceptor's steps keep every variable in its range.                  *)
(***************************************************************************)
LEMMA ServerType ==
    ASSUME IInv, Server
    PROVE  TypeOK'
<1> USE ClientsAssumption DEF IInv, TypeOK, SlotInv, Slots, Nobody, Unassigned, Connections
<1>1. CASE Listen
    BY <1>1 DEF Listen, mode
<1>2. CASE Accept
    BY <1>2 DEF Accept, mode
<1>3. CASE Test
    BY <1>3 DEF Test, mode
<1>4. CASE Place
  <2>1. FirstFree \in Slots
      BY <1>4, RoomMeansSlot DEF Place
  <2> QED BY <1>4, <2>1 DEF Place, mode
<1>5. CASE Count
    BY <1>5 DEF Count, mode
<1>6. CASE Create
    BY <1>6 DEF Create, mode
<1>7. CASE CreateFails
  <2>1. clients_cnt - 1 \in 0..MaxClients
    <3>1. placed \in Used
        BY <1>7 DEF CreateFails, Used
    <3>2. Cardinality(Used) >= 1
        BY <3>1, UsedFinite, FS_EmptySet
    <3> QED BY <1>7, <3>2, UsedFinite DEF CreateFails, ClientsCounted
  <2> QED BY <1>7, <2>1 DEF CreateFails, Closed, mode
<1> QED BY <1>1, <1>2, <1>3, <1>4, <1>5, <1>6, <1>7 DEF Server

(***************************************************************************)
(* So do the steps of a client's thread ...                                *)
(***************************************************************************)
LEMMA ThreadType ==
    ASSUME IInv, NEW x \in Slots,
           Thread(x) \/ Request(x) \/ RequestDone(x) \/ HangUp(x)
    PROVE  TypeOK'
<1> USE DEF IInv, TypeOK, Goto
<1>1. CASE daemon_open_client_streams(x)
    BY <1>1 DEF daemon_open_client_streams, server, mode
<1>2. CASE daemon_get_code_from_client(x)
    BY <1>2 DEF daemon_get_code_from_client, server, mode
<1>3. CASE EnterConfigMode(x)
    BY <1>3 DEF EnterConfigMode, server
<1>4. CASE TakeStreams(x)
    BY <1>4 DEF TakeStreams, server
<1>5. CASE LoopEnds(x)
    BY <1>5 DEF LoopEnds, server, mode
<1>6. CASE LeaveConfigMode(x)
    BY <1>6 DEF LeaveConfigMode, server
<1>7. CASE CloseStreams(x)
    BY <1>7 DEF CloseStreams, Closed, Connections, server, mode
<1>8. CASE FreeSlot(x)
  <2>1. leaving + 1 \in 0..MaxClients
    <3>1. x \in Used
        BY <1>8 DEF FreeSlot, SlotInv, Used
    <3>2. Cardinality(Used) >= 1
        BY <3>1, UsedFinite, FS_EmptySet
    <3>3. clients_cnt + (IF acceptor = "count" THEN 1 ELSE 0) <= MaxClients
        BY ClientsAssumption DEF SlotInv
    <3> QED BY <3>2, <3>3, UsedFinite, ClientsAssumption DEF ClientsCounted
  <2> QED BY <1>8, <2>1 DEF FreeSlot, Closed, Connections, server, mode
<1>9. CASE Request(x)
    BY <1>9 DEF Request, server, mode
<1>10. CASE RequestDone(x)
    BY <1>10 DEF RequestDone, server
<1>11. CASE HangUp(x)
    BY <1>11 DEF HangUp, server, mode
<1> QED BY <1>1, <1>2, <1>3, <1>4, <1>5, <1>6, <1>7, <1>8, <1>9, <1>10, <1>11
        DEF Thread

(***************************************************************************)
(* ... and the end of a thread, which finds itself counted.                *)
(***************************************************************************)
LEMMA CountOutType ==
    ASSUME IInv, CountOut
    PROVE  TypeOK'
<1> USE ClientsAssumption DEF IInv, TypeOK
<1>1. acceptor = "count" => Cardinality(Used) >= 1
  <2>1. acceptor = "count" => placed \in Used
      BY DEF SlotInv, Used
  <2> QED BY <2>1, UsedFinite, FS_EmptySet
<1>2. clients_cnt - 1 \in 0..MaxClients
    BY <1>1, UsedFinite DEF ClientsCounted, CountOut
<1>3. leaving - 1 \in 0..MaxClients
    BY DEF CountOut
<1> QED BY <1>2, <1>3 DEF CountOut, server, mode

(***************************************************************************)
(* The acceptor keeps what it relies on, and does not touch a slot whose   *)
(* thread runs.                                                            *)
(***************************************************************************)
LEMMA ServerSlot ==
    ASSUME IInv, Server
    PROVE  SlotInv'
<1> USE ClientsAssumption DEF IInv, TypeOK, SlotInv, Slots, Nobody
<1>1. CASE Listen
    BY <1>1 DEF Listen
<1>2. CASE Accept
    BY <1>2 DEF Accept
<1>3. CASE Test
    BY <1>3 DEF Test, Room
<1>4. CASE Place
  <2>1. FirstFree \in Slots /\ client_sd[FirstFree] = NoFd
      BY <1>4, RoomMeansSlot DEF Place, Used
  <2>2. thread[FirstFree] = "none"
      BY <2>1
  <2> HIDE DEF Slots
  <2>3. placed' \in Slots /\ thread'[placed'] = "none" /\ client_sd'[placed'] # NoFd
      BY <1>4, <2>1, <2>2 DEF Place
  <2>4. acceptor' = "count" /\ clients_cnt' < MaxClients
      BY <1>4, <2>1 DEF Place, Slots
  <2>5. \A x \in Slots : thread'[x] # "none" => client_sd'[x] # NoFd
      BY <1>4, <2>1 DEF Place
  <2> QED BY <2>3, <2>4, <2>5
<1>5. CASE Count
    BY <1>5 DEF Count
<1>6. CASE Create
    BY <1>6 DEF Create
<1>7. CASE CreateFails
    BY <1>7 DEF CreateFails
<1> QED BY <1>1, <1>2, <1>3, <1>4, <1>5, <1>6, <1>7 DEF Server

(***************************************************************************)
(* A thread that runs is not the one the acceptor is about to create.      *)
(***************************************************************************)
LEMMA ThreadSlot ==
    ASSUME IInv, NEW x \in Slots,
           Thread(x) \/ Request(x) \/ RequestDone(x) \/ HangUp(x)
    PROVE  SlotInv'
<1> USE DEF IInv, TypeOK, SlotInv
<1>1. thread[x] # "none"
    BY DEF Thread, Request, RequestDone, HangUp, Goto, daemon_open_client_streams,
           daemon_get_code_from_client, EnterConfigMode, TakeStreams, LoopEnds,
           LeaveConfigMode, CloseStreams, FreeSlot
<1>2. UNCHANGED <<server, clients_cnt>>
    BY DEF Thread, Request, RequestDone, HangUp, daemon_open_client_streams,
           daemon_get_code_from_client, EnterConfigMode, TakeStreams, LoopEnds,
           LeaveConfigMode, CloseStreams, FreeSlot
<1>3. CASE FreeSlot(x)
    BY <1>1, <1>2, <1>3 DEF FreeSlot, Goto, server
<1>4. CASE ~FreeSlot(x)
  <2>1. UNCHANGED client_sd
      BY <1>4 DEF Thread, Request, RequestDone, HangUp, daemon_open_client_streams,
             daemon_get_code_from_client, EnterConfigMode, TakeStreams, LoopEnds,
             LeaveConfigMode, CloseStreams
  <2>2. \A z \in Slots \ {x} : thread'[z] = thread[z]
      BY DEF Thread, Request, RequestDone, HangUp, Goto, daemon_open_client_streams,
             daemon_get_code_from_client, EnterConfigMode, TakeStreams, LoopEnds,
             LeaveConfigMode, CloseStreams, FreeSlot
  <2> QED BY <1>1, <1>2, <2>1, <2>2 DEF server
<1> QED BY <1>3, <1>4

(***************************************************************************)
(* Every step that takes or frees a slot is counted, sooner or later.      *)
(***************************************************************************)
LEMMA CountedStep ==
    ASSUME IInv, Next
    PROVE  ClientsCounted'
<1> USE DEF IInv
<1>0. /\ Cardinality(Used) \in Nat /\ clients_cnt \in Nat /\ leaving \in Nat
    BY UsedFinite, ClientsAssumption DEF TypeOK
<1>1. CASE Place
  <2>1. FirstFree \in Slots /\ FirstFree \notin Used
      BY <1>1, RoomMeansSlot DEF Place, SlotInv
  <2>2. Cardinality(Used') = Cardinality(Used) + 1
    <3>1. new_client \in Fds
        BY <1>1 DEF Place, SlotInv
    <3> QED BY <1>1, <2>1, <3>1, SlotTaken DEF Place
  <2>3. acceptor = "place" /\ acceptor' = "count" /\ UNCHANGED <<clients_cnt, leaving>>
      BY <1>1, <2>1, ClientsAssumption DEF Place, Slots, Nobody
  <2> QED BY <1>0, <2>2, <2>3 DEF ClientsCounted
<1>2. CASE CreateFails
  <2>1. Cardinality(Used') = Cardinality(Used) - 1
      BY <1>2, SlotFreed DEF CreateFails, SlotInv
  <2> QED BY <1>0, <1>2, <2>1 DEF CreateFails, ClientsCounted
<1>3. ASSUME NEW x \in Slots, FreeSlot(x) PROVE ClientsCounted'
  <2>1. Cardinality(Used') = Cardinality(Used) - 1
      BY <1>3, SlotFreed DEF FreeSlot, Goto, SlotInv
  <2> QED BY <1>0, <1>3, <2>1 DEF FreeSlot, ClientsCounted, server
<1>4. CASE Count
    BY <1>0, <1>4, SlotsKept DEF Count, ClientsCounted
<1>5. CASE CountOut
    BY <1>0, <1>5, SlotsKept DEF CountOut, ClientsCounted, server
<1>6. ASSUME UNCHANGED <<client_sd, leaving, clients_cnt>>,
             acceptor # "count", acceptor' # "count"
      PROVE  ClientsCounted'
    BY <1>0, <1>6, SlotsKept DEF ClientsCounted
<1>7. CASE Listen \/ Accept \/ Test \/ Create
    BY <1>6, <1>7 DEF Listen, Accept, Test, Create
<1>8. ASSUME UNCHANGED <<client_sd, leaving, clients_cnt, acceptor>>
      PROVE  ClientsCounted'
    BY <1>0, <1>8, SlotsKept DEF ClientsCounted
<1>9. CASE Terminate
    BY <1>8, <1>9 DEF Terminate, server
<1>10. ASSUME NEW x \in Slots,
             (Thread(x) /\ ~FreeSlot(x)) \/ Request(x) \/ RequestDone(x) \/ HangUp(x)
       PROVE  ClientsCounted'
    BY <1>8, <1>10
       DEF Thread, Request, RequestDone, HangUp, daemon_open_client_streams,
           daemon_get_code_from_client, EnterConfigMode, TakeStreams, LoopEnds,
           LeaveConfigMode, CloseStreams, server
<1> QED BY <1>1, <1>2, <1>3, <1>4, <1>5, <1>7, <1>9, <1>10 DEF Next, Server, Thread

(***************************************************************************)
(* The configuration mode passes from thread to thread through the lock:   *)
(* only EnterConfigMode enters it, and only while nobody is in it.         *)
(***************************************************************************)
LEMMA ModeStep ==
    ASSUME IInv, Next
    PROVE  ModeInv'
<1> USE DEF IInv, TypeOK, ModeInv, InMode, ConfigOutputOwned
<1>1. CASE Server
  <2>1. CASE Create
    <3>1. placed \in Slots
        BY <2>1 DEF Create, SlotInv
    <3> QED BY <2>1, <3>1 DEF Create, mode
  <2>2. CASE ~Create
    <3>1. UNCHANGED <<thread, mode>>
        BY <1>1, <2>2 DEF Server, Listen, Accept, Test, Place, Count, CreateFails
    <3> QED BY <3>1 DEF mode
  <2> QED BY <2>1, <2>2
<1>2. CASE Terminate \/ CountOut
    BY <1>2 DEF Terminate, CountOut, mode
<1>3. ASSUME NEW x \in Slots,
             Thread(x) \/ Request(x) \/ RequestDone(x) \/ HangUp(x)
      PROVE  ModeInv'
  <2> USE DEF Goto
  <2>1. CASE daemon_open_client_streams(x)
      BY <2>1 DEF daemon_open_client_streams, mode
  <2>2. CASE daemon_get_code_from_client(x)
      BY <2>2 DEF daemon_get_code_from_client, mode
  <2>3. CASE EnterConfigMode(x)
      BY <2>3 DEF EnterConfigMode
  <2>4. CASE TakeStreams(x)
      BY <2>4 DEF TakeStreams
  <2>5. CASE LoopEnds(x)
      BY <2>5 DEF LoopEnds, mode
  <2>6. CASE LeaveConfigMode(x)
      BY <2>6 DEF LeaveConfigMode
  <2>7. CASE CloseStreams(x)
      BY <2>7 DEF CloseStreams, mode
  <2>8. CASE FreeSlot(x)
      BY <2>8 DEF FreeSlot, mode
  <2>9. CASE Request(x)
      BY <2>9 DEF Request, mode
  <2>10. CASE RequestDone(x)
      BY <2>10 DEF RequestDone
  <2>11. CASE HangUp(x)
      BY <2>11 DEF HangUp, mode
  <2> QED BY <1>3, <2>1, <2>2, <2>3, <2>4, <2>5, <2>6, <2>7, <2>8, <2>9, <2>10,
             <2>11 DEF Thread
<1> QED BY <1>1, <1>2, <1>3 DEF Next

(***************************************************************************)
(* IInv holds when the daemon starts and survives every step.              *)
(***************************************************************************)
LEMMA Invariance == Spec => []IInv
<1>1. Init => IInv
  <2> SUFFICES ASSUME Init PROVE IInv
      OBVIOUS
  <2>1. Used = {}
      BY DEF Init, Used
  <2>2. ClientsCounted
      BY <2>1, FS_EmptySet DEF Init, ClientsCounted
  <2>3. TypeOK
    <3>1. 0 \in 0..MaxClients /\ 0 \in 0..2
        BY ClientsAssumption
    <3>2. /\ file \in [Fds -> Connections]
          /\ client_sd \in [Slots -> Fds \cup {NoFd}]
          /\ streams \in [Slots -> 0..2]
        BY <3>1 DEF Init, Connections
    <3> QED BY <3>1, <3>2 DEF Init, TypeOK
  <2>4. SlotInv /\ ModeInv
      BY DEF Init, SlotInv, ModeInv, InMode, ConfigOutputOwned
  <2> QED BY <2>2, <2>3, <2>4 DEF IInv
<1>2. IInv /\ [Next]_vars => IInv'
  <2> SUFFICES ASSUME IInv, [Next]_vars PROVE IInv'
      OBVIOUS
  <2>1. CASE UNCHANGED vars
    <3>1. Used' = Used
        BY <2>1 DEF vars, Used
    <3> QED BY <2>1, <3>1
            DEF vars, server, mode, IInv, TypeOK, SlotInv, ClientsCounted, ModeInv,
                InMode, ConfigOutputOwned
  <2>2. CASE Next
    <3>1. TypeOK' /\ SlotInv'
      <4>1. CASE Server
          BY <4>1, ServerType, ServerSlot
      <4>2. CASE Terminate
          BY <4>2 DEF Terminate, server, IInv, TypeOK, SlotInv
      <4>3. CASE CountOut
        <5>1. TypeOK'
            BY <4>3, CountOutType
        <5>2. SlotInv'
            BY <4>3, ClientsAssumption DEF CountOut, server, IInv, TypeOK, SlotInv
        <5> QED BY <5>1, <5>2
      <4>4. ASSUME NEW x \in Slots,
                   Thread(x) \/ Request(x) \/ RequestDone(x) \/ HangUp(x)
            PROVE  TypeOK' /\ SlotInv'
          BY <4>4, ThreadType, ThreadSlot
      <4> QED BY <2>2, <4>1, <4>2, <4>3, <4>4 DEF Next
    <3> QED BY <2>2, <3>1, CountedStep, ModeStep DEF IInv
  <2> QED BY <2>1, <2>2
<1> QED BY <1>1, <1>2, PTL DEF Spec

(***************************************************************************)
(* Every variable of the server stays in its range; in particular the      *)
(* counter is never negative and never above MAX_NUMBER_SUP_CLIENTS.       *)
(***************************************************************************)
THEOREM TypeCorrect == Spec => []TypeOK
<1>1. IInv => TypeOK
    BY DEF IInv
<1> QED BY <1>1, Invariance, PTL

(***************************************************************************)
(* No slot is ever lost to the counter, however the ends of the clients'   *)
(* threads and the failures of pthread_create interleave.                  *)
(***************************************************************************)
THEOREM CounterExact == Spec => []ClientsCounted
<1>1. IInv => ClientsCounted
    BY DEF IInv
<1> QED BY <1>1, Invariance, PTL

(***************************************************************************)
(* The search of daemon_mode_server_routine always finds a slot, although  *)
(* the counter is tested without the lock.                                 *)
(***************************************************************************)
THEOREM SlotAlwaysFound == Spec => []AcceptFindsSlot
<1>1. IInv => AcceptFindsSlot
    BY RoomMeansSlot DEF IInv, SlotInv, AcceptFindsSlot
<1> QED BY <1>1, Invariance, PTL

(***************************************************************************)
(* The streams of the configuration mode are the client's own for as long  *)
(* as it is in its loop.                                                   *)
(***************************************************************************)
THEOREM ConfigModeExclusive == Spec => []ConfigOutputOwned
<1>1. IInv => ConfigOutputOwned
    BY DEF IInv, ModeInv
<1> QED BY <1>1, Invariance, PTL
=============================================================================
