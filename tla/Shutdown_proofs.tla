-------------------------- MODULE Shutdown_proofs --------------------------
(***************************************************************************)
(* Termination and the next start, for every value of the constants and    *)
(* whenever a signal comes.                                                *)
(***************************************************************************)
EXTENDS Shutdown, Supervisor_proofs, FiniteSetTheorems

\* The slot of the module a process belongs to.
SlotOf(p) == running_modules[proc[p].mod]

\* Loading or reloading: some elements of the configuration are still ahead.
Loading == pc \in {"load", "reload"}

\* The module has an element that has been dealt with.
NamedBefore(m) ==
    \E i \in DOMAIN config.modules : i < y /\ config.modules[i].name = m

-----------------------------------------------------------------------------

\* Types; a module is in the array once and in a configuration once, also in
\* the backup file.
BaseInv ==
    /\ TypeOK /\ DistinctInv /\ UniqueNames(config)
    /\ phase \in {"up", "stopping", "joining", "over"}
    /\ stop_all \in BOOLEAN
    /\ backup # NoBackup => backup \in Configuration /\ UniqueNames(backup)

\* The limits of the elements dealt with so far; the other modules have none,
\* because the reset loop saw their slots.
LimitInv ==
    /\ array_size >= ArrayStart /\ prepared >= ArrayStart
    /\ Loading =>
          /\ \A i \in DOMAIN config.modules :
                LET e == config.modules[i]
                IN  i < y => running_modules[e.name].max_restarts = e.max_restarts
          /\ \A m \in Modules : ~NamedBefore(m) => running_modules[m].max_restarts = -1

\* The service thread ends before the supervisor is over.
PhaseInv ==
    /\ pc = "ended" => phase \in {"joining", "over"}
    /\ phase = "over" => pc = "ended"

\* Once the service thread has left its loop the table and the process table
\* agree, ended processes that nobody has reaped included.
EndedInv ==
    pc = "ended" =>
        /\ \A p \in Pids : InUse(p) => SlotOf(p).module_pid = p
        /\ \A m \in Modules : Pid(m) \in Pids => Status(m) /\ InUse(Pid(m))
        /\ stop_all => \A p \in Pids : Alive(p) => proc[p].mod \in Privileged

\* The backup file exists from the end of one supervisor to the start of the
\* next, and is what the table was written to.
BackupInv ==
    /\ phase # "over" => backup = NoBackup
    /\ phase = "over" =>
          \/ backup = NoBackup /\ \A m \in Loaded : ~Status(m)
          \/ \E order \in Orders(Saved) : backup = generate_backup_config_file(order)

\* The loaded modules without a profile, which the backup file leaves out, are
\* those being removed; while a document is read, those it has not named yet.
ProfileInv ==
    IF Loading
    THEN /\ \A m \in Modules : ~running_modules[m].remove_module
         /\ \A m \in Loaded : running_modules[m].profile = NoProfile <=> ~NamedBefore(m)
    ELSE \A m \in Loaded :
            running_modules[m].profile = NoProfile <=> running_modules[m].remove_module

\* The process runs with the parameters of its slot, which has not been
\* changed since.
Good(p) == proc[p].args = SlotOf(p).module_params /\ SlotOf(p).module_running

\* Parameters differ only while the module is disabled for its restart, and
\* when it was switched on again before the process had ended.
Right(p) == Good(p) \/ ~SlotOf(p).module_enabled \/ proc[p].mod \in revived

\* What an element of the backup file says of the process it names.
Fits(e, p) ==
    proc[p].args = ElementParams(e) \/ ~e.module_enabled \/ e.name \in revived

\* During the first load a process is what its element says.
ParamInv ==
    /\ pc # "load" => \A p \in Pids : Alive(p) => Right(p)
    /\ pc = "load" => \A i \in DOMAIN config.modules :
          LET e == config.modules[i]
          IN  e.module_pid \in Pids /\ Alive(e.module_pid) =>
                 /\ Fits(e, e.module_pid)
                 /\ i < y => Right(e.module_pid)

-----------------------------------------------------------------------------
(* What the steps leave of a slot. *)

\* The fields that come from the configuration, and module_running.
KeepsSlot(r, s) ==
    /\ s.module_params = r.module_params
    /\ s.profile = r.profile
    /\ s.max_restarts = r.max_restarts
    /\ s.remove_module = r.remove_module
    /\ r.module_running => s.module_running

(***************************************************************************)
(* The operators of the service thread keep these fields; only the serving *)
(* loop enables a module, and only one without a process.                  *)
(***************************************************************************)
LEMMA RecordFacts ==
    ASSUME NEW r \in ModuleRecord
    PROVE  /\ \A m \in Modules : /\ KeepsSlot(r, Checked(r, m))
                                 /\ Checked(r, m).module_enabled = r.module_enabled
           /\ KeepsSlot(r, Ticked(r)) /\ Ticked(r).module_enabled = r.module_enabled
           /\ KeepsSlot(r, Served(r))
           /\ Served(r).module_enabled => r.module_enabled \/ ~r.module_status
           /\ \A child : /\ KeepsSlot(r, service_start_module(r, child))
                         /\ service_start_module(r, child).module_running
                         /\ service_start_module(r, child).module_enabled = r.module_enabled
<1>1. \A m \in Modules : /\ KeepsSlot(r, Checked(r, m))
                         /\ Checked(r, m).module_enabled = r.module_enabled
    BY DEF Checked, KeepsSlot, ModuleRecord
<1>2. KeepsSlot(r, Ticked(r)) /\ Ticked(r).module_enabled = r.module_enabled
    BY DEF Ticked, KeepsSlot, ModuleRecord
<1>3. /\ KeepsSlot(r, Served(r))
      /\ Served(r).module_enabled => r.module_enabled \/ ~r.module_status
    BY DEF Served, KeepsSlot, ModuleRecord
<1>4. ASSUME NEW child
      PROVE  /\ KeepsSlot(r, service_start_module(r, child))
             /\ service_start_module(r, child).module_running
             /\ service_start_module(r, child).module_enabled = r.module_enabled
    BY DEF service_start_module, init_module_variables, KeepsSlot, ModuleRecord
<1> QED BY <1>1, <1>2, <1>3, <1>4

\* The step keeps the slot of m; an enabled module was enabled, or is down.
Kept(m) ==
    /\ KeepsSlot(running_modules[m], running_modules'[m])
    /\ running_modules'[m].module_enabled =>
          running_modules[m].module_enabled \/ (pc = "serve" /\ ~Status(m))

\* The step frees the slot of m, which was marked.
Freed(m) ==
    /\ pc = "serve" /\ y \in DOMAIN slots /\ m = slots[y]
    /\ Removable(running_modules[m])
    /\ slots' = SubSeq(slots, 1, y - 1) \o SubSeq(slots, y + 1, Len(slots))
    /\ running_modules' = [running_modules EXCEPT ![m] = EmptySlot]

(***************************************************************************)
(* A step of the service thread keeps every slot that it does not free.    *)
(***************************************************************************)
LEMMA ServiceRecords ==
    ASSUME TypeOK, ServiceStep \/ service_check_modules_status
    PROVE  \/ slots' = slots /\ \A m \in Modules : Kept(m)
           \/ \E m \in Modules : Freed(m)
<1>1. \A m \in Modules : running_modules[m] \in ModuleRecord
    BY DEF TypeOK
<1>2. CASE service_check_modules_status
    BY <1>1, <1>2, RecordFacts DEF service_check_modules_status, tables, Kept
<1>3. CASE service_update_modules_status
  <2>1. PICK child :
          running_modules' = [m \in Modules |->
              LET r == Ticked(running_modules[m])
              IN  IF m \in ToStart THEN service_start_module(r, child[m])
                  ELSE IF m \in OutOfRestarts
                       THEN [r EXCEPT !.module_enabled = FALSE]
                  ELSE IF m \in Loaded THEN r
                  ELSE running_modules[m]]
      BY <1>3 DEF service_update_modules_status
  <2>2. ASSUME NEW m \in Modules PROVE Kept(m)
    <3> DEFINE r == Ticked(running_modules[m])
    <3>1. r \in ModuleRecord /\ KeepsSlot(running_modules[m], r)
          /\ r.module_enabled = running_modules[m].module_enabled
        BY <1>1, TickedFacts, RecordFacts
    <3>2. running_modules'[m] = IF m \in ToStart THEN service_start_module(r, child[m])
                                ELSE IF m \in OutOfRestarts
                                     THEN [r EXCEPT !.module_enabled = FALSE]
                                ELSE IF m \in Loaded THEN r
                                ELSE running_modules[m]
        BY <2>1
    <3> HIDE DEF r
    <3>3. /\ KeepsSlot(r, service_start_module(r, child[m]))
          /\ service_start_module(r, child[m]).module_enabled = r.module_enabled
        BY <3>1, RecordFacts
    <3>4. /\ KeepsSlot(r, [r EXCEPT !.module_enabled = FALSE])
          /\ ~[r EXCEPT !.module_enabled = FALSE].module_enabled
        BY <3>1 DEF KeepsSlot, ModuleRecord
    <3>5. KeepsSlot(r, r) /\ KeepsSlot(running_modules[m], running_modules[m])
        BY DEF KeepsSlot
    <3>6. /\ KeepsSlot(r, running_modules'[m]) \/ running_modules'[m] = running_modules[m]
          /\ running_modules'[m].module_enabled => running_modules[m].module_enabled
        BY <3>1, <3>2, <3>3, <3>4, <3>5
    <3>7. KeepsSlot(running_modules[m], running_modules'[m])
        BY <3>1, <3>5, <3>6 DEF KeepsSlot
    <3> QED BY <3>6, <3>7 DEF Kept
  <2>3. slots' = slots
      BY <1>3 DEF service_update_modules_status, tables
  <2> QED BY <2>2, <2>3
<1>4. CASE \/ service_stop_modules_sigint \/ service_stop_modules_sigkill
           \/ service_clean_after_children
  <2>1. slots' = slots
      BY <1>4 DEF service_stop_modules_sigint, service_stop_modules_sigkill,
         service_clean_after_children, tables
  <2>2. ASSUME NEW m \in Modules PROVE Kept(m)
    <3> DEFINE r == running_modules[m]
    <3>1. \/ running_modules'[m] = r
          \/ running_modules'[m] = [r EXCEPT !.sent_sigint = TRUE, !.restart_cnt = -1]
          \/ running_modules'[m] = [r EXCEPT !.restart_cnt = -1]
          \/ running_modules'[m] = [r EXCEPT !.module_is_my_child = FALSE]
        BY <1>4 DEF service_stop_modules_sigint, service_stop_modules_sigkill,
           service_clean_after_children, Update
    <3>2. r \in ModuleRecord
        BY <1>1
    <3> HIDE DEF r
    <3>3. KeepsSlot(r, running_modules'[m])
          /\ running_modules'[m].module_enabled = r.module_enabled
        BY <3>1, <3>2 DEF KeepsSlot, ModuleRecord
    <3> QED BY <3>3 DEF Kept, r
  <2> QED BY <2>1, <2>2
<1>5. CASE ServeModule
  <2>1. y \in DOMAIN slots /\ slots[y] \in Modules /\ pc = "serve"
      BY <1>5, LenProperties, ElementOfSeq DEF TypeOK, ServeModule
  <2>2. CASE Removable(running_modules[slots[y]])
    <3>1. Freed(slots[y])
        BY <1>5, <2>1, <2>2 DEF Freed, ServeModule, free_module_and_shift_array
    <3> QED BY <2>1, <3>1
  <2>3. CASE ~Removable(running_modules[slots[y]])
    <3>1. slots' = slots
        BY <1>5, <2>3 DEF ServeModule
    <3>2. ASSUME NEW m \in Modules PROVE Kept(m)
      <4>1. running_modules'[m] \in {running_modules[m], Served(running_modules[m])}
          BY <1>5, <2>3 DEF TypeOK, ServeModule
      <4>2. KeepsSlot(running_modules[m], running_modules[m])
          BY DEF KeepsSlot
      <4> QED BY <1>1, <2>1, <4>1, <4>2, RecordFacts DEF Kept, Status
    <3> QED BY <3>1, <3>2
  <2> QED BY <2>2, <2>3
<1>6. CASE ServeDone
    BY <1>6 DEF ServeDone, tables, Kept, KeepsSlot
<1> QED BY <1>2, <1>3, <1>4, <1>5, <1>6 DEF ServiceStep

-----------------------------------------------------------------------------
(* The types, the array and the backup file. *)

(***************************************************************************)
(* The array is finite, and as long as there are modules in it.            *)
(***************************************************************************)
LEMMA LoadedFinite ==
    ASSUME TypeOK
    PROVE  /\ IsFiniteSet(Loaded) /\ Cardinality(Loaded) \in Nat
           /\ DistinctInv => Cardinality(Loaded) = Len(slots)
<1>1. Len(slots) \in Nat /\ DOMAIN slots = 1..Len(slots) /\ slots \in [1..Len(slots) -> Modules]
    BY LenProperties DEF TypeOK
<1>2. IsFiniteSet(1..Len(slots)) /\ Cardinality(1..Len(slots)) = Len(slots)
    BY <1>1, FS_Interval
<1>3. slots \in Surjection(1..Len(slots), Loaded)
    BY <1>1 DEF Surjection, Loaded
<1>4. DistinctInv => slots \in Injection(1..Len(slots), Loaded)
  <2>1. slots \in [1..Len(slots) -> Loaded]
      BY <1>3 DEF Surjection
  <2> QED BY <1>1, <2>1 DEF Injection, IsInjective, DistinctInv
<1> QED BY <1>2, <1>3, <1>4, FS_Surjection, FS_CardinalityType

(***************************************************************************)
(* The backup file is a configuration that names every saved module once,  *)
(* with its identifier and what a load makes of its parameters.            *)
(***************************************************************************)
LEMMA SavedFacts ==
    ASSUME TypeOK, NEW order \in Orders(Saved)
    PROVE  LET b == generate_backup_config_file(order)
           IN  /\ b \in Configuration /\ UniqueNames(b)
               /\ DOMAIN b.modules = DOMAIN order
               /\ \A i \in DOMAIN order :
                     /\ order[i] \in Saved
                     /\ b.modules[i].name = order[i]
                     /\ b.modules[i].module_pid = Pid(order[i])
                     /\ b.modules[i].module_enabled
                           = running_modules[order[i]].module_enabled
                     /\ ElementParams(b.modules[i])
                           = running_modules[order[i]].module_params
               /\ \A m \in Saved : \E i \in DOMAIN order : order[i] = m
<1> DEFINE n == Cardinality(Saved)
           el(i) == SavedElement(order[i])
           ms == [i \in DOMAIN order |-> el(i)]
           b == generate_backup_config_file(order)
<1>1. Saved \subseteq Loaded /\ Saved \subseteq Modules
    BY LoadedModules DEF Saved
<1>2. n \in Nat
    BY <1>1, LoadedFinite, FS_Subset, FS_CardinalityType
<1>3. order \in [1..n -> Saved] /\ DOMAIN order = 1..n
    BY DEF Orders
<1>4. \A m \in Saved : \E i \in DOMAIN order : \A j \in DOMAIN order :
         order[j] = m <=> j = i
    BY DEF Orders
<1> HIDE DEF n
<1>5. ASSUME NEW i \in DOMAIN order
      PROVE  /\ order[i] \in Saved /\ el(i) \in ModuleElement
             /\ el(i).name = order[i] /\ el(i).module_pid = Pid(order[i])
             /\ el(i).module_enabled = running_modules[order[i]].module_enabled
             /\ ElementParams(el(i)) = running_modules[order[i]].module_params
  <2>1. order[i] \in Saved /\ order[i] \in Modules
      BY <1>1, <1>3
  <2>2. /\ running_modules[order[i]] \in ModuleRecord
        /\ running_modules[order[i]].profile # NoProfile
      BY <2>1 DEF TypeOK, Saved
  <2> QED BY <2>1, <2>2, SupervisorAssumption
          DEF SavedElement, ModuleElement, ModuleRecord, ElementParams, Pid
<1>6. /\ b.modules = ms /\ b.profiles = profile_enabled /\ b.restarts = -1
      /\ b = [modules |-> ms, profiles |-> profile_enabled, restarts |-> -1]
    BY DEF generate_backup_config_file
<1> HIDE DEF el
<1>7. ms \in Seq(ModuleElement)
  <2>1. ms \in [1..n -> ModuleElement]
      BY <1>3, <1>5
  <2> QED BY <1>2, <2>1, IsASeq
<1>8. DOMAIN ms = DOMAIN order /\ \A i \in DOMAIN order : ms[i] = el(i)
    OBVIOUS
<1> HIDE DEF ms
<1>9. b \in Configuration
    BY <1>6, <1>7 DEF TypeOK, Configuration
<1>10. UniqueNames(b)
    BY <1>4, <1>5, <1>6, <1>8 DEF UniqueNames
<1>11. \A m \in Saved : \E i \in DOMAIN order : order[i] = m
    BY <1>4
<1> HIDE DEF b
<1>12. /\ DOMAIN b.modules = DOMAIN order
       /\ \A i \in DOMAIN order : b.modules[i] = el(i)
    BY <1>6, <1>8
<1>13. \A i \in DOMAIN order :
          /\ order[i] \in Saved
          /\ b.modules[i].name = order[i]
          /\ b.modules[i].module_pid = Pid(order[i])
          /\ b.modules[i].module_enabled = running_modules[order[i]].module_enabled
          /\ ElementParams(b.modules[i]) = running_modules[order[i]].module_params
    BY <1>5, <1>12
<1> QED BY <1>9, <1>10, <1>11, <1>12, <1>13 DEF b

\* A step of Supervisor.
Ordinary == Next /\ UNCHANGED termvars

\* The end of a process that no supervisor knows of.
Unseen == (\E p \in Pids : LostExits(p)) /\ UNCHANGED termvars

(***************************************************************************)
(* A step is one of Supervisor's, or one of the termination's own.         *)
(***************************************************************************)
LEMMA StepKinds ==
    ASSUME [ShutdownNext]_allvars
    PROVE  \/ Ordinary \/ Unseen
           \/ CheckAndLeave \/ interactive_stop_configuration
           \/ Finish \/ NextSupervisor \/ Sigterm \/ Leave
           \/ UNCHANGED allvars
BY DEF ShutdownNext, ShutdownStep, Ordered, Unordered, ServiceThread, ClientCommand,
   Ordinary, Unseen, Next

(***************************************************************************)
(* Supervisor's steps load configurations the operator has, and drop them  *)
(* when they are loaded.                                                   *)
(***************************************************************************)
LEMMA ConfigStep ==
    ASSUME Next
    PROVE  \/ config' = config
           \/ config' = NoDocument
           \/ \E c \in Configs : ReloadBegin(c)
<1>1. CASE ServiceStep
    BY <1>1 DEF ServiceStep, ServeDone, ServeModule, service_check_modules_status,
       service_update_modules_status, service_stop_modules_sigint,
       service_stop_modules_sigkill, service_clean_after_children, tables
<1>2. CASE Command
    BY <1>2 DEF Command, interactive_set_enabled, interactive_set_disabled,
       interactive_restart_module, SetProfile, tables
<1>3. CASE Reload
    BY <1>3 DEF Reload, ReloadModule, ReloadEnd, tables
<1>4. CASE \E p \in Pids : Exit(p)
    BY <1>4 DEF Exit, tables
<1> QED BY <1>1, <1>2, <1>3, <1>4 DEF Next

(***************************************************************************)
(* A process that nobody knows of takes nothing with it.                   *)
(***************************************************************************)
LEMMA UnseenFacts ==
    ASSUME TypeOK, Unseen
    PROVE  /\ TypeOK'
           /\ UNCHANGED <<pc, y, slots, array_size, prepared, running_modules,
                          profile_enabled, restarts_config, config>>
           /\ UNCHANGED <<phase, stop_all, backup>>
           /\ \A p \in Pids : \/ proc'[p] = proc[p]
                              \/ proc[p].state = "lost" /\ proc'[p].state = "free"
<1>1. PICK p \in Pids : LostExits(p)
    BY DEF Unseen
<1>2. \A q \in Pids : proc'[q] = IF q = p THEN FreeProcess ELSE proc[q]
    BY <1>1 DEF LostExits, TypeOK
<1>3. proc[p].state = "lost" /\ proc' \in [Pids -> Process]
    BY <1>1, ProcessFacts DEF LostExits, TypeOK
<1>4. /\ UNCHANGED <<pc, y, slots, array_size, prepared, running_modules,
                      profile_enabled, restarts_config, config>>
      /\ UNCHANGED <<phase, stop_all, backup>>
    BY <1>1 DEF LostExits, tables, Unseen, termvars
<1>5. TypeOK'
    BY <1>3, <1>4 DEF TypeOK
<1> QED BY <1>2, <1>3, <1>4, <1>5, ProcessFacts

\* The document that the next supervisor loads names the process.
Known(p) == \E i \in DOMAIN config'.modules : config'.modules[i].module_pid = p

(***************************************************************************)
(* A process that the next supervisor finds is the same as before, but not *)
(* its child; the others are lost.                                         *)
(***************************************************************************)
LEMMA OrphanFacts ==
    ASSUME TypeOK, NextSupervisor, NEW p \in Pids
    PROVE  /\ proc'[p] \in Process
           /\ InUse(p)' <=> InUse(p) /\ Known(p)
           /\ proc'[p].state = "alive" <=> proc[p].state = "alive" /\ Known(p)
           /\ InUse(p)' => proc'[p].mod = proc[p].mod
           /\ proc'[p].state = "alive" =>
                 /\ proc'[p].args = proc[p].args
                 /\ proc'[p].asked = proc[p].asked /\ proc'[p].forced = proc[p].forced
<1> DEFINE q == proc[p]
           o == [q EXCEPT !.child = FALSE]
           l == [FreeProcess EXCEPT !.state = "lost"]
<1>1. q \in Process /\ q.state \in {"free", "alive", "zombie", "gone", "lost"}
    BY DEF TypeOK, Process
<1>2. proc'[p] = IF q.state \in {"free", "lost"} THEN q
                 ELSE IF Known(p) THEN IF q.state = "alive" THEN o ELSE Ended(o)
                 ELSE IF q.state = "alive" THEN l ELSE FreeProcess
    BY DEF NextSupervisor, Orphaned, Known, Alive
<1> HIDE DEF q
<1>3. /\ o \in Process /\ o.state = q.state /\ o.mod = q.mod /\ o.args = q.args
      /\ o.asked = q.asked /\ o.forced = q.forced
    BY <1>1 DEF Process
<1>4. FreeProcess \in Process /\ FreeProcess.state = "free"
    BY ProcessFacts
<1>5. l \in Process /\ l.state = "lost"
    BY <1>4 DEF Process
<1> HIDE DEF o, l
<1>6. Ended(o) \in Process /\ Ended(o).state \in {"zombie", "gone"} /\ Ended(o).mod = q.mod
    BY <1>3, ProcessFacts
<1>7. InUse(p) <=> q.state \notin {"free", "lost"}
    BY DEF InUse, q
<1>8. InUse(p)' <=> proc'[p].state \notin {"free", "lost"}
    BY DEF InUse
<1>9. CASE q.state \in {"free", "lost"}
    BY <1>1, <1>2, <1>7, <1>8, <1>9 DEF q
<1>10. CASE q.state = "alive"
    BY <1>1, <1>2, <1>3, <1>5, <1>7, <1>8, <1>10 DEF q
<1>11. CASE q.state \in {"zombie", "gone"}
    BY <1>1, <1>2, <1>4, <1>6, <1>7, <1>8, <1>11 DEF q
<1> QED BY <1>1, <1>9, <1>10, <1>11

(***************************************************************************)
(* A supervisor that has just started with a configuration.                *)
(***************************************************************************)
LEMMA StartedType ==
    config \in Configuration /\ StartsWith(config) /\ proc \in [Pids -> Process] => TypeOK
BY StartType

(***************************************************************************)
(* The next supervisor starts with the backup, or with a configuration.    *)
(***************************************************************************)
LEMMA NextStart ==
    ASSUME BaseInv, NextSupervisor
    PROVE  /\ config' \in Configuration /\ UniqueNames(config')
           /\ config' = backup \/ (backup = NoBackup /\ config' \in Configs)
           /\ StartsWith(config)'
           /\ proc' \in [Pids -> Process]
           /\ TypeOK' /\ DistinctInv'
<1>1. /\ config' \in Configuration /\ UniqueNames(config')
      /\ config' = backup \/ (backup = NoBackup /\ config' \in Configs)
    BY ConfigsAssumption DEF NextSupervisor, BaseInv
<1>2. StartsWith(config)'
    BY DEF NextSupervisor, StartsWith
<1>3. proc' \in [Pids -> Process]
    BY OrphanFacts DEF NextSupervisor, BaseInv, TypeOK
<1>4. TypeOK'
  <2>1. (config \in Configuration)' /\ (proc \in [Pids -> Process])'
      BY <1>1, <1>3
  <2> QED BY <1>2, <2>1, StartedType, PTL
<1>5. DistinctInv'
    BY DEF NextSupervisor, DistinctInv
<1> QED BY <1>1, <1>2, <1>3, <1>4, <1>5

(***************************************************************************)
(* Every step keeps the types, the array and the names apart.              *)
(***************************************************************************)
LEMMA BaseNext == BaseInv /\ [ShutdownNext]_allvars => BaseInv'
<1> SUFFICES ASSUME BaseInv, [ShutdownNext]_allvars PROVE BaseInv'
    OBVIOUS
<1>1. CASE Ordinary
  <2>1. TypeOK' /\ DistinctInv'
      BY <1>1, NextType, DistinctStep DEF BaseInv, Ordinary
  <2>2. UniqueNames(config)'
    <3>1. config' = config \/ config' = NoDocument \/ config' \in Configs
        BY <1>1, ConfigStep DEF Ordinary, ReloadBegin
    <3>2. UniqueNames(NoDocument)
        BY NoDocumentFacts DEF UniqueNames
    <3>3. UniqueNames(config')
        BY <3>1, <3>2, ConfigsAssumption DEF BaseInv
    <3> QED BY <3>3 DEF UniqueNames
  <2> QED BY <1>1, <2>1, <2>2 DEF BaseInv, Ordinary, termvars, UniqueNames
<1>2. CASE CheckAndLeave
  <2>1. TypeOK'
      BY <1>2, CheckType DEF BaseInv, CheckAndLeave, Places
  <2> QED BY <1>2, <2>1 DEF BaseInv, CheckAndLeave, service_check_modules_status,
          tables, termvars, DistinctInv, UniqueNames
<1>3. CASE interactive_stop_configuration
  <2>1. running_modules' \in [Modules -> ModuleRecord]
      BY <1>3, FieldFacts DEF BaseInv, TypeOK, interactive_stop_configuration, Update
  <2> QED BY <1>3, <2>1 DEF BaseInv, interactive_stop_configuration, tables, TypeOK,
          DistinctInv, UniqueNames
<1>4. CASE Finish
  <2>1. UNCHANGED vars /\ phase' = "over" /\ UNCHANGED stop_all
      BY <1>4 DEF Finish
  <2>2. TypeOK' /\ DistinctInv' /\ UniqueNames(config)'
      BY <2>1 DEF BaseInv, vars, TypeOK, DistinctInv, UniqueNames
  <2>3. ASSUME backup' # NoBackup
        PROVE  backup' \in Configuration /\ UniqueNames(backup')
    <3>1. CASE UNCHANGED backup
        BY <2>3, <3>1 DEF BaseInv
    <3>2. ASSUME NEW order \in Orders(Saved), backup' = generate_backup_config_file(order)
          PROVE  backup' \in Configuration /\ UniqueNames(backup')
        BY <3>2, SavedFacts DEF BaseInv
    <3> QED BY <1>4, <3>1, <3>2 DEF Finish
  <2>4. (backup # NoBackup => backup \in Configuration /\ UniqueNames(backup))'
      BY <2>3 DEF UniqueNames
  <2> QED BY <2>1, <2>2, <2>4 DEF BaseInv
<1>5. CASE NextSupervisor
  <2>1. TypeOK' /\ DistinctInv' /\ UniqueNames(config)'
      BY <1>5, NextStart DEF UniqueNames
  <2> QED BY <1>5, <2>1 DEF BaseInv, NextSupervisor
<1>6. CASE Sigterm \/ Leave \/ UNCHANGED allvars
  <2>1. UNCHANGED <<vars, backup>>
      BY <1>6 DEF Sigterm, Leave, allvars, termvars
  <2>2. /\ phase' \in {"up", "stopping", "joining", "over"}
        /\ stop_all' \in BOOLEAN
      BY <1>6 DEF BaseInv, Sigterm, Leave, allvars, termvars
  <2> QED BY <2>1, <2>2 DEF BaseInv, vars, TypeOK, DistinctInv, UniqueNames
<1>7. CASE Unseen
  <2>1. TypeOK' /\ UNCHANGED <<slots, config, phase, stop_all, backup>>
      BY <1>7, UnseenFacts DEF BaseInv
  <2> QED BY <2>1 DEF BaseInv, DistinctInv, UniqueNames
<1> QED BY <1>1, <1>2, <1>3, <1>4, <1>5, <1>6, <1>7, StepKinds

(***************************************************************************)
(* And so they are at the first start.                                     *)
(***************************************************************************)
LEMMA BaseInit == ShutdownInit => BaseInv
<1> SUFFICES ASSUME ShutdownInit PROVE BaseInv
    OBVIOUS
<1>1. TypeOK
    BY InitType DEF ShutdownInit
<1>2. DistinctInv
  <2>1. slots = <<>>
      BY DEF ShutdownInit, Init, StartsWith
  <2> QED BY <2>1 DEF DistinctInv
<1>3. UniqueNames(config)
    BY BackupFacts, ConfigsAssumption DEF ShutdownInit, Init, StartsWith
<1> QED BY <1>1, <1>2, <1>3 DEF BaseInv, ShutdownInit

-----------------------------------------------------------------------------
(* What the other steps do to the slots. *)

(***************************************************************************)
(* The service thread does not touch the configuration.                    *)
(***************************************************************************)
LEMMA ServiceFrame ==
    ASSUME ServiceStep
    PROVE  /\ ~Loading /\ ~Loading' /\ pc # "ended" /\ pc' # "ended"
           /\ UNCHANGED <<array_size, prepared, profile_enabled, restarts_config, config>>
BY DEF ServiceStep, Go, ServeDone, ServeModule, service_check_modules_status,
   service_update_modules_status, service_stop_modules_sigint,
   service_stop_modules_sigkill, service_clean_after_children, tables, Loading

(***************************************************************************)
(* A command switches modules on and off, or begins a reload.              *)
(***************************************************************************)
LEMMA CommandRecords ==
    ASSUME TypeOK, Command
    PROVE  \/ \E c \in Configs : ReloadBegin(c)
           \/ /\ pc = "idle"
              /\ UNCHANGED <<pc, y, slots, array_size, prepared, config, proc>>
              /\ \A m \in Modules :
                    /\ KeepsSlot(running_modules[m], running_modules'[m])
                    /\ running_modules'[m].module_pid = Pid(m)
                    /\ running_modules'[m].module_status = Status(m)
                    /\ running_modules'[m].served => running_modules[m].served
                    /\ running_modules'[m].module_enabled =>
                          running_modules[m].module_enabled \/ m \in Loaded
<1>1. \A m \in Modules : running_modules[m] \in ModuleRecord
    BY DEF TypeOK
<1>2. ASSUME NEW n \in Modules,
             \/ interactive_set_enabled(n)
             \/ interactive_set_disabled(n)
             \/ interactive_restart_module(n),
             NEW m \in Modules
      PROVE  /\ KeepsSlot(running_modules[m], running_modules'[m])
             /\ running_modules'[m].module_pid = Pid(m)
             /\ running_modules'[m].module_status = Status(m)
             /\ running_modules'[m].served => running_modules[m].served
             /\ running_modules'[m].module_enabled =>
                   running_modules[m].module_enabled \/ m \in Loaded
  <2> DEFINE r == running_modules[m]
  <2>1. \/ running_modules'[m] = r
        \/ m \in Loaded
           /\ running_modules'[m] = [r EXCEPT !.module_enabled = TRUE, !.restart_cnt = -1]
        \/ running_modules'[m] = [r EXCEPT !.module_enabled = FALSE]
        \/ running_modules'[m] = [r EXCEPT !.served = FALSE, !.module_enabled = FALSE,
                                           !.init_module = TRUE]
      BY <1>2 DEF interactive_set_enabled, interactive_set_disabled,
         interactive_restart_module, Update
  <2>2. r \in ModuleRecord
      BY <1>1
  <2> HIDE DEF r
  <2>3. /\ KeepsSlot(r, running_modules'[m])
        /\ running_modules'[m].module_pid = r.module_pid
        /\ running_modules'[m].module_status = r.module_status
        /\ running_modules'[m].served => r.served
        /\ running_modules'[m].module_enabled => r.module_enabled \/ m \in Loaded
      BY <2>1, <2>2 DEF KeepsSlot, ModuleRecord
  <2> QED BY <2>3 DEF r, Pid, Status
<1>3. CASE \E n \in Modules : \/ interactive_set_enabled(n)
                              \/ interactive_set_disabled(n)
                              \/ interactive_restart_module(n)
  <2>1. /\ pc = "idle"
        /\ UNCHANGED <<pc, y, slots, array_size, prepared, config, proc>>
      BY <1>3 DEF interactive_set_enabled, interactive_set_disabled,
         interactive_restart_module, MayCommand, tables
  <2> QED BY <1>2, <1>3, <2>1
<1>4. CASE \E f \in Profiles : SetProfile(f)
  <2>1. /\ pc = "idle"
        /\ UNCHANGED <<pc, y, slots, array_size, prepared, config, proc, running_modules>>
      BY <1>4 DEF SetProfile, MayCommand
  <2> QED BY <2>1 DEF KeepsSlot, Pid, Status
<1> QED BY <1>3, <1>4 DEF Command

(***************************************************************************)
(* What the reset loop of a reload leaves of a slot.                       *)
(***************************************************************************)
LEMMA ResetRecords ==
    ASSUME NEW r \in ModuleRecord
    PROVE  /\ Reset(r).max_restarts = -1 /\ ~Reset(r).remove_module
           /\ Reset(r).profile = NoProfile
           /\ Reset(r).module_params = r.module_params
           /\ Reset(r).module_running = r.module_running
           /\ Reset(r).module_enabled = r.module_enabled
BY DEF Reset, ModuleRecord

(***************************************************************************)
(* New slots have no limit, unless the array has grown.                    *)
(***************************************************************************)
LEMMA SlotRecords ==
    /\ EmptySlot.max_restarts = -1
    /\ EmptySlot.remove_module = FALSE /\ GrownSlot.remove_module = FALSE
    /\ EmptySlot.module_params = NoParams /\ GrownSlot.module_params = NoParams
BY DEF EmptySlot, GrownSlot

\* The element changes the parameters of a module that is in the table.
Modified == ~Fresh /\ MergedParams(Before, Element) # Before.module_params

(***************************************************************************)
(* What one step of a reload makes of the slot.                            *)
(***************************************************************************)
LEMMA AfterFacts ==
    ASSUME TypeOK, ReloadModule
    PROVE  /\ After.max_restarts = IF Element.max_restarts = -1 THEN Before.max_restarts
                                                                ELSE Element.max_restarts
           /\ After.remove_module = Before.remove_module
           /\ After.profile = Element.profile
           /\ After.module_params = MergedParams(Before, Element)
           /\ Fresh => After.module_enabled = Element.module_enabled
           /\ BackupPid(Element) \in Pids => After.module_running
           /\ Before.module_running =>
                 IF Modified THEN ~After.module_enabled ELSE After.module_running
<1> DEFINE r == Merged(Before, Element, Fresh)
<1>1. Before \in ModuleRecord /\ Element \in ModuleElement /\ Fresh \in BOOLEAN
    BY ReloadFacts DEF Fresh
<1>2. r \in ModuleRecord
    BY <1>1, MergedFacts
<1>3. /\ r.max_restarts = IF Element.max_restarts = -1 THEN Before.max_restarts
                                                       ELSE Element.max_restarts
      /\ r.remove_module = Before.remove_module
      /\ r.profile = Element.profile
      /\ r.module_params = MergedParams(Before, Element)
      /\ Before.module_running => IF Modified THEN ~r.module_enabled ELSE r.module_running
    BY <1>1 DEF Merged, Modified, ModuleRecord
<1>4. ASSUME Fresh PROVE r.module_enabled = Element.module_enabled
  <2>1. r.module_enabled = (Element.module_enabled /\ TRUE)
      BY <1>1, <1>4 DEF Merged, ModuleRecord
  <2>2. Element.module_enabled \in BOOLEAN
      BY <1>1 DEF ModuleElement
  <2> QED BY <2>1, <2>2
<1>5. After = Adopted(r, BackupPid(Element))
    BY DEF After
<1> HIDE DEF r
<1>6. /\ After.max_restarts = r.max_restarts /\ After.remove_module = r.remove_module
      /\ After.profile = r.profile /\ After.module_params = r.module_params
      /\ After.module_enabled = r.module_enabled
      /\ r.module_running => After.module_running
      /\ BackupPid(Element) \in Pids => After.module_running
    BY <1>2, <1>5 DEF Adopted, init_module_variables, ModuleRecord
<1> QED BY <1>3, <1>4, <1>6

(***************************************************************************)
(* The names of the elements are module names.                             *)
(***************************************************************************)
LEMMA ElementFacts ==
    ASSUME TypeOK
    PROVE  /\ Len(config.modules) \in Nat
           /\ DOMAIN config.modules = 1..Len(config.modules)
           /\ \A i \in DOMAIN config.modules :
                 /\ config.modules[i] \in ModuleElement
                 /\ config.modules[i].name \in Modules
<1>1. config.modules \in Seq(ModuleElement)
    BY DEF TypeOK, Configuration
<1>2. \A i \in DOMAIN config.modules : config.modules[i] \in ModuleElement
    BY <1>1, LenProperties, ElementOfSeq
<1> QED BY <1>1, <1>2, LenProperties DEF ModuleElement

(***************************************************************************)
(* One more element has been dealt with after a step of a reload.          *)
(***************************************************************************)
LEMMA NamedStep ==
    ASSUME TypeOK, ReloadModule, NEW m
    PROVE  NamedBefore(m)' <=> NamedBefore(m) \/ m = Element.name
<1>1. y \in DOMAIN config.modules /\ y' = y + 1 /\ config' = config /\ y \in Nat
    BY ReloadFacts DEF ReloadModule, TypeOK
<1>2. \A i \in DOMAIN config.modules : i < y + 1 <=> i < y \/ i = y
    BY <1>1, ElementFacts
<1> QED BY <1>1, <1>2 DEF NamedBefore, Element

-----------------------------------------------------------------------------
(* The restart limits. *)

\* The table never has to grow.
TableFits == IsFiniteSet(Modules) /\ Cardinality(Modules) <= ArrayStart

(***************************************************************************)
(* Then a slot that is handed to a new module was seen by the reset loop.  *)
(***************************************************************************)
LEMMA SlotPrepared ==
    ASSUME TableFits, BaseInv, LimitInv, ReloadModule, Fresh
    PROVE  Before = EmptySlot
<1>1. /\ IsFiniteSet(Loaded) /\ Cardinality(Loaded) \in Nat
      /\ Cardinality(Loaded) = Len(slots)
    BY LoadedFinite DEF BaseInv
<1>2. Element.name \in Modules /\ Element.name \notin Loaded
    BY ReloadFacts DEF BaseInv, Fresh
<1>3. Loaded \cup {Element.name} \in SUBSET Modules
    BY <1>2, LoadedModules DEF BaseInv
<1>4. Cardinality(Loaded \cup {Element.name}) = Len(slots) + 1
    BY <1>1, <1>2, FS_AddElement
<1>5. Cardinality(Modules) \in Nat /\ Cardinality(Modules) <= ArrayStart
    BY FS_CardinalityType DEF TableFits
<1>6. Len(slots) + 1 <= Cardinality(Modules)
    BY <1>3, <1>4, FS_Subset DEF TableFits
<1>7. ~(Len(slots) >= prepared)
    BY <1>1, <1>5, <1>6, SupervisorAssumption DEF BaseInv, TypeOK, LimitInv
<1> QED BY <1>7 DEF Before

(***************************************************************************)
(* Outside of a reload the array must not shrink; nothing else is said.    *)
(***************************************************************************)
LEMMA LimitKept ==
    ASSUME LimitInv, ~Loading', UNCHANGED <<array_size, prepared>>
    PROVE  LimitInv'
BY DEF LimitInv

(***************************************************************************)
(* One element: its module had no limit before.                            *)
(***************************************************************************)
LEMMA LimitReload ==
    ASSUME TableFits, BaseInv, LimitInv, ReloadModule
    PROVE  LimitInv'
<1> DEFINE m == Element.name
<1>1. /\ TypeOK /\ Loading /\ Loading' /\ UNCHANGED <<config, prepared>>
      /\ y' = y + 1 /\ y \in Nat
    BY DEF BaseInv, TypeOK, ReloadModule, Loading
<1>2. /\ y \in DOMAIN config.modules /\ Element = config.modules[y] /\ m \in Modules
      /\ running_modules' = [running_modules EXCEPT ![m] = After]
    BY <1>1, ReloadFacts DEF Element
<1>3. /\ Len(config.modules) \in Nat /\ DOMAIN config.modules = 1..Len(config.modules)
      /\ \A i \in DOMAIN config.modules : config.modules[i].name \in Modules
    BY <1>1, ElementFacts
<1>4. \A i \in DOMAIN config.modules : config.modules[i].name = m => i = y
    BY <1>2 DEF BaseInv, UniqueNames
<1>5. ~NamedBefore(m)
    BY <1>1, <1>4 DEF NamedBefore
<1>6. Before.max_restarts = -1
  <2>1. CASE Fresh
      BY <2>1, SlotPrepared, SlotRecords
  <2>2. CASE ~Fresh
    <3>1. Before = running_modules[m]
        BY <2>2 DEF Before
    <3> QED BY <1>1, <1>2, <1>5, <3>1 DEF LimitInv
  <2> QED BY <2>1, <2>2
<1>7. After.max_restarts = Element.max_restarts
    BY <1>1, <1>6, AfterFacts
<1> HIDE DEF m
<1>8. \A n \in Modules : running_modules'[n] = IF n = m THEN After ELSE running_modules[n]
    BY <1>1, <1>2 DEF TypeOK
<1>9. array_size' >= ArrayStart /\ prepared' >= ArrayStart
  <2>1. array_size \in Nat /\ array_size >= ArrayStart /\ ArrayStart \in Nat
      BY <1>1, SupervisorAssumption DEF TypeOK, LimitInv
  <2>2. array_size' = array_size \/ array_size' = array_size + array_size \div 2
      BY DEF ReloadModule, check_running_modules_allocated_memory
  <2>3. array_size \div 2 \in Nat
      BY <2>1
  <2> QED BY <1>1, <2>1, <2>2, <2>3 DEF LimitInv
<1>10. ASSUME NEW i \in DOMAIN config.modules, i < y + 1
       PROVE  LET e == config.modules[i]
              IN  running_modules'[e.name].max_restarts = e.max_restarts
  <2>1. CASE i = y
      BY <1>2, <1>7, <1>8, <2>1 DEF m
  <2>2. CASE i < y
    <3>1. config.modules[i].name # m
        BY <1>1, <1>4, <2>2
    <3> QED BY <1>1, <1>3, <1>8, <2>2, <3>1 DEF LimitInv
  <2> QED BY <1>1, <1>3, <1>10, <2>1, <2>2
<1>11. ASSUME NEW n \in Modules
       PROVE  ~NamedBefore(n)' => running_modules'[n].max_restarts = -1
    BY <1>1, <1>7, <1>8, NamedStep DEF LimitInv, m
<1> QED BY <1>1, <1>9, <1>10, <1>11 DEF LimitInv

(***************************************************************************)
(* Every step keeps the limits.                                            *)
(***************************************************************************)
LEMMA LimitNext ==
    TableFits => (BaseInv /\ LimitInv /\ [ShutdownNext]_allvars => LimitInv')
<1> SUFFICES ASSUME TableFits, BaseInv, LimitInv, [ShutdownNext]_allvars PROVE LimitInv'
    OBVIOUS
<1>1. TypeOK /\ \A m \in Modules : running_modules[m] \in ModuleRecord
    BY DEF BaseInv, TypeOK
<1>2. CASE ServiceStep \/ CheckAndLeave
  <2>1. ~Loading' /\ UNCHANGED <<array_size, prepared>>
      BY <1>2, ServiceFrame
         DEF CheckAndLeave, service_check_modules_status, tables, Loading
  <2> QED BY <2>1, LimitKept
<1>3. ASSUME NEW c \in Configs, ReloadBegin(c)
      PROVE  LimitInv'
  <2>1. /\ y' = 1 /\ config' = c /\ prepared' = array_size
        /\ array_size' = array_size
        /\ \A m \in Modules : running_modules'[m] = Reset(running_modules[m])
      BY <1>3 DEF ReloadBegin, Loading
  <2>2. \A m \in Modules : running_modules'[m].max_restarts = -1
      BY <1>1, <2>1, ResetRecords
  <2>3. TypeOK'
      BY <1>1, <1>3, CommandType DEF Command
  <2>4. DOMAIN config.modules' = 1..Len(config'.modules) /\ Len(config'.modules) \in Nat
      BY <2>3, LenProperties DEF TypeOK, Configuration
  <2>5. \A i \in DOMAIN config'.modules : ~(i < y')
      BY <2>1, <2>4
  <2> QED BY <2>1, <2>2, <2>5 DEF LimitInv
<1>4. CASE Command
  <2>1. CASE pc = "idle" /\ UNCHANGED <<pc, array_size, prepared>>
      BY <2>1, LimitKept DEF Loading
  <2> QED BY <1>1, <1>3, <1>4, <2>1, CommandRecords
<1>5. CASE Reload
  <2>1. ReloadEnd => ~Loading' /\ UNCHANGED <<array_size, prepared>>
      BY DEF ReloadEnd, Loading
  <2> QED BY <1>5, <2>1, LimitReload, LimitKept DEF Reload
<1>6. CASE UNCHANGED <<pc, y, array_size, prepared, running_modules, config>>
    BY <1>6 DEF LimitInv, Loading, NamedBefore
<1>7. CASE interactive_stop_configuration
  <2>1. ~Loading' /\ UNCHANGED <<array_size, prepared>>
      BY <1>7 DEF interactive_stop_configuration, Loading, tables
  <2> QED BY <2>1, LimitKept
<1>8. CASE NextSupervisor
  <2>1. /\ y' = 1 /\ array_size' = ArrayStart /\ prepared' = ArrayStart
        /\ \A m \in Modules : running_modules'[m] = EmptySlot
        /\ config' \in Configuration
      BY <1>8, NextStart DEF NextSupervisor
  <2>2. Len(config'.modules) \in Nat /\ DOMAIN config'.modules = 1..Len(config'.modules)
      BY <2>1, LenProperties DEF Configuration
  <2>3. \A i \in DOMAIN config'.modules : ~(i < y')
      BY <2>1, <2>2
  <2>4. Loading'
      BY <1>8 DEF NextSupervisor, Loading
  <2> QED BY <2>1, <2>3, <2>4, SlotRecords, SupervisorAssumption DEF LimitInv
<1>9. CASE (\E p \in Pids : Exit(p)) \/ Finish \/ Sigterm \/ Leave \/ UNCHANGED allvars
    BY <1>6, <1>9 DEF Exit, Finish, Sigterm, Leave, allvars, vars, tables
<1>10. CASE Unseen
    BY <1>1, <1>6, <1>10, UnseenFacts
<1> QED BY <1>2, <1>4, <1>5, <1>7, <1>8, <1>9, <1>10, StepKinds DEF Ordinary, Next

(***************************************************************************)
(* The first supervisor starts with an empty table.                        *)
(***************************************************************************)
LEMMA LimitInit == ShutdownInit => LimitInv
<1> SUFFICES ASSUME ShutdownInit PROVE LimitInv
    OBVIOUS
<1>1. BaseInv
    BY BaseInit
<1>2. /\ y = 1 /\ array_size = ArrayStart /\ prepared = ArrayStart /\ pc = "load"
      /\ \A m \in Modules : running_modules[m] = EmptySlot
    BY DEF ShutdownInit, Init, StartsWith
<1>3. \A i \in DOMAIN config.modules : ~(i < y)
    BY <1>1, <1>2, ElementFacts DEF BaseInv
<1> QED BY <1>2, <1>3, SlotRecords, SupervisorAssumption DEF LimitInv, Loading

(***************************************************************************)
(* As long as the table does not have to grow, every module has the limit  *)
(* of its element after every reload, also after the next start from a     *)
(* backup file and in the array of a supervisor that freed slots.  (When   *)
(* the table grows, a module gets the limit 0: run array_growth.)          *)
(***************************************************************************)
THEOREM LimitsHold == TableFits => (ShutdownSpec => []LimitsAsConfigured)
<1> SUFFICES ASSUME TableFits PROVE ShutdownSpec => []LimitsAsConfigured
    OBVIOUS
<1>1. BaseInv /\ LimitInv => LimitsAsConfigured
  <2> SUFFICES ASSUME BaseInv, LimitInv, Loading, y > Len(config.modules),
                      NEW i \in DOMAIN config.modules
               PROVE  LET e == config.modules[i]
                      IN  running_modules[e.name].max_restarts = e.max_restarts
      BY DEF LimitsAsConfigured, Loading
  <2>1. i < y
      BY ElementFacts DEF BaseInv, TypeOK
  <2> QED BY <2>1 DEF LimitInv
<1>2. ShutdownInit => BaseInv /\ LimitInv
    BY BaseInit, LimitInit
<1>3. BaseInv /\ LimitInv /\ [ShutdownNext]_allvars => BaseInv' /\ LimitInv'
    BY BaseNext, LimitNext
<1> QED BY <1>1, <1>2, <1>3, PTL DEF ShutdownSpec

-----------------------------------------------------------------------------
(* Termination, whatever is under way when the signal comes.               *)

\* The inductive invariant of termination.
TermInv ==
    /\ IInv /\ BaseInv /\ PhaseInv /\ EndedInv /\ BackupInv /\ ProfileInv
    /\ ParamInv

(***************************************************************************)
(* When the service thread has ended nobody takes the lock: only processes *)
(* end.                                                                    *)
(***************************************************************************)
LEMMA AfterEnd ==
    ASSUME Ordinary
    PROVE  /\ pc = "ended" => \E p \in Pids : Exit(p)
           /\ pc' = "ended" => pc = "ended"
<1>1. CASE ServiceStep
    BY <1>1, ServiceFrame
<1>2. CASE Command
    BY <1>2 DEF Command, interactive_set_enabled, interactive_set_disabled,
       interactive_restart_module, SetProfile, ReloadBegin, MayCommand
<1>3. CASE Reload
    BY <1>3 DEF Reload, ReloadModule, ReloadEnd
<1>4. CASE \E p \in Pids : Exit(p)
    BY <1>4 DEF Exit
<1> QED BY <1>1, <1>2, <1>3, <1>4 DEF Ordinary, Next

(***************************************************************************)
(* The slots of a table that has not changed, or from which one was freed. *)
(***************************************************************************)
LEMMA ServiceSlots ==
    ASSUME BaseInv, ServiceStep \/ service_check_modules_status, NEW m \in Modules, m \in Loaded'
    PROVE  m \in Loaded /\ Kept(m)
<1>1. TypeOK /\ DistinctInv
    BY DEF BaseInv
<1>2. CASE slots' = slots /\ \A n \in Modules : Kept(n)
    BY <1>2 DEF Loaded
<1>3. ASSUME NEW n \in Modules, Freed(n)
      PROVE  m \in Loaded /\ Kept(m)
  <2>1. /\ slots \in Seq(Modules) /\ Len(slots) \in Nat /\ DOMAIN slots = 1..Len(slots)
        /\ y \in 1..Len(slots) /\ n = slots[y]
      BY <1>1, <1>3, LenProperties DEF TypeOK, Freed
  <2>2. /\ DOMAIN slots' = 1..(Len(slots) - 1)
        /\ \A i \in DOMAIN slots' : slots'[i] = IF i < y THEN slots[i] ELSE slots[i + 1]
      BY <1>3, <2>1, ShiftFacts DEF Freed
  <2>3. PICK i \in DOMAIN slots' : m = slots'[i]
      BY DEF Loaded
  <2>4. PICK j \in DOMAIN slots : m = slots[j] /\ j # y
      BY <2>1, <2>2, <2>3
  <2>5. m \in Loaded /\ m # n
      BY <1>1, <2>1, <2>4 DEF Loaded, DistinctInv
  <2>6. running_modules'[m] = running_modules[m]
      BY <1>1, <1>3, <2>5 DEF Freed, TypeOK
  <2> QED BY <2>5, <2>6 DEF Kept, KeepsSlot
<1> QED BY <1>1, <1>2, <1>3, ServiceRecords

(***************************************************************************)
(* Stopping the configuration switches modules off.                        *)
(***************************************************************************)
LEMMA StopRecords ==
    ASSUME TypeOK, interactive_stop_configuration
    PROVE  /\ pc = "idle" /\ pc' = "idle" /\ phase = "stopping" /\ phase' = "joining"
           /\ UNCHANGED <<y, slots, array_size, prepared, profile_enabled,
                          restarts_config, config, proc>>
           /\ UNCHANGED <<stop_all, backup>>
           /\ \A m \in Modules :
                 /\ KeepsSlot(running_modules[m], running_modules'[m])
                 /\ running_modules'[m].module_pid = Pid(m)
                 /\ running_modules'[m].module_status = Status(m)
                 /\ running_modules'[m].served = running_modules[m].served
                 /\ running_modules'[m].sent_sigint = running_modules[m].sent_sigint
<1>1. ASSUME NEW m \in Modules
      PROVE  /\ KeepsSlot(running_modules[m], running_modules'[m])
             /\ running_modules'[m].module_pid = Pid(m)
             /\ running_modules'[m].module_status = Status(m)
             /\ running_modules'[m].served = running_modules[m].served
             /\ running_modules'[m].sent_sigint = running_modules[m].sent_sigint
  <2>1. /\ running_modules[m] \in ModuleRecord
        /\ \/ running_modules'[m] = running_modules[m]
           \/ running_modules'[m] = [running_modules[m] EXCEPT !.module_enabled = FALSE]
      BY DEF TypeOK, interactive_stop_configuration, Update
  <2> QED BY <2>1 DEF ModuleRecord, KeepsSlot, Pid, Status
<1> QED BY <1>1 DEF interactive_stop_configuration, tables

(***************************************************************************)
(* The slots after a step hold module names, too.                          *)
(***************************************************************************)
LEMMA LoadedNext == TypeOK' => Loaded' \subseteq Modules
BY ElementOfSeq DEF TypeOK, Loaded

(***************************************************************************)
(* The service thread leaves its loop only when it is asked to, and the    *)
(* main thread waits for it.                                               *)
(***************************************************************************)
LEMMA PhaseStep ==
    ASSUME PhaseInv, [ShutdownNext]_allvars
    PROVE  PhaseInv'
<1>1. CASE Ordinary
    BY <1>1, AfterEnd DEF PhaseInv, Ordinary, termvars, Exit
<1>2. CASE Unseen
    BY <1>2 DEF PhaseInv, Unseen, termvars, LostExits
<1>3. CASE CheckAndLeave
    BY <1>3 DEF PhaseInv, CheckAndLeave, termvars
<1>4. CASE interactive_stop_configuration \/ NextSupervisor
    BY <1>4 DEF PhaseInv, interactive_stop_configuration, NextSupervisor
<1>5. CASE Finish \/ Sigterm \/ Leave \/ UNCHANGED allvars
    BY <1>5 DEF PhaseInv, Finish, Sigterm, Leave, MayTerminate, allvars, vars, termvars
<1> QED BY <1>1, <1>2, <1>3, <1>4, <1>5, StepKinds

(***************************************************************************)
(* When the service thread leaves its loop, the table says which processes *)
(* there are; later they can only end.                                     *)
(***************************************************************************)
LEMMA EndedStep ==
    ASSUME TermInv, [ShutdownNext]_allvars
    PROVE  EndedInv'
<1>1. /\ TypeOK /\ PhaseInv /\ IInv
      /\ \A m \in Modules : running_modules[m] \in ModuleRecord
      /\ \A p \in Pids : proc[p] \in Process /\ proc[p].mod \in Modules
    BY DEF TermInv, IInv, TypeOK, Process
<1>2. CASE Ordinary
  <2>1. CASE pc' = "ended"
    <3>1. pc = "ended"
        BY <1>2, <2>1, AfterEnd
    <3>2. PICK p \in Pids : Exit(p)
        BY <1>2, <3>1, AfterEnd
    <3>3. /\ UNCHANGED <<running_modules, stop_all>>
          /\ \A q \in Pids : q # p => proc'[q] = proc[q]
          /\ proc'[p] = Ended(proc[p]) /\ proc[p].state = "alive"
        BY <1>1, <1>2, <3>2 DEF Exit, Ordinary, termvars, TypeOK, Alive
    <3>4. proc'[p].mod = proc[p].mod /\ proc'[p].state \in {"zombie", "gone"}
        BY <1>1, <3>3, ProcessFacts
    <3>5. \A q \in Pids : /\ proc'[q].mod = proc[q].mod
                          /\ proc'[q].state \in {"free", "lost"}
                                <=> proc[q].state \in {"free", "lost"}
                          /\ proc'[q].state = "alive" => proc[q].state = "alive"
        BY <3>3, <3>4
    <3> QED BY <3>1, <3>3, <3>5 DEF TermInv, EndedInv, InUse, Alive, SlotOf, Pid, Status
  <2> QED BY <2>1 DEF EndedInv
<1>3. CASE CheckAndLeave
  <2>1. /\ pc = "idle" /\ service_check_modules_status /\ stop_all' = stop_all
        /\ pc' = "ended" => LoopEnds
      BY <1>3 DEF CheckAndLeave, termvars
  <2>2. ASSUME NEW m \in Modules
        PROVE  /\ Pid(m) \in Pids /\ Exists(Pid(m)) => running_modules'[m].module_pid = Pid(m)
               /\ running_modules'[m].module_pid \in Pids =>
                     /\ running_modules'[m].module_status
                     /\ Exists(running_modules'[m].module_pid)
    <3>1. running_modules'[m] = Checked(running_modules[m], m)
        BY <2>1 DEF service_check_modules_status
    <3>2. NoPid \notin Pids
        BY SupervisorAssumption
    <3> QED BY <1>1, <3>1, <3>2, CheckedFacts DEF Pid
  <2>3. ASSUME NEW p \in Pids
        PROVE  /\ proc'[p].state \notin {"free", "lost"} => Exists(p)
               /\ Exists(p) => proc'[p] = proc[p]
               /\ Exists(p) => proc[p].state \notin {"free", "lost"}
      BY <1>1, <2>1, ProcessFacts DEF service_check_modules_status, Exists, Process
  <2>4. \A p \in Pids : Exists(p) => Pid(proc[p].mod) = p
      BY <1>1, <2>1 DEF IInv, EveryProcessRecorded, Pid
  <2>5. ASSUME pc' = "ended", stop_all, NEW p \in Pids, proc'[p].state = "alive"
        PROVE  proc'[p].mod \in Privileged
    <3>1. Exists(p) /\ proc'[p] = proc[p] /\ Pid(proc[p].mod) = p
        BY <2>3, <2>4, <2>5
    <3>2. proc[p].mod \in Loaded
        BY <1>1, <3>1, SupervisorAssumption DEF IInv, UnloadedInv
    <3>3. StillCounted = {}
        BY <2>1, <2>5 DEF LoopEnds
    <3> QED BY <3>1, <3>2, <3>3 DEF StillCounted, Pid
  <2>6. ASSUME NEW p \in Pids, proc'[p].state \notin {"free", "lost"}
        PROVE  running_modules'[proc'[p].mod].module_pid = p
      BY <1>1, <2>2, <2>3, <2>4, <2>6
  <2>7. ASSUME NEW m \in Modules, running_modules'[m].module_pid \in Pids
        PROVE  /\ running_modules'[m].module_status
               /\ proc'[running_modules'[m].module_pid].state \notin {"free", "lost"}
      BY <2>2, <2>3, <2>7
  <2> QED BY <2>1, <2>5, <2>6, <2>7 DEF EndedInv, InUse, Alive, SlotOf, Pid, Status
<1>4. CASE interactive_stop_configuration \/ Sigterm \/ Leave \/ NextSupervisor
  <2>1. pc' # "ended"
      BY <1>1, <1>4 DEF interactive_stop_configuration, Sigterm, Leave, MayTerminate,
         NextSupervisor, vars, PhaseInv
  <2> QED BY <2>1 DEF EndedInv
<1>5. CASE Finish \/ UNCHANGED allvars
    BY <1>5 DEF Finish, allvars, vars, termvars, TermInv, EndedInv, InUse, Alive,
       SlotOf, Pid, Status
<1>6. CASE Unseen
  <2>1. /\ UNCHANGED <<pc, running_modules, stop_all>>
        /\ \A p \in Pids : \/ proc'[p] = proc[p]
                           \/ proc[p].state = "lost" /\ proc'[p].state = "free"
      BY <1>1, <1>6, UnseenFacts
  <2> QED BY <2>1 DEF TermInv, EndedInv, InUse, Alive, SlotOf, Pid, Status
<1> QED BY <1>2, <1>3, <1>4, <1>5, <1>6, StepKinds

(***************************************************************************)
(* When a supervisor is over, the processes are those of the backup file,  *)
(* each with what its element says, but those of modules being removed.    *)
(***************************************************************************)
LEMMA OverFacts ==
    ASSUME TermInv, phase = "over"
    PROVE  /\ \A p \in Pids : InUse(p) =>
                 /\ backup # NoBackup
                 /\ BackedUp(p) <=> ~running_modules[proc[p].mod].remove_module
           /\ backup # NoBackup => \A i \in DOMAIN backup.modules :
                 LET e == backup.modules[i]
                 IN  e.module_pid \in Pids =>
                        /\ InUse(e.module_pid) /\ proc[e.module_pid].mod = e.name
                        /\ Alive(e.module_pid) => Fits(e, e.module_pid)
<1>1. /\ TypeOK /\ IInv /\ pc = "ended" /\ ~Loading
      /\ \A p \in Pids : proc[p].mod \in Modules
    BY DEF TermInv, IInv, PhaseInv, Loading, TypeOK, Process
<1>2. /\ \A p \in Pids : InUse(p) => Pid(proc[p].mod) = p
      /\ \A m \in Modules : Pid(m) \in Pids => Status(m) /\ InUse(Pid(m))
    BY <1>1 DEF TermInv, EndedInv, SlotOf, Pid
<1>3. \A m \in Modules : Pid(m) \in Pids => m \in Loaded
    BY <1>1, SupervisorAssumption DEF IInv, UnloadedInv
<1>4. /\ \A m \in Loaded : m \in Saved <=> ~running_modules[m].remove_module
      /\ Saved \subseteq Modules
    BY <1>1, LoadedModules DEF TermInv, ProfileInv, Saved
<1>5. CASE backup = NoBackup /\ \A m \in Loaded : ~Status(m)
    BY <1>1, <1>2, <1>3, <1>5
<1>6. ASSUME NEW order \in Orders(Saved), backup = generate_backup_config_file(order)
      PROVE  /\ \A p \in Pids : InUse(p) =>
                   /\ backup # NoBackup
                   /\ BackedUp(p) <=> ~running_modules[proc[p].mod].remove_module
             /\ \A i \in DOMAIN backup.modules :
                   LET e == backup.modules[i]
                   IN  e.module_pid \in Pids =>
                          /\ InUse(e.module_pid) /\ proc[e.module_pid].mod = e.name
                          /\ Alive(e.module_pid) => Fits(e, e.module_pid)
  <2>1. /\ backup \in Configuration /\ DOMAIN backup.modules = DOMAIN order
        /\ \A i \in DOMAIN order :
              /\ order[i] \in Saved
              /\ backup.modules[i].name = order[i]
              /\ backup.modules[i].module_pid = Pid(order[i])
              /\ backup.modules[i].module_enabled = running_modules[order[i]].module_enabled
              /\ ElementParams(backup.modules[i]) = running_modules[order[i]].module_params
        /\ \A m \in Saved : \E i \in DOMAIN order : order[i] = m
      BY <1>1, <1>6, SavedFacts
  <2>2. backup # NoBackup
      BY <2>1, NoBackupAssumption
  <2>3. ASSUME NEW p \in Pids, InUse(p)
        PROVE  BackedUp(p) <=> ~running_modules[proc[p].mod].remove_module
    <3>1. proc[p].mod \in Loaded /\ Pid(proc[p].mod) = p
        BY <1>1, <1>2, <1>3, <2>3
    <3>2. BackedUp(p) <=> proc[p].mod \in Saved
        BY <2>1, <3>1 DEF BackedUp
    <3> QED BY <1>4, <3>1, <3>2
  <2>4. ASSUME NEW i \in DOMAIN backup.modules, backup.modules[i].module_pid \in Pids
        PROVE  LET e == backup.modules[i]
               IN  /\ InUse(e.module_pid) /\ proc[e.module_pid].mod = e.name
                   /\ Alive(e.module_pid) => Fits(e, e.module_pid)
    <3> DEFINE m == order[i]
               p == Pid(m)
    <3>1. m \in Modules /\ p \in Pids /\ p = backup.modules[i].module_pid
        BY <1>4, <2>1, <2>4
    <3>2. InUse(p) /\ proc[p].mod = m
        BY <1>1, <1>2, <3>1 DEF IInv, OwnerInv
    <3>3. Alive(p) => \/ proc[p].args = running_modules[m].module_params
                      \/ ~running_modules[m].module_enabled \/ m \in revived
        BY <1>1, <3>1, <3>2 DEF TermInv, ParamInv, Right, Good, SlotOf
    <3> HIDE DEF m, p
    <3> QED BY <2>1, <2>4, <3>1, <3>2, <3>3 DEF m, Fits
  <2> QED BY <2>2, <2>3, <2>4
<1> QED BY <1>5, <1>6 DEF TermInv, BackupInv

(***************************************************************************)
(* The state at the start of a supervisor is one IInv allows.              *)
(***************************************************************************)
LEMMA StartedInv ==
    /\ config \in Configuration /\ UniqueNames(config) /\ StartsWith(config) /\ TypeOK
    /\ AskedBeforeForced
    /\ \A p \in Pids : InUse(p) =>
          \E i \in DOMAIN config.modules : config.modules[i].module_pid = p
    /\ \A i \in DOMAIN config.modules : config.modules[i].module_pid \in Pids =>
          /\ InUse(config.modules[i].module_pid)
          /\ proc[config.modules[i].module_pid].mod = config.modules[i].name
    => IInv
BY StartInv

(***************************************************************************)
(* The same after a step.                                                  *)
(***************************************************************************)
LEMMA StartedNext ==
    /\ (config \in Configuration)' /\ UniqueNames(config)' /\ StartsWith(config)' /\ TypeOK'
    /\ AskedBeforeForced'
    /\ (\A p \in Pids : InUse(p) =>
          \E i \in DOMAIN config.modules : config.modules[i].module_pid = p)'
    /\ (\A i \in DOMAIN config.modules : config.modules[i].module_pid \in Pids =>
          /\ InUse(config.modules[i].module_pid)
          /\ proc[config.modules[i].module_pid].mod = config.modules[i].name)'
    => IInv'
BY StartedInv, PTL

(***************************************************************************)
(* The processes a supervisor finds when it starts are those of the        *)
(* configuration it loads, and those that its predecessor did not remove.  *)
(***************************************************************************)
LEMMA FoundProcesses ==
    ASSUME TermInv, NextSupervisor
    PROVE  /\ \A p \in Pids : InUse(p)' => Known(p)
           /\ \A p \in Pids :
                 Alive(p)' <=> /\ Alive(p)
                               /\ ~running_modules[proc[p].mod].remove_module
           /\ \A p \in Pids : Alive(p)' => /\ proc'[p].mod = proc[p].mod
                                           /\ proc'[p].args = proc[p].args
                                           /\ proc'[p].asked = proc[p].asked
                                           /\ proc'[p].forced = proc[p].forced
           /\ \A i \in DOMAIN config'.modules :
                 LET e == config'.modules[i]
                 IN  e.module_pid \in Pids =>
                        /\ proc'[e.module_pid].state \notin {"free", "lost"}
                        /\ proc'[e.module_pid].mod = e.name
                        /\ proc'[e.module_pid].state = "alive" => Fits(e, e.module_pid)
<1>1. BaseInv /\ TypeOK /\ phase = "over"
    BY DEF TermInv, BaseInv, NextSupervisor
<1>2. \A p \in Pids :
         /\ InUse(p)' <=> InUse(p) /\ Known(p)
         /\ Alive(p)' <=> Alive(p) /\ Known(p)
         /\ InUse(p)' => proc'[p].mod = proc[p].mod
         /\ Alive(p)' => /\ proc'[p].args = proc[p].args
                         /\ proc'[p].asked = proc[p].asked
                         /\ proc'[p].forced = proc[p].forced
         /\ Alive(p) => InUse(p)
         /\ Alive(p)' => InUse(p)'
    BY <1>1, OrphanFacts DEF InUse, Alive
<1>3. CASE config' = backup /\ backup # NoBackup
  <2>1. \A i \in DOMAIN config'.modules :
           LET e == config'.modules[i]
           IN  e.module_pid \in Pids =>
                  /\ InUse(e.module_pid) /\ proc[e.module_pid].mod = e.name
                  /\ Alive(e.module_pid) => Fits(e, e.module_pid)
      BY <1>1, <1>3, OverFacts
  <2>2. \A p \in Pids : InUse(p) => (Known(p) <=> BackedUp(p))
      BY <1>3, <2>1 DEF Known, BackedUp
  <2>3. \A p \in Pids : InUse(p) =>
           (BackedUp(p) <=> ~running_modules[proc[p].mod].remove_module)
      BY <1>1, OverFacts
  <2>4. ASSUME NEW i \in DOMAIN config'.modules,
               config'.modules[i].module_pid \in Pids
        PROVE  LET e == config'.modules[i]
               IN  /\ proc'[e.module_pid].state \notin {"free", "lost"}
                   /\ proc'[e.module_pid].mod = e.name
                   /\ proc'[e.module_pid].state = "alive" => Fits(e, e.module_pid)
    <3> DEFINE e == config'.modules[i]
    <3>1. PICK p \in Pids : p = e.module_pid
        BY <2>4
    <3>2. Known(p)
        BY <3>1 DEF Known
    <3>3. /\ InUse(p) /\ proc[p].mod = e.name
          /\ Alive(p) => Fits(e, p)
        BY <2>1, <3>1
    <3>4. InUse(p)' /\ proc'[p].mod = e.name /\ (Alive(p)' => Fits(e, p))
        BY <1>2, <3>2, <3>3
    <3>5. proc'[p].state \notin {"free", "lost"} /\ (proc'[p].state = "alive" => Fits(e, p))
        BY <3>4 DEF InUse, Alive
    <3> HIDE DEF e
    <3> QED BY <3>1, <3>4, <3>5 DEF e
  <2>5. \A p \in Pids : Alive(p)' <=> /\ Alive(p)
                                     /\ ~running_modules[proc[p].mod].remove_module
      BY <1>2, <2>2, <2>3
  <2>6. \A p \in Pids : InUse(p)' => Known(p)
      BY <1>2
  <2>7. \A p \in Pids : Alive(p)' => /\ proc'[p].mod = proc[p].mod
                                    /\ proc'[p].args = proc[p].args
                                    /\ proc'[p].asked = proc[p].asked
                                    /\ proc'[p].forced = proc[p].forced
      BY <1>2
  <2>8. \A i \in DOMAIN config'.modules :
           LET e == config'.modules[i]
           IN  e.module_pid \in Pids =>
                  /\ proc'[e.module_pid].state \notin {"free", "lost"}
                  /\ proc'[e.module_pid].mod = e.name
                  /\ proc'[e.module_pid].state = "alive" => Fits(e, e.module_pid)
      BY <2>4
  <2> QED BY <2>5, <2>6, <2>7, <2>8
<1>4. CASE backup = NoBackup /\ config' \in Configs
  <2>1. \A i \in DOMAIN config'.modules : config'.modules[i].module_pid \notin Pids
      BY <1>4, ConfigsAssumption, SupervisorAssumption
  <2>2. \A p \in Pids : ~InUse(p)
      BY <1>1, <1>4, OverFacts
  <2> QED BY <1>2, <2>1, <2>2
<1> QED BY <1>1, <1>3, <1>4, NextStart DEF NextSupervisor

(***************************************************************************)
(* The end of a process that nobody knows of is not seen.                  *)
(***************************************************************************)
LEMMA UnseenInv ==
    ASSUME IInv, TypeOK, Unseen
    PROVE  IInv'
<1>0. /\ TypeOK'
      /\ pc' = pc /\ y' = y /\ slots' = slots
      /\ running_modules' = running_modules /\ config' = config
      /\ \A p \in Pids : \/ proc'[p] = proc[p]
                         \/ proc[p].state = "lost" /\ proc'[p].state = "free"
    BY UnseenFacts
<1>1. \A p \in Pids : proc[p].mod \in Modules /\ proc'[p].mod \in Modules
    BY <1>0 DEF IInv, TypeOK, Process
<1>2. UnloadedInv' /\ StatusInv'
    BY <1>0 DEF IInv, UnloadedInv, StatusInv, Pid, Loaded
<1>3. OwnerInv' /\ FreshInv'
    BY <1>0 DEF IInv, OwnerInv, FreshInv, Pid, InUse
<1>4. LoadInv'
  <2> SUFFICES ASSUME pc = "load" PROVE LoadInv'
      BY <1>0 DEF LoadInv
  <2>0. /\ UniqueNames(config) /\ y <= Len(config.modules) + 1
        /\ Loaded = {config.modules[i].name : i \in 1..(y - 1)}
      BY DEF IInv, LoadInv
  <2>1. /\ UniqueNames(config)' /\ y' <= Len(config'.modules) + 1
        /\ Loaded' = {config'.modules[i].name : i \in 1..(y' - 1)}
    <3>1. Loaded' = Loaded
        BY <1>0 DEF Loaded
    <3>2. UniqueNames(config)'
        BY <1>0, <2>0 DEF UniqueNames
    <3> QED BY <1>0, <2>0, <3>1, <3>2
  <2>2. \A i \in DOMAIN config.modules :
           LET e == config.modules[i]
           IN  /\ e.module_pid \in Pids =>
                     /\ proc'[e.module_pid].state \notin {"free", "lost"}
                     /\ proc'[e.module_pid].mod = e.name
               /\ i < y => Pid(e.name) = e.module_pid
      BY <1>0 DEF IInv, LoadInv, InUse
  <2>3. \A p \in Pids : proc'[p].state \notin {"free", "lost"} =>
           \E i \in DOMAIN config.modules : config.modules[i].module_pid = p
      BY <1>0 DEF IInv, LoadInv, InUse
  <2> QED BY <1>0, <2>1, <2>2, <2>3 DEF LoadInv, Pid, InUse
<1>5. EveryProcessRecorded'
    BY <1>0, <1>1 DEF IInv, EveryProcessRecorded, Exists
<1>6. AskedInv' /\ AskedBeforeForced'
    BY <1>0, <1>1 DEF IInv, AskedInv, AskedBeforeForced, Pid, Alive
<1> QED BY <1>0, <1>2, <1>3, <1>4, <1>5, <1>6 DEF IInv

(***************************************************************************)
(* Every step keeps the invariant of the service thread; a new supervisor  *)
(* starts from a state that satisfies it.                                  *)
(***************************************************************************)
LEMMA TermIInv ==
    ASSUME TermInv, [ShutdownNext]_allvars
    PROVE  IInv'
<1>1. /\ IInv /\ BaseInv /\ TypeOK /\ BaseInv' /\ TypeOK'
    BY BaseNext DEF TermInv, BaseInv
<1>2. CASE Ordinary
    BY <1>1, <1>2, NextInv DEF Ordinary
<1>3. CASE CheckAndLeave
    BY <1>1, <1>3, CheckInv DEF CheckAndLeave
<1>4. CASE interactive_stop_configuration
  <2>1. /\ pc = "idle" /\ pc' = "idle" /\ proc' = proc /\ Loaded' = Loaded
        /\ \A m \in Modules :
              /\ running_modules'[m].module_pid = Pid(m)
              /\ running_modules'[m].module_status = Status(m)
              /\ running_modules'[m].sent_sigint = running_modules[m].sent_sigint
      BY <1>1, <1>4, StopRecords DEF Loaded
  <2> QED BY <1>1, <2>1, QuietInv
<1>5. CASE Finish \/ Sigterm \/ Leave \/ UNCHANGED allvars
  <2>1. UNCHANGED vars
      BY <1>5 DEF Finish, Sigterm, Leave, allvars
  <2> QED BY <1>1, <2>1, NextInv
<1>6. CASE NextSupervisor
  <2>1. (config \in Configuration)' /\ UniqueNames(config)' /\ StartsWith(config)'
      BY <1>1, <1>6, NextStart DEF UniqueNames
  <2>2. AskedBeforeForced'
      BY <1>1, <1>6, FoundProcesses DEF IInv, AskedBeforeForced
  <2>3. (\A p \in Pids : InUse(p) =>
           \E i \in DOMAIN config.modules : config.modules[i].module_pid = p)'
      BY <1>6, FoundProcesses DEF Known
  <2>4. (\A i \in DOMAIN config.modules : config.modules[i].module_pid \in Pids =>
           /\ InUse(config.modules[i].module_pid)
           /\ proc[config.modules[i].module_pid].mod = config.modules[i].name)'
      BY <1>1, <1>6, FoundProcesses DEF InUse
  <2> QED BY <1>1, <2>1, <2>2, <2>3, <2>4, StartedNext
<1>7. CASE Unseen
    BY <1>1, <1>7, UnseenInv
<1> QED BY <1>2, <1>3, <1>4, <1>5, <1>6, <1>7, StepKinds

(***************************************************************************)
(* The backup file is written from the table the supervisor ends with, and *)
(* there is none while a supervisor runs.                                  *)
(***************************************************************************)
LEMMA BackupStep ==
    ASSUME TermInv, [ShutdownNext]_allvars
    PROVE  BackupInv'
<1>1. /\ TypeOK /\ PhaseInv /\ BackupInv
    BY DEF TermInv, IInv
<1>2. ASSUME UNCHANGED <<phase, backup, slots, running_modules, profile_enabled>>
      PROVE  BackupInv'
  <2>1. Saved' = Saved /\ Loaded' = Loaded
      BY <1>2 DEF Saved, Loaded
  <2>2. ASSUME NEW order
        PROVE  generate_backup_config_file(order)' = generate_backup_config_file(order)
      BY <1>2 DEF generate_backup_config_file, SavedElement
  <2> QED BY <1>1, <1>2, <2>1, <2>2 DEF BackupInv, Status
<1>3. CASE Ordinary
  <2>1. CASE phase = "over"
    <3>1. PICK p \in Pids : Exit(p)
        BY <1>1, <1>3, <2>1, AfterEnd DEF PhaseInv
    <3> QED BY <1>2, <1>3, <3>1 DEF Exit, Ordinary, termvars, tables
  <2>2. CASE phase # "over"
      BY <1>1, <1>3, <2>2 DEF BackupInv, Ordinary, termvars
  <2> QED BY <2>1, <2>2
<1>4. CASE Unseen
    BY <1>1, <1>2, <1>4, UnseenFacts
<1>5. CASE UNCHANGED allvars
    BY <1>2, <1>5 DEF allvars, vars, termvars
<1>6. CASE \/ CheckAndLeave \/ interactive_stop_configuration \/ NextSupervisor
           \/ Sigterm \/ Leave
    BY <1>1, <1>6 DEF BackupInv, CheckAndLeave, interactive_stop_configuration,
       NextSupervisor, Sigterm, Leave, MayTerminate, termvars
<1>7. CASE Finish
  <2>1. UNCHANGED vars /\ phase' = "over" /\ phase # "over"
      BY <1>7 DEF Finish
  <2>2. Saved' = Saved /\ Loaded' = Loaded
      BY <2>1 DEF Saved, Loaded, vars
  <2>3. ASSUME NEW order
        PROVE  generate_backup_config_file(order)' = generate_backup_config_file(order)
      BY <2>1 DEF generate_backup_config_file, SavedElement, vars
  <2>4. PICK requested \in BOOLEAN :
           IF MustSave(requested)
           THEN \E order \in Orders(Saved) : backup' = generate_backup_config_file(order)
           ELSE UNCHANGED backup
      BY <1>7 DEF Finish
  <2>5. CASE MustSave(requested)
      BY <2>1, <2>2, <2>3, <2>4, <2>5 DEF BackupInv
  <2>6. CASE ~MustSave(requested)
      BY <1>1, <2>1, <2>2, <2>4, <2>6 DEF BackupInv, MustSave, Status, vars
  <2> QED BY <2>5, <2>6
<1> QED BY <1>3, <1>4, <1>5, <1>6, <1>7, StepKinds

(***************************************************************************)
(* The loaded modules without a profile are those being removed, or not    *)
(* yet named by the document that is read.                                 *)
(***************************************************************************)
LEMMA ProfileStep ==
    ASSUME TermInv, [ShutdownNext]_allvars
    PROVE  ProfileInv'
<1>1. /\ BaseInv /\ TypeOK /\ ProfileInv /\ TypeOK' /\ Loaded' \subseteq Modules
      /\ Loaded \subseteq Modules
      /\ \A m \in Modules : running_modules[m] \in ModuleRecord
    BY BaseNext, LoadedNext, LoadedModules DEF TermInv, BaseInv, TypeOK
<1>2. CASE ServiceStep \/ CheckAndLeave
  <2>1. /\ ~Loading /\ ~Loading'
        /\ ServiceStep \/ service_check_modules_status
      BY <1>2, ServiceFrame DEF CheckAndLeave, Loading
  <2>2. ASSUME NEW m \in Loaded'
        PROVE  running_modules'[m].profile = NoProfile <=> running_modules'[m].remove_module
    <3>1. m \in Loaded /\ KeepsSlot(running_modules[m], running_modules'[m])
        BY <1>1, <2>1, ServiceSlots DEF Kept
    <3> QED BY <1>1, <2>1, <3>1 DEF ProfileInv, KeepsSlot
  <2> QED BY <2>1, <2>2 DEF ProfileInv
<1>3. ASSUME ~Loading, ~Loading', slots' = slots,
             \A m \in Modules : KeepsSlot(running_modules[m], running_modules'[m])
      PROVE  ProfileInv'
    BY <1>1, <1>3 DEF ProfileInv, Loaded, KeepsSlot
<1>4. ASSUME NEW c \in Configs, ReloadBegin(c)
      PROVE  ProfileInv'
  <2>1. /\ y' = 1 /\ Loading' /\ DOMAIN config'.modules = 1..Len(config'.modules)
        /\ Len(config'.modules) \in Nat
        /\ \A m \in Modules : running_modules'[m] = Reset(running_modules[m])
      BY <1>1, <1>4, LenProperties DEF ReloadBegin, Loading, TypeOK, Configuration
  <2>2. \A m : ~NamedBefore(m)'
      BY <2>1 DEF NamedBefore
  <2>3. \A m \in Modules : /\ ~running_modules'[m].remove_module
                          /\ running_modules'[m].profile = NoProfile
      BY <1>1, <2>1, ResetRecords
  <2> QED BY <1>1, <2>1, <2>2, <2>3 DEF ProfileInv
<1>5. CASE Command
    BY <1>1, <1>3, <1>4, <1>5, CommandRecords DEF Loading
<1>6. CASE ReloadModule
  <2> DEFINE m == Element.name
  <2>1. /\ Loading /\ Loading' /\ m \in Modules /\ Element \in ModuleElement
        /\ running_modules' = [running_modules EXCEPT ![m] = After]
        /\ slots' = IF Fresh THEN Append(slots, m) ELSE slots
      BY <1>1, <1>6, ReloadFacts DEF ReloadModule, Loading
  <2>2. After.profile # NoProfile
      BY <1>1, <1>6, <2>1, AfterFacts, SupervisorAssumption DEF ModuleElement
  <2>3. ~After.remove_module
    <3>1. ~Before.remove_module
        BY <1>1, <2>1, SlotRecords DEF Before, ProfileInv
    <3> QED BY <1>1, <1>6, <3>1, AfterFacts
  <2>4. Loaded' \subseteq Loaded \cup {m}
      BY <1>1, <2>1, AppendLoads DEF Loaded
  <2> HIDE DEF m
  <2>5. \A n \in Modules : running_modules'[n] = IF n = m THEN After ELSE running_modules[n]
      BY <1>1, <2>1 DEF TypeOK
  <2>6. \A n : NamedBefore(n)' <=> NamedBefore(n) \/ n = m
      BY <1>1, <1>6, NamedStep DEF m
  <2> QED BY <1>1, <2>1, <2>2, <2>3, <2>4, <2>5, <2>6 DEF ProfileInv
<1>7. CASE ReloadEnd
  <2>1. /\ Loading /\ ~Loading' /\ slots' = slots /\ y > Len(config.modules) /\ y \in Nat
      BY <1>1, <1>7 DEF ReloadEnd, Loading, tables, TypeOK
  <2>2. ASSUME NEW m \in Loaded'
        PROVE  running_modules'[m].profile = NoProfile <=> running_modules'[m].remove_module
    <3> DEFINE r == running_modules[m]
               s == [r EXCEPT !.served = FALSE]
               t == [r EXCEPT !.served = FALSE, !.module_enabled = FALSE,
                              !.remove_module = TRUE]
    <3>1. m \in Loaded /\ m \in Modules /\ r \in ModuleRecord
        BY <1>1, <2>1 DEF Loaded
    <3>2. running_modules'[m] = IF m \in Names(config) THEN s ELSE t
        BY <1>7, <3>1 DEF ReloadEnd
    <3>3. /\ s.profile = r.profile /\ t.profile = r.profile
          /\ s.remove_module = r.remove_module /\ t.remove_module
        BY <3>1 DEF ModuleRecord
    <3>4. /\ ~r.remove_module
          /\ r.profile = NoProfile <=> ~NamedBefore(m)
        BY <1>1, <2>1, <3>1 DEF ProfileInv
    <3>5. m \in Names(config) <=> NamedBefore(m)
        BY <1>1, <2>1, ElementFacts DEF Names, NamedBefore
    <3> HIDE DEF r, s, t
    <3> QED BY <3>2, <3>3, <3>4, <3>5
  <2> QED BY <2>1, <2>2 DEF ProfileInv
<1>8. ASSUME UNCHANGED <<pc, y, slots, running_modules, config>>
      PROVE  ProfileInv'
    BY <1>1, <1>8 DEF ProfileInv, Loaded, Loading, NamedBefore
<1>9. CASE \/ (\E p \in Pids : Exit(p)) \/ Finish \/ Sigterm \/ Leave
           \/ UNCHANGED allvars
    BY <1>8, <1>9 DEF Exit, Finish, Sigterm, Leave, allvars, vars, tables
<1>10. CASE Unseen
    BY <1>1, <1>8, <1>10, UnseenFacts
<1>11. CASE interactive_stop_configuration
    BY <1>1, <1>3, <1>11, StopRecords DEF Loading
<1>12. CASE NextSupervisor
  <2>1. /\ Loading' /\ slots' = <<>>
        /\ \A m \in Modules : running_modules'[m] = EmptySlot
      BY <1>12 DEF NextSupervisor, Loading
  <2> QED BY <2>1, SlotRecords DEF ProfileInv, Loaded
<1> QED BY <1>2, <1>5, <1>6, <1>7, <1>9, <1>10, <1>11, <1>12, StepKinds
        DEF Ordinary, Next, Reload

-----------------------------------------------------------------------------
(* The parameters of the processes. *)

(***************************************************************************)
(* A process after a step of the service thread was there before, or has   *)
(* just been started with the parameters of its slot.                      *)
(***************************************************************************)
LEMMA ServiceProcesses ==
    ASSUME TypeOK, ServiceStep \/ service_check_modules_status,
           NEW p \in Pids, Alive(p)'
    PROVE  \/ /\ Alive(p) /\ proc'[p].mod = proc[p].mod /\ proc'[p].args = proc[p].args
           \/ LET m == proc'[p].mod
              IN  /\ m \in Modules /\ running_modules'[m].module_running
                  /\ KeepsSlot(running_modules[m], running_modules'[m])
                  /\ proc'[p].args = running_modules[m].module_params
<1>1. proc[p] \in Process /\ \A m \in Modules : running_modules[m] \in ModuleRecord
    BY DEF TypeOK
<1>2. proc'[p].state = "alive"
    BY DEF Alive
<1>3. CASE proc'[p] = proc[p]
    BY <1>2, <1>3 DEF Alive
<1>4. CASE proc'[p] = FreeProcess
    BY <1>2, <1>4, ProcessFacts
<1>5. CASE \/ proc'[p] = [proc[p] EXCEPT !.asked = TRUE]
           \/ proc'[p] = [proc[p] EXCEPT !.forced = TRUE]
    BY <1>1, <1>2, <1>5 DEF Process, Alive
<1>6. CASE service_check_modules_status \/ service_clean_after_children
    BY <1>3, <1>4, <1>6 DEF service_check_modules_status, service_clean_after_children
<1>7. CASE service_stop_modules_sigint \/ service_stop_modules_sigkill
    BY <1>3, <1>5, <1>7 DEF service_stop_modules_sigint, service_stop_modules_sigkill
<1>8. CASE service_update_modules_status
  <2>1. PICK child \in [ToStart -> FreePids \cup {ForkFailed}] :
        /\ running_modules' = [m \in Modules |->
              LET r == Ticked(running_modules[m])
              IN  IF m \in ToStart THEN service_start_module(r, child[m])
                  ELSE IF m \in OutOfRestarts
                       THEN [r EXCEPT !.module_enabled = FALSE]
                  ELSE IF m \in Loaded THEN r
                  ELSE running_modules[m]]
        /\ proc' = [q \in Pids |->
              IF \E m \in ToStart : child[m] = q
              THEN LET m == CHOOSE m \in ToStart : child[m] = q
                   IN  ProcessOf(m, running_modules[m].module_params, TRUE)
              ELSE proc[q]]
      BY <1>8 DEF service_update_modules_status
  <2>2. CASE \E m \in ToStart : child[m] = p
    <3>1. PICK m : /\ m = CHOOSE n \in ToStart : child[n] = p
                   /\ m \in ToStart /\ child[m] = p
        BY <2>2
    <3>2. proc'[p] = ProcessOf(m, running_modules[m].module_params, TRUE)
        BY <2>1, <2>2, <3>1
    <3>3. m \in Modules
        BY <3>1, LoadedModules DEF ToStart, Down
    <3>4. proc'[p].mod = m /\ proc'[p].args = running_modules[m].module_params
        BY <3>2 DEF ProcessOf
    <3>5. running_modules'[m] = service_start_module(Ticked(running_modules[m]), child[m])
        BY <2>1, <3>1, <3>3
    <3>6. /\ Ticked(running_modules[m]) \in ModuleRecord
          /\ KeepsSlot(running_modules[m], Ticked(running_modules[m]))
        BY <1>1, <3>3, TickedFacts, RecordFacts
    <3>7. /\ KeepsSlot(Ticked(running_modules[m]), running_modules'[m])
          /\ running_modules'[m].module_running
        BY <3>5, <3>6, RecordFacts
    <3> QED BY <3>3, <3>4, <3>6, <3>7 DEF KeepsSlot
  <2> QED BY <1>3, <2>1, <2>2
<1>9. CASE ServeModule \/ ServeDone
    BY <1>3, <1>9 DEF ServeModule, ServeDone
<1> QED BY <1>6, <1>7, <1>8, <1>9 DEF ServiceStep

(***************************************************************************)
(* A module that runs after a step and had been switched on again before,  *)
(* or is now, by a command or a reload, is remembered.                     *)
(***************************************************************************)
LEMMA Remembered ==
    ASSUME Remember, NEW p \in Pids, Alive(p)', NEW m \in Modules, proc'[p].mod = m
    PROVE  /\ m \in revived => m \in revived'
           /\ /\ pc \in {"idle", "reload"}
              /\ ~running_modules[m].module_enabled /\ running_modules'[m].module_enabled
              => m \in revived'
<1>1. Runs(m)'
    BY DEF Runs
<1> QED BY <1>1 DEF Remember, SwitchedOn

(***************************************************************************)
(* A step keeps a process right that was good if it leaves the parameters  *)
(* of the slot alone, or disables the module.                              *)
(***************************************************************************)
LEMMA RightKept ==
    ASSUME Remember, NEW p \in Pids, Right(p), Alive(p)',
           NEW m \in Modules, proc[p].mod = m, proc'[p].mod = m,
           proc'[p].args = proc[p].args,
           Good(p) => \/ ~running_modules'[m].module_enabled
                      \/ /\ running_modules'[m].module_params
                               = running_modules[m].module_params
                         /\ running_modules[m].module_running
                               => running_modules'[m].module_running,
           running_modules'[m].module_enabled =>
              running_modules[m].module_enabled \/ pc \in {"idle", "reload"}
    PROVE  Right(p)'
<1>1. /\ m \in revived => m \in revived'
      /\ /\ pc \in {"idle", "reload"}
         /\ ~running_modules[m].module_enabled /\ running_modules'[m].module_enabled
         => m \in revived'
    BY Remembered
<1>2. Right(p)' <=>
         \/ /\ proc[p].args = running_modules'[m].module_params
            /\ running_modules'[m].module_running
         \/ ~running_modules'[m].module_enabled
         \/ m \in revived'
    BY DEF Right, Good, SlotOf
<1>3. \/ Good(p)
      \/ ~running_modules[m].module_enabled
      \/ m \in revived
    BY DEF Right, SlotOf
<1>4. Good(p) => /\ proc[p].args = running_modules[m].module_params
                 /\ running_modules[m].module_running
    BY DEF Good, SlotOf
<1> QED BY <1>1, <1>2, <1>3, <1>4

(***************************************************************************)
(* The service thread starts modules with the parameters of their slots,   *)
(* and does not enable one that has a process.                             *)
(***************************************************************************)
LEMMA ServiceRight ==
    ASSUME TermInv, Remember, ServiceStep \/ service_check_modules_status, ~Loading,
           NEW p \in Pids, Alive(p)'
    PROVE  Right(p)'
<1>1. /\ IInv /\ TypeOK /\ BaseInv /\ \A m \in Modules : running_modules[m] \in ModuleRecord
      /\ proc[p].mod \in Modules /\ pc # "load"
    BY DEF TermInv, IInv, TypeOK, Process, Loading
<1>2. CASE /\ Alive(p) /\ proc'[p].mod = proc[p].mod /\ proc'[p].args = proc[p].args
  <2> DEFINE m == proc[p].mod
  <2>1. Pid(m) = p
      BY <1>1, <1>2 DEF IInv, EveryProcessRecorded, Exists, Alive, Pid
  <2>2. pc = "serve" => Status(m)
      BY <1>1, <2>1 DEF IInv, StatusInv, Status
  <2>3. Kept(m)
    <3>1. ASSUME NEW n \in Modules, Freed(n)
          PROVE  Kept(m)
      <4>1. n # m
          BY <2>2, <3>1 DEF Freed, Removable, Status
      <4>2. running_modules'[m] = running_modules[m]
          BY <1>1, <3>1, <4>1 DEF Freed, TypeOK
      <4> QED BY <4>2 DEF Kept, KeepsSlot
    <3> QED BY <1>1, <3>1, ServiceRecords
  <2>4. /\ running_modules'[m].module_params = running_modules[m].module_params
        /\ running_modules[m].module_running => running_modules'[m].module_running
        /\ running_modules'[m].module_enabled => running_modules[m].module_enabled
      BY <2>2, <2>3 DEF Kept, KeepsSlot
  <2>5. Right(p)
      BY <1>1, <1>2 DEF TermInv, ParamInv
  <2> QED BY <1>1, <1>2, <2>4, <2>5, RightKept
<1>3. CASE LET m == proc'[p].mod
           IN  /\ m \in Modules /\ running_modules'[m].module_running
               /\ KeepsSlot(running_modules[m], running_modules'[m])
               /\ proc'[p].args = running_modules[m].module_params
    BY <1>3 DEF KeepsSlot, Right, Good, SlotOf
<1> QED BY <1>1, <1>2, <1>3, ServiceProcesses

(***************************************************************************)
(* One element of a reload: a process whose module changes its parameters  *)
(* is left with a disabled module, which is restarted later.               *)
(***************************************************************************)
LEMMA ReloadRight ==
    ASSUME TermInv, Remember, ReloadModule, pc = "reload", NEW p \in Pids, Alive(p)
    PROVE  Right(p)'
<1> DEFINE m == proc[p].mod
<1>1. /\ IInv /\ TypeOK /\ m \in Modules /\ proc' = proc /\ Right(p)
    BY DEF TermInv, IInv, TypeOK, Process, ReloadModule, ParamInv
<1>2. Pid(m) = p
    BY <1>1 DEF IInv, EveryProcessRecorded, Exists, Alive, Pid
<1>3. m \in Loaded
    BY <1>1, <1>2, SupervisorAssumption DEF IInv, UnloadedInv
<1>4. /\ Element.name \in Modules
      /\ running_modules' = [running_modules EXCEPT ![Element.name] = After]
    BY <1>1, ReloadFacts
<1>5. Good(p) => \/ ~running_modules'[m].module_enabled
                 \/ /\ running_modules'[m].module_params = running_modules[m].module_params
                    /\ running_modules[m].module_running
                          => running_modules'[m].module_running
  <2>1. CASE m # Element.name
    <3>1. running_modules'[m] = running_modules[m]
        BY <1>1, <1>4, <2>1 DEF TypeOK
    <3> QED BY <3>1
  <2>2. CASE m = Element.name
    <3>1. Before = running_modules[m] /\ ~Fresh
        BY <1>3, <2>2 DEF Before, Fresh
    <3>2. running_modules'[m] = After
        BY <1>1, <1>4, <2>2 DEF TypeOK
    <3>3. Good(p) => Before.module_running
        BY <3>1 DEF Good, SlotOf
    <3>4. Before.module_running =>
             IF Modified THEN ~After.module_enabled ELSE After.module_running
        BY <1>1, AfterFacts
    <3>5. ~Modified => After.module_params = Before.module_params
        BY <1>1, <3>1, AfterFacts DEF Modified
    <3> QED BY <3>1, <3>2, <3>3, <3>4, <3>5
  <2> QED BY <2>1, <2>2
<1>6. Alive(p)'
    BY <1>1 DEF Alive
<1> HIDE DEF m
<1> QED BY <1>1, <1>5, <1>6, RightKept DEF m

(***************************************************************************)
(* While the first document is read, a process that stays is what its      *)
(* element says, and remembered as its module is.                          *)
(***************************************************************************)
LEMMA FitsKept ==
    ASSUME TermInv, Remember, pc = "load", NEW i \in DOMAIN config.modules,
           config.modules[i].module_pid \in Pids,
           proc'[config.modules[i].module_pid] = proc[config.modules[i].module_pid],
           proc[config.modules[i].module_pid].state = "alive"
    PROVE  LET e == config.modules[i]
           IN  /\ e.name \in Modules /\ proc[e.module_pid].mod = e.name
               /\ e.name \in revived => e.name \in revived'
               /\ Fits(e, e.module_pid)
               /\ \/ proc'[e.module_pid].args = ElementParams(e)
                  \/ ~e.module_enabled \/ e.name \in revived'
               /\ i < y => Right(e.module_pid)
<1> DEFINE e == config.modules[i]
<1>1. PICK p \in Pids : p = e.module_pid
    OBVIOUS
<1>2. Alive(p) /\ Alive(p)' /\ proc'[p] = proc[p]
    BY <1>1 DEF Alive
<1>3. IInv /\ e.name \in Modules
    BY ElementFacts DEF TermInv, IInv
<1>4. proc[p].mod = e.name
    BY <1>1, <1>3 DEF IInv, LoadInv
<1>5. Fits(e, p) /\ (i < y => Right(p))
    BY <1>1, <1>2 DEF TermInv, ParamInv
<1>6. e.name \in revived => e.name \in revived'
    BY <1>2, <1>3, <1>4, Remembered
<1> HIDE DEF e
<1>7. proc'[p].args = ElementParams(e) \/ ~e.module_enabled \/ e.name \in revived'
    BY <1>2, <1>5, <1>6 DEF Fits
<1> QED BY <1>1, <1>3, <1>4, <1>5, <1>6, <1>7 DEF e

(***************************************************************************)
(* One element of the first load: the process it names is adopted with its *)
(* parameters.                                                             *)
(***************************************************************************)
LEMMA LoadRight ==
    ASSUME TermInv, Remember, ReloadModule, pc = "load",
           NEW i \in DOMAIN config.modules, i < y + 1,
           NEW p \in Pids, p = config.modules[i].module_pid, Alive(p)
    PROVE  Right(p)'
<1> DEFINE e == config.modules[i]
<1>1. /\ IInv /\ TypeOK /\ UniqueNames(config) /\ i \in Nat \ {0}
      /\ proc' = proc /\ config' = config /\ y \in Nat
  <2>1. IInv /\ TypeOK /\ UniqueNames(config) /\ proc' = proc /\ config' = config /\ y \in Nat
      BY DEF TermInv, BaseInv, TypeOK, ReloadModule
  <2> QED BY <2>1, ElementFacts
<1>2. /\ y \in DOMAIN config.modules /\ Element = config.modules[y]
      /\ Element.name \in Modules
      /\ running_modules' = [running_modules EXCEPT ![Element.name] = After]
    BY <1>1, ReloadFacts DEF Element
<1>3. /\ proc[p].mod = e.name /\ e.name \in Modules
      /\ e.name \in revived => e.name \in revived'
      /\ Fits(e, p)
      /\ i < y => Right(p)
    BY <1>1, FitsKept DEF Alive
<1>4. Loaded = {config.modules[j].name : j \in 1..(y - 1)}
    BY <1>1 DEF IInv, LoadInv
<1>5. Alive(p)'
    BY <1>1 DEF Alive
<1>6. CASE i < y
  <2>1. e.name # Element.name
      BY <1>1, <1>2, <1>6 DEF UniqueNames
  <2>2. running_modules'[e.name] = running_modules[e.name]
      BY <1>1, <1>2, <1>3, <2>1 DEF TypeOK
  <2> HIDE DEF e
  <2> QED BY <1>1, <1>3, <1>5, <1>6, <2>2, RightKept
<1>7. CASE i = y
  <2>1. e = Element
      BY <1>2, <1>7
  <2>2. Fresh
    <3>1. \A j \in 1..(y - 1) : j \in DOMAIN config.modules /\ j # y
        BY <1>1, <1>2, ElementFacts
    <3>2. \A j \in DOMAIN config.modules : j # y => config.modules[j].name # Element.name
        BY <1>1, <1>2 DEF UniqueNames
    <3> QED BY <1>4, <3>1, <3>2 DEF Fresh
  <2>3. Before.module_params = NoParams
      BY <2>2, SlotRecords DEF Before
  <2>4. After.module_params = ElementParams(e)
      BY <1>1, <2>1, <2>3, AfterFacts DEF MergedParams, ElementParams
  <2>5. After.module_running /\ After.module_enabled = e.module_enabled
      BY <1>1, <2>1, <2>2, AfterFacts DEF BackupPid
  <2>6. running_modules'[e.name] = After
      BY <1>1, <1>2, <2>1 DEF TypeOK
  <2> HIDE DEF e
  <2>7. proc[p].args = ElementParams(e) \/ ~e.module_enabled \/ e.name \in revived'
      BY <1>3 DEF Fits
  <2> QED BY <1>1, <1>3, <2>4, <2>5, <2>6, <2>7 DEF Right, Good, SlotOf
<1> QED BY <1>1, <1>6, <1>7

(***************************************************************************)
(* Every process has the parameters of its slot, or its module is disabled *)
(* until it has gone, or was switched on again before that.                *)
(***************************************************************************)
LEMMA ParamStep ==
    ASSUME TermInv, [ShutdownNext]_allvars
    PROVE  ParamInv'
<1>1. /\ IInv /\ BaseInv /\ TypeOK /\ ParamInv
      /\ \A m \in Modules : running_modules[m] \in ModuleRecord
      /\ \A p \in Pids : proc[p] \in Process /\ proc[p].mod \in Modules
    BY DEF TermInv, IInv, TypeOK, Process
<1>2. CASE UNCHANGED allvars
    BY <1>1, <1>2 DEF allvars, vars, termvars, ParamInv, Right, Fits, Alive, Good, SlotOf,
       ElementParams
<1> SUFFICES ASSUME Remember PROVE ParamInv'
    BY <1>2 DEF ShutdownNext
<1>3. ASSUME ServiceStep \/ (pc = "idle" /\ service_check_modules_status),
             ~Loading'
      PROVE  ParamInv'
  <2>1. ~Loading
      BY <1>3, ServiceFrame DEF Loading
  <2>2. \A p \in Pids : Alive(p)' => Right(p)'
      BY <1>3, <2>1, ServiceRight
  <2> QED BY <1>3, <2>2 DEF ParamInv, Loading
<1>4. ASSUME UNCHANGED proc, pc # "load", pc' # "load",
             \A m \in Modules :
                /\ running_modules'[m].module_params = running_modules[m].module_params
                /\ running_modules[m].module_running => running_modules'[m].module_running
                /\ running_modules'[m].module_enabled =>
                      running_modules[m].module_enabled \/ pc \in {"idle", "reload"}
      PROVE  ParamInv'
  <2>1. ASSUME NEW p \in Pids, Alive(p)'
        PROVE  Right(p)'
    <3>1. Right(p)
        BY <1>1, <1>4, <2>1 DEF ParamInv, Alive
    <3> QED BY <1>1, <1>4, <2>1, <3>1, RightKept
  <2> QED BY <1>4, <2>1 DEF ParamInv
<1>5. CASE Command
  <2>1. ASSUME NEW c \in Configs, ReloadBegin(c)
        PROVE  ParamInv'
    <3>1. \A m \in Modules : running_modules'[m] = Reset(running_modules[m])
        BY <2>1 DEF ReloadBegin
    <3>2. proc' = proc /\ pc = "idle" /\ pc' = "reload"
        BY <2>1 DEF ReloadBegin, MayCommand
    <3> QED BY <1>1, <1>4, <3>1, <3>2, ResetRecords
  <2>2. CASE /\ pc = "idle" /\ UNCHANGED <<pc, proc>>
             /\ \A m \in Modules : KeepsSlot(running_modules[m], running_modules'[m])
      BY <1>4, <2>2 DEF KeepsSlot
  <2> QED BY <1>1, <1>5, <2>1, <2>2, CommandRecords
<1>6. CASE ReloadModule
  <2>1. /\ proc' = proc /\ pc' = pc /\ Loading /\ config' = config /\ y' = y + 1
      BY <1>6 DEF ReloadModule, Loading
  <2>2. CASE pc = "reload"
    <3>1. \A p \in Pids : Alive(p)' => Right(p)'
        BY <1>6, <2>1, <2>2, ReloadRight DEF Alive
    <3> QED BY <2>1, <2>2, <3>1 DEF ParamInv
  <2>3. CASE pc = "load"
    <3>1. ASSUME NEW i \in DOMAIN config'.modules, NEW p \in Pids,
                 p = config'.modules[i].module_pid, Alive(p)'
          PROVE  /\ \/ proc'[p].args = ElementParams(config'.modules[i])
                    \/ ~config'.modules[i].module_enabled
                    \/ config'.modules[i].name \in revived'
                 /\ i < y' => Right(p)'
      <4>1. Alive(p) /\ proc[p].state = "alive" /\ proc'[p] = proc[p]
          BY <2>1, <3>1 DEF Alive
      <4> QED BY <1>6, <2>1, <2>3, <3>1, <4>1, FitsKept, LoadRight
    <3>2. (pc = "load" => \A i \in DOMAIN config.modules :
             LET e == config.modules[i]
             IN  e.module_pid \in Pids /\ Alive(e.module_pid) =>
                    /\ Fits(e, e.module_pid)
                    /\ i < y => Right(e.module_pid))'
        BY <3>1 DEF Fits, Alive, Right, Good, SlotOf, ElementParams
    <3> QED BY <2>1, <2>3, <3>2 DEF ParamInv
  <2> QED BY <2>1, <2>2, <2>3 DEF Loading
<1>7. CASE ReloadEnd
  <2>1. /\ proc' = proc /\ pc' = "idle" /\ Loading /\ y > Len(config.modules) /\ y \in Nat
      BY <1>1, <1>7 DEF ReloadEnd, Loading, TypeOK
  <2>2. ASSUME NEW m \in Modules
        PROVE  /\ running_modules'[m].module_params = running_modules[m].module_params
               /\ running_modules'[m].module_running = running_modules[m].module_running
               /\ running_modules'[m].module_enabled => running_modules[m].module_enabled
    <3> DEFINE r == running_modules[m]
    <3>1. \/ running_modules'[m] = r
          \/ running_modules'[m] = [r EXCEPT !.served = FALSE]
          \/ running_modules'[m] = [r EXCEPT !.served = FALSE, !.module_enabled = FALSE,
                                             !.remove_module = TRUE]
        BY <1>7 DEF ReloadEnd
    <3>2. r \in ModuleRecord
        BY <1>1
    <3> HIDE DEF r
    <3>3. /\ running_modules'[m].module_params = r.module_params
          /\ running_modules'[m].module_running = r.module_running
          /\ running_modules'[m].module_enabled => r.module_enabled
        BY <3>1, <3>2 DEF ModuleRecord
    <3> QED BY <3>3 DEF r
  <2>3. ASSUME NEW p \in Pids, Alive(p)
        PROVE  Right(p)
    <3>1. CASE pc = "reload"
        BY <1>1, <2>3, <3>1 DEF ParamInv
    <3>2. CASE pc = "load"
      <4>1. PICK i \in DOMAIN config.modules : config.modules[i].module_pid = p
          BY <1>1, <2>3, <3>2 DEF IInv, LoadInv, InUse, Alive
      <4>2. i < y
          BY <1>1, <2>1, ElementFacts
      <4> QED BY <1>1, <2>3, <3>2, <4>1, <4>2 DEF ParamInv
    <3> QED BY <2>1, <3>1, <3>2 DEF Loading
  <2>4. ASSUME NEW p \in Pids, Alive(p)'
        PROVE  Right(p)'
    <3>1. Right(p)
        BY <2>1, <2>3, <2>4 DEF Alive
    <3> QED BY <1>1, <2>1, <2>2, <2>4, <3>1, RightKept
  <2> QED BY <2>1, <2>4 DEF ParamInv
<1>8. ASSUME UNCHANGED <<pc, y, running_modules, config>>,
             \A p \in Pids : proc'[p].state = "alive" => proc'[p] = proc[p]
      PROVE  ParamInv'
  <2>1. ASSUME pc # "load", NEW p \in Pids, Alive(p)'
        PROVE  Right(p)'
    <3>1. proc'[p] = proc[p] /\ Right(p)
        BY <1>1, <1>8, <2>1 DEF ParamInv, Alive
    <3> QED BY <1>1, <1>8, <2>1, <3>1, RightKept
  <2>2. ASSUME pc = "load", NEW i \in DOMAIN config'.modules, NEW p \in Pids,
               p = config'.modules[i].module_pid, Alive(p)'
        PROVE  /\ \/ proc'[p].args = ElementParams(config'.modules[i])
                  \/ ~config'.modules[i].module_enabled
                  \/ config'.modules[i].name \in revived'
               /\ i < y' => Right(p)'
    <3>1. proc[p].state = "alive" /\ proc'[p] = proc[p]
        BY <1>8, <2>2 DEF Alive
    <3>2. LET e == config.modules[i]
          IN  /\ \/ proc'[p].args = ElementParams(e)
                 \/ ~e.module_enabled \/ e.name \in revived'
              /\ i < y => Right(p)
        BY <1>8, <2>2, <3>1, FitsKept
    <3>3. ASSUME Right(p) PROVE Right(p)'
        BY <1>1, <1>8, <2>2, <3>1, <3>3, RightKept
    <3> QED BY <1>8, <3>2, <3>3
  <2>3. (pc = "load" => \A i \in DOMAIN config.modules :
           LET e == config.modules[i]
           IN  e.module_pid \in Pids /\ Alive(e.module_pid) =>
                  /\ Fits(e, e.module_pid)
                  /\ i < y => Right(e.module_pid))'
      BY <1>8, <2>2 DEF Fits, Alive, Right, Good, SlotOf, ElementParams
  <2> QED BY <1>8, <2>1, <2>3 DEF ParamInv
<1>9. ASSUME NEW p \in Pids, Exit(p)
      PROVE  ParamInv'
  <2>1. proc'[p].state # "alive" /\ \A q \in Pids : q # p => proc'[q] = proc[q]
      BY <1>1, <1>9, ProcessFacts DEF Exit, TypeOK
  <2> QED BY <1>8, <1>9, <2>1 DEF Exit, tables
<1>10. CASE Ordinary
    BY <1>3, <1>5, <1>6, <1>7, <1>9, <1>10, ServiceFrame DEF Ordinary, Next, Reload
<1>11. CASE Unseen
    BY <1>1, <1>8, <1>11, UnseenFacts
<1>12. CASE CheckAndLeave
    BY <1>3, <1>12 DEF CheckAndLeave, Loading
<1>13. CASE interactive_stop_configuration
    BY <1>1, <1>4, <1>13, StopRecords DEF KeepsSlot
<1>14. CASE Finish \/ Sigterm \/ Leave
    BY <1>8, <1>14 DEF Finish, Sigterm, Leave, vars
<1>15. CASE NextSupervisor
  <2>1. /\ pc' = "load" /\ y' = 1
        /\ Len(config'.modules) \in Nat /\ DOMAIN config'.modules = 1..Len(config'.modules)
        /\ config' \in Configuration
      BY <1>1, <1>15, NextStart, LenProperties DEF NextSupervisor, Configuration
  <2>2. \A i \in DOMAIN config'.modules : ~(i < y')
      BY <2>1
  <2>3. ASSUME NEW i \in DOMAIN config'.modules, NEW p \in Pids,
               p = config'.modules[i].module_pid, Alive(p)'
        PROVE  \/ proc'[p].args = ElementParams(config'.modules[i])
               \/ ~config'.modules[i].module_enabled
               \/ config'.modules[i].name \in revived'
    <3> DEFINE e == config'.modules[i]
    <3>1. Fits(e, p) /\ proc'[p].mod = e.name /\ proc'[p].args = proc[p].args
        BY <1>15, <2>3, FoundProcesses DEF Alive
    <3>2. e.name \in Modules
      <4>1. config'.modules \in Seq(ModuleElement)
          BY <2>1 DEF Configuration
      <4>2. e \in ModuleElement
          BY <2>1, <4>1, ElementOfSeq
      <4> QED BY <4>2 DEF ModuleElement
    <3> HIDE DEF e
    <3>3. e.name \in revived => e.name \in revived'
        BY <2>3, <3>1, <3>2, Remembered
    <3>4. proc'[p].args = ElementParams(e) \/ ~e.module_enabled \/ e.name \in revived'
        BY <3>1, <3>3 DEF Fits
    <3> QED BY <3>4 DEF e
  <2>4. (pc = "load" => \A i \in DOMAIN config.modules :
           LET e == config.modules[i]
           IN  e.module_pid \in Pids /\ Alive(e.module_pid) =>
                  /\ Fits(e, e.module_pid)
                  /\ i < y => Right(e.module_pid))'
      BY <2>2, <2>3 DEF Fits, Alive, ElementParams
  <2> QED BY <2>1, <2>4 DEF ParamInv
<1> QED BY <1>2, <1>10, <1>11, <1>12, <1>13, <1>14, <1>15, StepKinds

-----------------------------------------------------------------------------
(* The invariant of termination and the theorems. *)

(***************************************************************************)
(* The processes an earlier supervisor left run with the parameters of     *)
(* their elements.                                                         *)
(***************************************************************************)
LEMMA InheritedArgs ==
    ASSUME NEW c \in Configs, NEW pid \in [DOMAIN c.modules -> Pids \cup {NoPid}],
           NEW ended \in SUBSET DOMAIN c.modules,
           \A i, j \in DOMAIN pid : pid[i] = pid[j] => i = j \/ pid[i] = NoPid,
           NEW i \in DOMAIN c.modules, pid[i] \in Pids,
           Inherited(c, pid, ended)[pid[i]].state = "alive"
    PROVE  Inherited(c, pid, ended)[pid[i]].args = ElementParams(BackupOf(c, pid).modules[i])
<1> DEFINE e == c.modules[i]
           q == ProcessOf(e.name, ElementParams(e), FALSE)
           k == CHOOSE j \in DOMAIN pid : pid[j] = pid[i]
<1>1. k \in DOMAIN pid /\ pid[k] = pid[i]
    OBVIOUS
<1>2. k = i
    BY <1>1, SupervisorAssumption
<1>3. Inherited(c, pid, ended)[pid[i]] = IF k \in ended
         THEN Ended(ProcessOf(c.modules[k].name, ElementParams(c.modules[k]), FALSE))
         ELSE ProcessOf(c.modules[k].name, ElementParams(c.modules[k]), FALSE)
    BY DEF Inherited
<1> HIDE DEF k
<1>4. Inherited(c, pid, ended)[pid[i]] \in {Ended(q), q}
    BY <1>2, <1>3
<1>5. e \in ModuleElement /\ c \in Configuration
    BY ConfigsAssumption, ElementOfSeq DEF Configuration
<1>6. e.name \in Modules /\ ElementParams(e) \in Params \cup {NoParams}
    BY <1>5, SupervisorAssumption DEF ModuleElement, ElementParams
<1>7. Ended(q).state # "alive" /\ q.args = ElementParams(e)
  <2>1. q \in Process
      BY <1>6, ProcessFacts
  <2>2. q.args = ElementParams(e)
      BY DEF ProcessOf
  <2> HIDE DEF q
  <2> QED BY <2>1, <2>2, ProcessFacts
<1>8. BackupOf(c, pid).modules[i] = [e EXCEPT !.max_restarts = -1, !.module_pid = pid[i]]
    BY <1>5 DEF BackupOf, Configuration
<1>9. ElementParams(BackupOf(c, pid).modules[i]) = ElementParams(e)
    BY <1>5, <1>8 DEF ElementParams, ModuleElement
<1> HIDE DEF q, e
<1> QED BY <1>4, <1>7, <1>9

(***************************************************************************)
(* The first supervisor.                                                   *)
(***************************************************************************)
LEMMA TermInit == ShutdownInit => TermInv
<1> SUFFICES ASSUME ShutdownInit PROVE TermInv
    OBVIOUS
<1>1. /\ IInv /\ BaseInv /\ TypeOK
      /\ pc = "load" /\ y = 1 /\ slots = <<>> /\ phase = "up"
      /\ running_modules = [m \in Modules |-> EmptySlot]
      /\ backup = NoBackup
    BY BaseInit, InitInv DEF ShutdownInit, Init, StartsWith, BaseInv
<1>2. PhaseInv /\ EndedInv /\ BackupInv
    BY <1>1 DEF PhaseInv, EndedInv, BackupInv
<1>3. ProfileInv
    BY <1>1, SlotRecords DEF ProfileInv, Loading, Loaded
<1>4. \A i \in DOMAIN config.modules : ~(i < y)
    BY <1>1, ElementFacts
<1>5. \A i \in DOMAIN config.modules :
         LET e == config.modules[i]
         IN  e.module_pid \in Pids /\ Alive(e.module_pid) =>
                proc[e.module_pid].args = ElementParams(e)
  <2>1. ASSUME NEW c \in Configs, StartsWith(c)
        PROVE  \A i \in DOMAIN config.modules : config.modules[i].module_pid \notin Pids
      BY <2>1, ConfigsAssumption, SupervisorAssumption DEF StartsWith
  <2>2. ASSUME NEW c \in Configs, NEW pid \in [DOMAIN c.modules -> Pids \cup {NoPid}],
               NEW ended \in SUBSET DOMAIN c.modules,
               \A i, j \in DOMAIN pid : pid[i] = pid[j] => i = j \/ pid[i] = NoPid,
               StartsWith(BackupOf(c, pid)), proc = Inherited(c, pid, ended),
               NEW i \in DOMAIN config.modules, config.modules[i].module_pid \in Pids,
               Alive(config.modules[i].module_pid)
        PROVE  proc[config.modules[i].module_pid].args = ElementParams(config.modules[i])
    <3>1. config = BackupOf(c, pid)
        BY <2>2 DEF StartsWith
    <3>2. i \in DOMAIN c.modules /\ config.modules[i].module_pid = pid[i]
        BY <3>1, BackupFacts
    <3>3. Inherited(c, pid, ended)[pid[i]].state = "alive" /\ pid[i] \in Pids
        BY <2>2, <3>2 DEF Alive
    <3>4. Inherited(c, pid, ended)[pid[i]].args = ElementParams(BackupOf(c, pid).modules[i])
        BY <2>2, <3>2, <3>3, InheritedArgs
    <3> QED BY <2>2, <3>1, <3>2, <3>4
  <2> QED BY <2>1, <2>2 DEF ShutdownInit, Init, Inherited
<1>6. ParamInv
    BY <1>1, <1>4, <1>5 DEF ParamInv, Fits
<1> QED BY <1>1, <1>2, <1>3, <1>6 DEF TermInv

(***************************************************************************)
(* Every step.                                                             *)
(***************************************************************************)
LEMMA TermNext == TermInv /\ [ShutdownNext]_allvars => TermInv'
<1> SUFFICES ASSUME TermInv, [ShutdownNext]_allvars PROVE TermInv'
    OBVIOUS
<1>1. BaseInv' /\ PhaseInv'
    BY BaseNext, PhaseStep DEF TermInv
<1> QED BY <1>1, TermIInv, EndedStep, BackupStep, ProfileStep, ParamStep DEF TermInv

(***************************************************************************)
(* Whatever runs when a supervisor is over is in the backup file, whenever *)
(* the signal came, but the processes of modules being removed: those are  *)
(* the only ones the next supervisor does not find.                        *)
(***************************************************************************)
THEOREM RunningBackedUp == ShutdownSpec => []RunningAreBackedUp
<1>1. TermInv => RunningAreBackedUp
    BY OverFacts DEF RunningAreBackedUp, InUse, Alive
<1> QED BY <1>1, TermInit, TermNext, PTL DEF ShutdownSpec

(***************************************************************************)
(* The service thread leaves after a SIGTERM only when no process that it  *)
(* may signal is left, and none is started after that: also when the       *)
(* signal came during a command, a reload or a pending restart.            *)
(***************************************************************************)
THEOREM SigtermStops == ShutdownSpec => []SigtermLeavesNone
<1>1. TermInv => SigtermLeavesNone
    BY DEF TermInv, PhaseInv, EndedInv, SigtermLeavesNone
<1> QED BY <1>1, TermInit, TermNext, PTL DEF ShutdownSpec

(***************************************************************************)
(* A module that is enabled runs with the parameters of its slot, whether  *)
(* this supervisor started it or found it running; the only exception is a *)
(* module that was switched on again before its old process had ended.     *)
(***************************************************************************)
THEOREM ParamsLoaded == ShutdownSpec => []RunsLoadedParams
<1>1. ASSUME TermInv PROVE RunsLoadedParams
  <2>1. \A p \in Pids : Alive(p) /\ pc # "load" => Right(p)
      BY <1>1 DEF TermInv, ParamInv
  <2> QED BY <2>1 DEF Right, Good, SlotOf, RunsLoadedParams
<1> QED BY <1>1, TermInit, TermNext, PTL DEF ShutdownSpec

(***************************************************************************)
(* The service thread's promises survive a change of supervisors: a        *)
(* process is recorded as long as it has a supervisor, signals hit their   *)
(* module, and SIGINT comes first.  A process that no supervisor knows of  *)
(* any more is none of these properties' processes: RunningBackedUp says   *)
(* which those are.                                                        *)
(***************************************************************************)
THEOREM ProcessesKept ==
    ShutdownSpec => [](EveryProcessRecorded /\ SignalsHitOwnModule /\ AskedBeforeForced)
<1>1. TermInv => EveryProcessRecorded /\ SignalsHitOwnModule /\ AskedBeforeForced
    BY SignalsOwn DEF TermInv, IInv
<1> QED BY <1>1, TermInit, TermNext, PTL DEF ShutdownSpec

\* The modules that were being removed when the supervisor ended.
BeingRemoved == {m \in Modules : running_modules[m].remove_module}

(***************************************************************************)
(* The next supervisor finds every process at the stage it had reached,    *)
(* but those of modules that were being removed.                           *)
(***************************************************************************)
LEMMA FoundStages ==
    ASSUME TermInv, IInv', NextSupervisor
    PROVE  phase = "over" /\ Lifecycle!Abandon(BeingRemoved)
<1>1. /\ \A p \in Pids :
            proc'[p].state = "alive" <=> /\ proc[p].state = "alive"
                                         /\ proc[p].mod \notin BeingRemoved
      /\ \A p \in Pids : proc'[p].state = "alive" => /\ proc'[p].mod = proc[p].mod
                                                     /\ Mark(proc'[p]) = Mark(proc[p])
  <2>1. \A p \in Pids : proc[p].mod \in Modules
      BY DEF TermInv, IInv, TypeOK, Process
  <2> QED BY <2>1, FoundProcesses DEF Alive, Mark, BeingRemoved
<1>2. IInv
    BY DEF TermInv
<1>3. Single(proc) /\ Single(proc')
    BY <1>2, StepFacts
<1>4. ASSUME NEW m \in Modules
      PROVE  StageIn(proc', m) = IF m \in BeingRemoved THEN "down" ELSE StageIn(proc, m)
  <2>1. CASE m \in BeingRemoved
    <3>1. \A p \in Pids : ~(proc'[p].state = "alive" /\ proc'[p].mod = m)
        BY <1>1, <2>1
    <3> QED BY <1>3, <2>1, <3>1, StageFacts
  <2>2. ASSUME m \notin BeingRemoved,
               NEW p \in Pids, proc[p].state = "alive", proc[p].mod = m
        PROVE  StageIn(proc', m) = StageIn(proc, m)
    <3>1. StageIn(proc, m) = Mark(proc[p])
        BY <1>3, <2>2, StageFacts
    <3>2. StageIn(proc', m) = Mark(proc'[p])
        BY <1>1, <1>3, <2>2, StageFacts
    <3> QED BY <1>1, <2>2, <3>1, <3>2
  <2>3. ASSUME m \notin BeingRemoved,
               \A p \in Pids : ~(proc[p].state = "alive" /\ proc[p].mod = m)
        PROVE  StageIn(proc', m) = StageIn(proc, m)
    <3>1. StageIn(proc, m) = "down"
        BY <1>3, <2>3, StageFacts
    <3>2. StageIn(proc', m) = "down"
        BY <1>1, <1>3, <2>3, StageFacts
    <3> QED BY <3>1, <3>2
  <2> QED BY <2>1, <2>2, <2>3
<1>5. /\ Stage = [m \in Modules |-> StageIn(proc, m)]
      /\ Stage' = [m \in Modules |-> StageIn(proc', m)]
    BY <1>2, StepFacts
<1>6. Stage' = [m \in Modules |-> IF m \in BeingRemoved THEN "down" ELSE Stage[m]]
    BY <1>4, <1>5
<1>7. phase = "over"
    BY DEF NextSupervisor
<1> QED BY <1>6, <1>7 DEF Lifecycle!Abandon

(***************************************************************************)
(* Every step is one of the abstract specification, changes no stage, or   *)
(* is the loss of processes between two supervisors.                       *)
(***************************************************************************)
LEMMA ShutdownSim ==
    ASSUME TermInv, [ShutdownNext]_allvars
    PROVE  [\/ Lifecycle!Next
            \/ phase = "over" /\ Lifecycle!Abandon(BeingRemoved)]_Stage
<1>1. IInv /\ IInv' /\ TypeOK
    BY TermIInv DEF TermInv, IInv
<1>2. CASE Ordinary
    BY <1>1, <1>2, StepSim DEF Ordinary
<1>3. CASE CheckAndLeave
  <2>1. \A p \in Pids : proc[p].state = "alive" \/ proc'[p].state = "alive"
                            => proc'[p] = proc[p]
      BY <1>3, ProcessFacts DEF CheckAndLeave, service_check_modules_status
  <2> QED BY <1>1, <2>1, SameStages
<1>4. CASE interactive_stop_configuration \/ Finish \/ Sigterm \/ Leave \/ UNCHANGED allvars
  <2>1. proc' = proc
      BY <1>4 DEF interactive_stop_configuration, Finish, Sigterm, Leave, allvars, vars
  <2> QED BY <1>1, <2>1, SameStages
<1>5. CASE Unseen
  <2>1. \A p \in Pids : proc[p].state = "alive" \/ proc'[p].state = "alive"
                            => proc'[p] = proc[p]
      BY <1>1, <1>5, UnseenFacts
  <2> QED BY <1>1, <2>1, SameStages
<1>6. CASE NextSupervisor
    BY <1>1, <1>6, FoundStages
<1> QED BY <1>2, <1>3, <1>4, <1>5, <1>6, StepKinds

(***************************************************************************)
(* The refinement across supervisors: a module has one process at a time,  *)
(* which is asked before it is killed, also when one supervisor asks it    *)
(* and the next one finds it running; a process is lost only between two   *)
(* supervisors, and only if its module was being removed.                  *)
(***************************************************************************)
THEOREM ShutdownRefinement == ShutdownSpec => KeepsLifecycle
<1>1. TermInv /\ [ShutdownNext]_allvars =>
         [\/ Lifecycle!Next
          \/ phase = "over" /\ Lifecycle!Abandon(BeingRemoved)]_Stage
    BY ShutdownSim
<1>2. ShutdownInit => Lifecycle!Init
    BY InitSim DEF ShutdownInit
<1> QED BY <1>1, <1>2, TermInit, TermNext, PTL
        DEF ShutdownSpec, KeepsLifecycle, BeingRemoved
=============================================================================
