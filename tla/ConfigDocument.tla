--------------------------- MODULE ConfigDocument ---------------------------
(***************************************************************************)
(* The reload of the configuration seen from the document: generation,     *)
(* validation, the apply phase down to the interfaces of a module, and the *)
(* backup document with which a supervisor hands its configuration over to *)
(* the next one.                                                           *)
(*                                                                         *)
(* The table has what the document decides; what the service thread does   *)
(* with it in the meantime is Supervisor's business and is reduced to four *)
(* steps here.  The growth of the table is Supervisor's, too.              *)
(***************************************************************************)
EXTENDS ConfigGenerator, Integers, SequencesExt

CONSTANTS NULL,                    \* a missing string or document
          MAX_MODULE_RESTARTS_NUM, \* 30
          DefaultRestarts,         \* DEFAULT_MODULE_RESTARTS_NUM (3)
          IfcesStart,              \* IFCES_ARRAY_START_SIZE (5)
          Callbacks                \* documents given by the NETCONF server

\* A document is a tree: there are modules below a group of them, elements such
\* as trapinterfaces below a module, and interfaces below that.
IsTree(e) == e.kids \in Seq(Nodes(e.kids))

IsModule(e) ==
    /\ IsTree(e)
    /\ \A t \in Nodes(e.kids) : IsTree(t) /\ \A k \in Nodes(t.kids) : IsTree(k)
    /\ e.tag = "module" => e.val \in {NULL, TRUE, FALSE}

IsGroup(g) == IsTree(g) /\ \A e \in Nodes(g.kids) : IsModule(e)

IsDocument(root) == IsTree(root) /\ \A g \in Nodes(root.kids) : IsGroup(g)

ASSUME DocumentAssumption ==
    /\ IfcesStart \in Nat \ {0, 1}
    /\ MAX_MODULE_RESTARTS_NUM \in Nat /\ DefaultRestarts \in Nat
    /\ NULL \notin BOOLEAN /\ NULL \notin {"true", "false"}
    /\ \A root \in Callbacks : root # NULL => IsDocument(root)
    /\ \A t \in Templates : \A i \in DOMAIN t : \A g \in LineNodes(t[i]) : IsGroup(g)

VARIABLES up,               \* is there a supervisor?
          init_load,        \* is the reload in hand the one of the start?
          running_modules,  \* the loaded modules, in array order
          profiles,         \* the list at first_profile_ptr
          restarts_config,  \* module_restarts_num_config
          backup,           \* the document in the backup file, or NULL
          loaded,           \* history: the document loaded last, or NULL
          before            \* history: the table when a supervisor stopped

docvars == <<up, init_load, running_modules, profiles, restarts_config, backup,
             loaded, before>>

allvars == <<genvars, docvars>>

-----------------------------------------------------------------------------
(* Documents.  A node has a tag, a text (NULL when there is none) and      *)
(* children.  White space between elements is a node "text".  The text of  *)
(* a "module" node is its module_pid attribute, which only the elements of *)
(* a backup have; TRUE stands for the identifier of a process.             *)

Leaf(tag, val) == [tag |-> tag, val |-> val, kids |-> <<>>]

Element(tag, kids) == [tag |-> tag, val |-> NULL, kids |-> kids]

Blank == Leaf("text", NULL)

\* The places of the children with that tag.
Places(e, tag) == {i \in DOMAIN e.kids : e.kids[i].tag = tag}

Children(e, tag) == {e.kids[i] : i \in Places(e, tag)}

Has(e, tag) == Places(e, tag) # {}

Single(e, tag) == \A i, j \in Places(e, tag) : i = j

\* The (first) child with that tag.
Child(e, tag) == e.kids[Min(Places(e, tag))]

\* Its value, `old' if there is none.
ValueOf(e, tag, old) == IF Has(e, tag) THEN Child(e, tag).val ELSE old

Name(e) == ValueOf(e, "name", NULL)

-----------------------------------------------------------------------------
(* Validation. *)

\* No other elements than these, and each of those in `once' at most once.
Structure(e, tags, once) ==
    /\ \A k \in Range(e.kids) : k.tag \in tags \cup {"text", "comment"}
    /\ \A t \in once : Single(e, t)

Mandatory(e, tags) == \A t \in tags : ValueOf(e, t, NULL) # NULL

\* If the element is there, it has one of these values.
OneOf(e, tag, values) == \A k \in Children(e, tag) : k.val \in values

Restarts == 0..MAX_MODULE_RESTARTS_NUM

reload_check_supervisor_element(e) ==
    /\ Structure(e, {"module-restarts"}, {"module-restarts"})
    /\ OneOf(e, "module-restarts", Restarts)

IfcAttributes == {"note", "type", "direction", "params"}

IfcTypes == {"TCP", "UNIXSOCKET", "FILE", "BLACKHOLE", "TLS"}

IfcDirections == {"IN", "OUT"}

reload_check_interface_element(e) ==
    /\ Structure(e, IfcAttributes, IfcAttributes)
    /\ Has(e, "note") => Mandatory(e, {"note"})
    /\ OneOf(e, "type", IfcTypes)
    /\ OneOf(e, "direction", IfcDirections)

ModuleChildren ==
    {"name", "path", "enabled", "params", "trapinterfaces", "module-restarts"}

\* Mutant: a module without a path is accepted.
CheckedWithoutPath(e) ==
    /\ Structure(e, ModuleChildren, ModuleChildren)
    /\ Mandatory(e, {"name", "enabled"})
    /\ OneOf(e, "enabled", {"true", "false"})
    /\ OneOf(e, "module-restarts", Restarts)

reload_check_module_element(e) ==
    /\ Structure(e, ModuleChildren, ModuleChildren)
    /\ Mandatory(e, {"name", "path", "enabled"})
    /\ OneOf(e, "enabled", {"true", "false"})
    /\ OneOf(e, "module-restarts", Restarts)

reload_check_modules_element(e) ==
    /\ Structure(e, {"name", "enabled", "module"}, {"name", "enabled"})
    /\ Mandatory(e, {"name", "enabled"})
    /\ OneOf(e, "enabled", {"true", "false"})

\* The elements of the modules.
ModuleElements(root) == UNION {Children(g, "module") : g \in Children(root, "modules")}

\* The list first_profile_name.
UniqueProfiles(root) ==
    \A i, k \in Places(root, "modules") : Name(root.kids[i]) = Name(root.kids[k]) => i = k

\* The list first_module_name, for all groups together.
UniqueModules(root) ==
    \A i, k \in Places(root, "modules") :
    \A j \in Places(root.kids[i], "module"), l \in Places(root.kids[k], "module") :
        Name(root.kids[i].kids[j]) = Name(root.kids[k].kids[l]) => i = k /\ j = l

check_trapinterfaces(e) ==
    /\ Structure(e, {"interface"}, {})
    /\ \A k \in Children(e, "interface") :
          k.kids # <<>> /\ reload_check_interface_element(k)

validate_configuration(root) ==
    /\ root # NULL /\ root.tag = "nemea-supervisor" /\ root.kids # <<>>
    /\ Structure(root, {"supervisor", "modules"}, {"supervisor"})
    /\ \A s \in Children(root, "supervisor") :
          s.kids # <<>> /\ reload_check_supervisor_element(s)
    /\ \A g \in Children(root, "modules") :
          g.kids # <<>> /\ reload_check_modules_element(g)
    /\ \A m \in ModuleElements(root) :
          /\ m.kids # <<>> /\ reload_check_module_element(m)
          /\ \A t \in Children(m, "trapinterfaces") : check_trapinterfaces(t)
    /\ UniqueProfiles(root) /\ UniqueModules(root)

-----------------------------------------------------------------------------
(* The apply phase.  The state it works on is a record of running_modules  *)
(* (modules), the profiles and module_restarts_num_config (restarts).      *)

NoIfc == [a \in IfcAttributes |-> NULL]

\* The slot of a module that is inserted.  Its array of interfaces, allocated
\* with the slot or by the first interface, has IfcesStart zeroed entries.
FreshSlot(name) ==
    [name |-> name, path |-> NULL, params |-> NULL, enabled |-> FALSE,
     max_restarts |-> -1, profile |-> NULL,
     ifces |-> [i \in 1..IfcesStart |-> NoIfc], ifces_cnt |-> 0,
     checked |-> FALSE, modified |-> FALSE, running |-> FALSE, pid |-> FALSE,
     init_module |-> FALSE, remove_module |-> FALSE]

\* The loop over the table before a document is applied.
Reset(s) ==
    [s EXCEPT !.checked = FALSE, !.modified = FALSE, !.profile = NULL,
              !.max_restarts = -1, !.init_module = FALSE, !.remove_module = FALSE]

reload_process_supervisor_element(e, old) ==
    IF Has(e, "module-restarts") /\ ValueOf(e, "module-restarts", NULL) \in Restarts
    THEN ValueOf(e, "module-restarts", NULL) ELSE old

\* Mutant: the array of interfaces does not grow.
AllocatedOnce(ifces, ifc_cnt) == ifces

\* ifc_cnt interfaces are in use and one more is wanted: the array grows by
\* half when it is full.
reload_check_module_allocated_interfaces(ifces, ifc_cnt) ==
    IF ifc_cnt # Len(ifces) THEN ifces
    ELSE [i \in 1..(ifc_cnt + ifc_cnt \div 2) |-> IF i <= ifc_cnt THEN ifces[i] ELSE NoIfc]

free_module_interfaces_on_index(s) ==
    [i \in DOMAIN s.ifces |-> IF i <= s.ifces_cnt THEN NoIfc ELSE s.ifces[i]]

\* The attributes the element has; the others stay what they are.
reload_process_module_interface_atribute(e, old) ==
    [a \in IfcAttributes |-> ValueOf(e, a, old[a])]

\* One more entry of the array is used.
InsertInterface(acc, e) ==
    [cnt |-> acc.cnt + 1,
     ifces |-> [reload_check_module_allocated_interfaces(acc.ifces, acc.cnt)
                   EXCEPT ![acc.cnt + 1] = reload_process_module_interface_atribute(e, @)]]

\* The interface elements among these nodes, from the one at `first' on.
InsertInterfaces(nodes, first, ifces) ==
    LET insert[i \in 0..Len(nodes)] ==
            IF i = 0 THEN [cnt |-> 0, ifces |-> ifces]
            ELSE IF i < first \/ nodes[i].tag # "interface" THEN insert[i - 1]
            ELSE InsertInterface(insert[i - 1], nodes[i])
    IN  insert[Len(nodes)]

\* The interfaces among the first i nodes.
InterfacesUpTo(nodes, i) == Cardinality({j \in 1..i : nodes[j].tag = "interface"})

\* Some attribute the element has differs from the one in the table.
InterfaceDiffers(e, ifc) ==
    \E a \in IfcAttributes : ValueOf(e, a, ifc[a]) # ifc[a]

\* Mutant: the loop goes on one node too far.
AfterLongRewind == 3

\* Where the loop over the interfaces goes on when it is started again: ifc_elem
\* is set to the first child, and the next one is the one after it.
AfterRewind == 2

\* The element has as many interfaces as the table, with these attributes.
SameInterfaces(nodes, s) ==
    /\ InterfacesUpTo(nodes, Len(nodes)) = s.ifces_cnt
    /\ \A i \in DOMAIN nodes :
          nodes[i].tag = "interface" =>
              ~InterfaceDiffers(nodes[i], s.ifces[InterfacesUpTo(nodes, i)])

\* Interfaces that differ in number are freed before the loop, others where
\* the first difference is met.
UpdateInterfaces(nodes, s) ==
    LET cnt == InterfacesUpTo(nodes, Len(nodes))
        new == InsertInterfaces(nodes, IF cnt # s.ifces_cnt THEN 1 ELSE AfterRewind,
                                free_module_interfaces_on_index(s))
    IN  IF SameInterfaces(nodes, s) THEN s
        ELSE [s EXCEPT !.ifces = new.ifces, !.ifces_cnt = new.cnt, !.modified = TRUE]

\* Without a trapinterfaces element a module loses its interfaces.
ProcessInterfaces(e, s, new_module) ==
    IF ~Has(e, "trapinterfaces")
    THEN IF s.ifces_cnt = 0 THEN s
         ELSE [s EXCEPT !.ifces = free_module_interfaces_on_index(s),
                        !.ifces_cnt = 0, !.modified = TRUE]
    ELSE LET nodes == Child(e, "trapinterfaces").kids
             new == InsertInterfaces(nodes, 1, s.ifces)
         IN  IF new_module
             THEN [s EXCEPT !.ifces = new.ifces, !.ifces_cnt = new.cnt]
             ELSE UpdateInterfaces(nodes, s)

\* path and params: a value the element has replaces the one in the table.
reload_process_module_atribute(e, s, new_module) ==
    [s EXCEPT !.path = ValueOf(e, "path", @), !.params = ValueOf(e, "params", @),
              !.modified = @ \/ /\ ~new_module
                                /\ \/ ValueOf(e, "path", s.path) # s.path
                                   \/ ValueOf(e, "params", s.params) # s.params]

ProcessModule(e, s, new_module, profile, init) ==
    LET t == ProcessInterfaces(e, reload_process_module_atribute(e, s, new_module),
                               new_module)
    IN  [t EXCEPT !.checked = TRUE,
                  !.profile = profile,
                  !.pid = IF init /\ e.val # NULL THEN e.val ELSE @,
                  !.enabled = ValueOf(e, "enabled", "false") = "true",
                  !.max_restarts = ValueOf(e, "module-restarts", @)]

\* find_loaded_module; Len + 1 where a new module goes.
IndexOf(modules, name) ==
    IF \E i \in DOMAIN modules : modules[i].name = name
    THEN CHOOSE i \in DOMAIN modules : modules[i].name = name
    ELSE Len(modules) + 1

\* A new module goes behind the last.
PutAt(modules, k, s) ==
    [i \in (DOMAIN modules) \cup {k} |-> IF i = k THEN s ELSE modules[i]]

\* One name, not met before in this reload, one path, at most one element with
\* interfaces.
BasicElements(e, modules) ==
    /\ Single(e, "name") /\ Single(e, "path") /\ Single(e, "trapinterfaces")
    /\ Mandatory(e, {"name", "path"})
    /\ LET i == IndexOf(modules, Name(e))
       IN  i \in DOMAIN modules => ~modules[i].checked

Childless(node) == node.kids = <<>> /\ node.val = NULL

\* The first node from i on, in steps of two, that is a module with its basic
\* elements; 0 if the search ends at the last node or at one without children.
reload_find_and_check_module_basic_elements(nodes, i, modules) ==
    LET ends == {j \in i..Len(nodes) :
                    /\ (j - i) % 2 = 0
                    /\ Childless(nodes[j]) \/ BasicElements(nodes[j], modules)}
    IN  IF ends = {} \/ Childless(nodes[Min(ends)]) THEN 0 ELSE Min(ends)

\* The element of a module is applied to its slot, or to a new one.
ApplyModule(e, modules, profile, init) ==
    LET k == IndexOf(modules, Name(e))
        new_module == k > Len(modules)
        s == IF new_module THEN FreshSlot(Name(e)) ELSE modules[k]
    IN  PutAt(modules, k, ProcessModule(e, s, new_module, profile, init))

\* The i-th child of the element; the search may pass over some (next), or end
\* the loop (next = 0).
ProcessChild(nodes, acc, i, profile, init) ==
    IF i < acc.next \/ acc.next = 0 THEN acc
    ELSE IF nodes[i].tag # "module" THEN [acc EXCEPT !.next = i + 1]
    ELSE LET j == reload_find_and_check_module_basic_elements(nodes, i, acc.modules)
         IN  IF j = 0 THEN [acc EXCEPT !.next = 0]
             ELSE [modules |-> ApplyModule(nodes[j], acc.modules, profile, init),
                   next |-> j + 1]

\* The children of a "modules" element from the first to the last.
ProcessModules(nodes, modules, profile, init) ==
    LET processed[i \in 0..Len(nodes)] ==
            IF i = 0 THEN [modules |-> modules, next |-> 1]
            ELSE ProcessChild(nodes, processed[i - 1], i, profile, init)
    IN  processed[Len(nodes)].modules

\* A profile with one name and one switch is put at the end of the list.
reload_find_and_check_modules_profile_basic_elements(g) ==
    IF /\ Single(g, "name") /\ Single(g, "enabled")
       /\ Mandatory(g, {"name", "enabled"})
    THEN <<[name |-> Name(g),
            enabled |-> ValueOf(g, "enabled", NULL) = "true"]>>
    ELSE <<>>

ProcessNode(acc, node, init) ==
    CASE node.tag = "supervisor" ->
            [acc EXCEPT !.restarts = reload_process_supervisor_element(node, @)]
      [] node.tag = "modules" ->
            LET p == reload_find_and_check_modules_profile_basic_elements(node)
            IN  [acc EXCEPT !.profiles = @ \o p,
                            !.modules = ProcessModules(node.kids, @,
                                IF p = <<>> THEN NULL ELSE p[1].name, init)]
      [] OTHER -> acc

\* The loops behind the document's: what it does not name is removed, what it
\* has changed is restarted, what the start found running is adopted.
Concluded(s, init) ==
    LET gone == ~s.checked
        stopped == s.modified /\ s.running
        restart == stopped /\ s.enabled /\ ~gone
    IN  [s EXCEPT !.remove_module = gone,
                  !.enabled = @ /\ ~gone /\ ~restart,
                  !.init_module = restart,
                  !.running = (@ /\ ~stopped) \/ (init /\ s.pid)]

\* The children of the root element from the first to the last.
ProcessDocument(root, init, start) ==
    LET processed[n \in 0..Len(root.kids)] ==
            IF n = 0 THEN start ELSE ProcessNode(processed[n - 1], root.kids[n], init)
    IN  processed[Len(root.kids)]

ApplyDocument(root, init) ==
    LET start == [modules |-> [i \in DOMAIN running_modules |-> Reset(running_modules[i])],
                  profiles |-> <<>>, restarts |-> restarts_config]
        end == ProcessDocument(root, init, start)
    IN  /\ running_modules' = [i \in DOMAIN end.modules |-> Concluded(end.modules[i], init)]
        /\ profiles' = end.profiles
        /\ restarts_config' = end.restarts
        /\ loaded' = root

\* reload_configuration from the point where the document is there.
LoadDocument(root, init) ==
    IF validate_configuration(root) THEN ApplyDocument(root, init)
    ELSE UNCHANGED <<running_modules, profiles, restarts_config, loaded>>

-----------------------------------------------------------------------------
(* The backup document. *)

\* xmlDocFormatDump puts white space before every child and behind the last.
Indented(kids) ==
    IF kids = <<>> THEN <<>>
    ELSE [i \in 1..(2 * Len(kids) + 1) |-> IF i % 2 = 0 THEN kids[i \div 2] ELSE Blank]

\* The elements of the sequence that are in the set, in its order.
Kept(seq, set) ==
    LET kept[i \in 0..Len(seq)] ==
            IF i = 0 THEN <<>>
            ELSE IF seq[i] \in set THEN Append(kept[i - 1], seq[i]) ELSE kept[i - 1]
    IN  kept[Len(seq)]

\* An element for every value that is not NULL, in this order of the tags.
GivenLeaves(tags, values) ==
    LET given == Kept(tags, {t \in DOMAIN values : values[t] # NULL})
    IN  [i \in DOMAIN given |-> Leaf(given[i], values[given[i]])]

Switch(on) == Leaf("enabled", IF on THEN "true" ELSE "false")

SavedInterface(ifc) ==
    Element("interface",
            Indented(GivenLeaves(<<"note", "params", "direction", "type">>, ifc)))

\* Mutant: the first interface is not written.
SavedWithoutFirst(s) ==
    [Element("module",
             Indented(GivenLeaves(<<"name", "path", "params">>, s)
                      \o <<Switch(s.enabled)>>
                      \o IF s.ifces_cnt < 2 THEN <<>>
                         ELSE <<Element("trapinterfaces", Indented(
                                  [i \in 1..(s.ifces_cnt - 1) |->
                                       SavedInterface(s.ifces[i + 1])]))>>))
     EXCEPT !.val = s.pid]

SavedModule(s) ==
    [Element("module",
             Indented(GivenLeaves(<<"name", "path", "params">>, s)
                      \o <<Switch(s.enabled)>>
                      \o IF s.ifces_cnt = 0 THEN <<>>
                         ELSE <<Element("trapinterfaces", Indented(
                                  [i \in 1..s.ifces_cnt |-> SavedInterface(s.ifces[i])]))>>))
     EXCEPT !.val = s.pid]

\* The modules of a profile below the profile; a module that is about to be
\* removed has none.  The limits of the restarts are not written.
SavedProfile(modules, p) ==
    LET mine == Kept(modules, {s \in Range(modules) : s.profile = p.name})
    IN  Element("modules",
                Indented(<<Leaf("name", p.name), Switch(p.enabled)>>
                         \o [i \in DOMAIN mine |-> SavedModule(mine[i])]))

generate_backup_config_file(modules, list) ==
    Element("nemea-supervisor",
            Indented([i \in DOMAIN list |-> SavedProfile(modules, list[i])]))

-----------------------------------------------------------------------------
(* The supervisor. *)

\* The table of a supervisor that has just been started.
NewTable ==
    running_modules = <<>> /\ profiles = <<>> /\ restarts_config = DefaultRestarts

DocInit ==
    /\ GenInit
    /\ up = FALSE /\ init_load = FALSE
    /\ NewTable
    /\ backup = NULL /\ loaded = NULL /\ before = <<>>

\* supervisor_initialization, with a backup file: it is removed as soon as it
\* is parsed.
StartFromBackup ==
    /\ ~up /\ backup # NULL
    /\ LoadDocument(backup, TRUE)
    /\ up' = TRUE /\ backup' = NULL /\ before' = <<>>
    /\ UNCHANGED <<genvars, init_load>>

\* RELOAD_INIT_LOAD_CONFIG without a backup, and RELOAD_DEFAULT_CONFIG_FILE:
\* the configuration file is generated.
BeginReload ==
    /\ up \/ backup = NULL
    /\ BeginGenerating
    /\ up' = TRUE /\ init_load' = ~up /\ before' = <<>>
    /\ UNCHANGED <<running_modules, profiles, restarts_config, backup, loaded>>

Generating ==
    generate_config_file /\ UNCHANGED docvars

\* The document that xmlParseFile makes of the generated file.
Generated == Element("nemea-supervisor", gener)

Parsed == gstate = "generated" /\ gener # Unparsable

\* A file that is not generated or not parsed ends the reload.
EndReload ==
    /\ EndGenerating
    /\ init_load' = FALSE
    /\ IF Parsed
       THEN LoadDocument(Generated, init_load)
       ELSE UNCHANGED <<running_modules, profiles, restarts_config, loaded>>
    /\ UNCHANGED <<up, backup, before>>

\* RELOAD_CALLBACK_ROOT_ELEM
ReloadNode(root) ==
    /\ up /\ gstate = "idle"
    /\ LoadDocument(root, FALSE)
    /\ UNCHANGED <<genvars, up, init_load, backup, before>>

\* supervisor_termination: without a request a backup is written only when a
\* module runs.
Stop ==
    /\ up /\ gstate = "idle"
    /\ \E generate_backup \in BOOLEAN :
          backup' = IF generate_backup \/ \E s \in Range(running_modules) : s.pid
                    THEN generate_backup_config_file(running_modules, profiles)
                    ELSE backup
    /\ up' = FALSE /\ before' = running_modules
    /\ running_modules' = <<>> /\ profiles' = <<>>
    /\ restarts_config' = DefaultRestarts
    /\ loaded' = NULL
    /\ UNCHANGED <<genvars, init_load>>

-----------------------------------------------------------------------------
(* The service thread, between two reloads. *)

Serve(i, s) ==
    /\ up /\ gstate = "idle"
    /\ running_modules' = [running_modules EXCEPT ![i] = s]
    /\ UNCHANGED <<genvars, up, init_load, profiles, restarts_config, backup,
                   loaded, before>>

ProfileOn(s) == \E p \in Range(profiles) : p.name = s.profile /\ p.enabled

StartModule(i) ==
    LET s == running_modules[i]
    IN  /\ s.enabled /\ ProfileOn(s) /\ ~s.pid
        /\ Serve(i, [s EXCEPT !.pid = TRUE, !.running = TRUE])

StopModule(i) ==
    LET s == running_modules[i]
    IN  /\ s.pid /\ ~(s.enabled /\ ProfileOn(s))
        /\ Serve(i, [s EXCEPT !.pid = FALSE])

RestartModule(i) ==
    LET s == running_modules[i]
    IN  /\ s.init_module /\ ~s.pid
        /\ Serve(i, [s EXCEPT !.enabled = TRUE, !.init_module = FALSE])

RemoveModule(i) ==
    /\ up /\ gstate = "idle"
    /\ running_modules[i].remove_module /\ ~running_modules[i].pid
    /\ running_modules' = RemoveAt(running_modules, i)
    /\ UNCHANGED <<genvars, up, init_load, profiles, restarts_config, backup,
                   loaded, before>>

DocNext ==
    \/ BeginReload \/ Generating \/ EndReload
    \/ \E root \in Callbacks : ReloadNode(root)
    \/ Stop \/ StartFromBackup
    \/ \E i \in DOMAIN running_modules :
          StartModule(i) \/ StopModule(i) \/ RestartModule(i) \/ RemoveModule(i)

DocSpec == DocInit /\ [][DocNext]_allvars

-----------------------------------------------------------------------------
(* Properties. *)

SlotOK(s) ==
    /\ s.max_restarts \in -1..MAX_MODULE_RESTARTS_NUM
    /\ s.ifces_cnt \in 0..Len(s.ifces)
    /\ \A i \in DOMAIN s.ifces :
          DOMAIN s.ifces[i] = IfcAttributes /\ (i > s.ifces_cnt => s.ifces[i] = NoIfc)
    /\ \A f \in {"enabled", "checked", "modified", "running", "pid",
                 "init_module", "remove_module"} : s[f] \in BOOLEAN

(***************************************************************************)
(* The type invariant: no module has more interfaces than its array of     *)
(* interfaces has room for, and the entries behind the last one are zeroed *)
(* and ready for use (reload_check_module_allocated_interfaces).           *)
(***************************************************************************)
DocTypeOK ==
    /\ up \in BOOLEAN /\ init_load \in BOOLEAN
    /\ restarts_config \in Nat
    /\ \A p \in Range(profiles) : p.enabled \in BOOLEAN
    /\ \A s \in Range(running_modules) : SlotOK(s)

\* The nodes among which the interfaces of a module are.
InterfaceNodes(e) ==
    IF Has(e, "trapinterfaces") THEN Child(e, "trapinterfaces").kids ELSE <<>>

\* An update that finds a difference starts the loop over the interfaces again
\* behind the first node: in this element it loses none of them.
LaidOutModule(e) ==
    InterfaceNodes(e) # <<>> => InterfaceNodes(e)[1].tag # "interface"

\* The slot has every value that the element gives.
SlotHas(s, e) ==
    /\ s.path = ValueOf(e, "path", s.path)
    /\ s.params = ValueOf(e, "params", s.params)
    /\ s.max_restarts = ValueOf(e, "module-restarts", -1)
    /\ (s.enabled \/ s.init_module) = (ValueOf(e, "enabled", NULL) = "true")
    /\ LaidOutModule(e) => SameInterfaces(InterfaceNodes(e), s)
    /\ ~s.remove_module

\* The interfaces are those of the element, with no attributes but its own.
OnlyInterfaces(nodes, s) ==
    /\ InterfacesUpTo(nodes, Len(nodes)) = s.ifces_cnt
    /\ \A i \in DOMAIN nodes :
          nodes[i].tag = "interface" =>
              \A a \in IfcAttributes :
                  s.ifces[InterfacesUpTo(nodes, i)][a] = ValueOf(nodes[i], a, NULL)

\* The slot has every value that the element gives and no other.
SlotIs(s, e) ==
    /\ SlotHas(s, e)
    /\ s.params = ValueOf(e, "params", NULL)
    /\ OnlyInterfaces(InterfaceNodes(e), s)

\* Every module of the document is in a slot below its profile.
EveryModule(root, In(_, _)) ==
    \A g \in Children(root, "modules") : \A e \in Children(g, "module") :
        \E i \in DOMAIN running_modules :
            /\ running_modules[i].name = Name(e)
            /\ running_modules[i].profile = Name(g)
            /\ In(running_modules[i], e)

(***************************************************************************)
(* The validated document is applied.  After a reload the table has one    *)
(* slot for every module of the document, below the right profile and with *)
(* every value that the document gives, what else it has is on its way     *)
(* out, and the common limit is the one given: in particular the apply     *)
(* phase skips no module of a document that the validation has accepted,   *)
(* in whatever layout.  Of a value that the document leaves out nothing is *)
(* said here, nor of the interfaces in an element that begins with one:    *)
(* see LoadsDocument.                                                      *)
(***************************************************************************)
LoadsGivenValues ==
    up /\ loaded # NULL =>
        /\ EveryModule(loaded, SlotHas)
        /\ \A i \in DOMAIN running_modules :
              \/ running_modules[i].remove_module
              \/ \E e \in ModuleElements(loaded) : running_modules[i].name = Name(e)
        /\ \A i, j \in DOMAIN running_modules :
              running_modules[i].name = running_modules[j].name => i = j
        /\ \A s \in Children(loaded, "supervisor") :
              restarts_config = ValueOf(s, "module-restarts", restarts_config)

(***************************************************************************)
(* README: "every value is compared and if there is a difference, the      *)
(* module is reloaded", "all changes are applied to the running            *)
(* configuration".  After a reload every module of the document is what    *)
(* its element says: what it leaves out, a module that was there does not  *)
(* have any more, and it has all the interfaces.                           *)
(***************************************************************************)
LoadsDocument == up /\ loaded # NULL => EveryModule(loaded, SlotIs)

(***************************************************************************)
(* A reload of the document that is loaded already modifies no module, so  *)
(* it restarts none: README, "every value is compared and if there is a    *)
(* difference, the module is reloaded".  A document of which the last      *)
(* reload lost an interface is not meant.                                  *)
(***************************************************************************)
ReloadIsIdempotent ==
    [][ /\ loaded # NULL
        /\ \/ EndReload /\ Parsed /\ Generated = loaded
           \/ ReloadNode(loaded)
        /\ \A e \in ModuleElements(loaded) : LaidOutModule(e)
        => \A s \in Range(running_modules') : ~s.modified ]_allvars

\* The table can be written as a document that the validation accepts: there is
\* a profile, and no interface without any attribute.
Saveable(modules) ==
    /\ \E s \in Range(modules) : s.profile # NULL
    /\ \A s \in Range(modules) :
          s.profile # NULL => \A i \in 1..s.ifces_cnt : s.ifces[i] # NoIfc

\* What the start has restored of the module that was in the slot b.
Carried(b, s) ==
    /\ \A f \in {"name", "path", "params", "enabled", "profile", "pid", "ifces_cnt"} :
          s[f] = b[f]
    /\ \A i \in 1..b.ifces_cnt : s.ifces[i] = b.ifces[i]
    /\ b.pid => s.running

\* What it has not.
Forgotten(s) == s.max_restarts = -1 /\ ~s.init_module

(***************************************************************************)
(* README: "The backup file contains current configuration with PIDs of    *)
(* running modules."  This is what it contains.  The supervisor that       *)
(* starts from it has every module its predecessor had and was not         *)
(* removing, and no other: with its values, its interfaces and its         *)
(* profile, and it adopts the process that lives on.  No limit survives,   *)
(* neither the module's nor the common one, and a restart that was pending *)
(* is not carried out: the module comes back switched off, as it was       *)
(* written.  If the table cannot be written as a valid document (there was *)
(* no profile, or an interface without attributes), the backup is refused  *)
(* and the table stays empty.                                              *)
(***************************************************************************)
BackupRestores ==
    [][ StartFromBackup =>
            /\ restarts_config' = DefaultRestarts
            /\ IF Saveable(before)
               THEN /\ \A b \in Range(before) : b.profile # NULL =>
                           \E s \in Range(running_modules') : Carried(b, s)
                    /\ \A s \in Range(running_modules') :
                           /\ Forgotten(s)
                           /\ \E b \in Range(before) : b.profile # NULL /\ b.name = s.name
               ELSE running_modules' = <<>> ]_allvars
=============================================================================
