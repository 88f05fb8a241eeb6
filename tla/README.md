# Nemea-Supervisor in TLA+

Nemea-Supervisor starts, watches, restarts and stops the modules (processes) of
a NEMEA installation according to an XML configuration. This directory holds
TLA+ models of its core, the TLC configurations that check them on small
instances, and TLAPS proofs of what holds for every instance. Line numbers refer
to `src/supervisor.c` unless another file is named.

## 1. The system

| Part | State | Operations | Talks to |
|---|---|---|---|
| Table of modules | `running_modules[]`, `loaded_modules_cnt`, `running_modules_array_size`, profiles | insert, change, free and shift, grow | everything below, under `running_modules_lock` |
| Service thread (2153) | per module: pid, status, `sent_sigint`, restart counter and timer, `served`, `init_module`, `remove_module` | status check, start, SIGINT, waitpid, SIGKILL, serve, statistics | operating system by signals and `fork`; modules by the service interface |
| Restart limiter (2006) | `module_restart_cnt`, `module_restart_timer`, two limits | tick, restart, give up | reload (limits), commands (reset) |
| Operator commands (2642-3006, 3340) | the menu and the question that waits for an answer | enable, disable, restart, profiles, stop all, info | table; the lock is held while the operator is asked |
| Configuration reload (5015, 5184) | buffer of the generated file, document being applied, marks in every slot | generate, validate, reset, insert or compare, remove, adopt | table; service thread by marks; template and `.sup` files; libxml2 |
| Termination and backup (3444, 974) | `service_thread_continue`, `service_stop_all_modules`, backup file | signals, stop all, join, write backup, next start | service thread, clients |
| Daemon server (1372) | client slots, `clients_cnt`, `config_mode_active`, `input_fd`/`output_fd`, `daemon_terminated` | accept, serve, configuration mode, disconnect | client threads; commands and reload |
| Service interface (2044-2564) | socket per module, connection timer | connect, request, receive | modules |
| Parsers (564, 3947-4998) | none | selections, parameters, validation of the document | commands, reload |
| Client (`supervisor_cli.c`) | connection, prompt on the screen | lines, `Dstop`, `Cquit` | a thread of the server |
| NETCONF plugin, statistics, logs | text and I/O | | |

What makes it hard: module processes end whenever they like, between any two
steps of the service thread; a command or a reload only leaves marks that the
service thread acts upon up to several cycles later, and the next command may
come before that; identifiers are reused by the kernel and survive from one
supervisor to the next in a file; a signal comes in the middle of a cycle, a
reload or a pending restart, and is handled while the threads of clients still
run; the clients' threads share counters, slots, two global
streams and file descriptors; a line a client sends is read by whatever prompt
comes next, and a signal may find the lock held by the thread that handles it; a
document passes through five loops that each have their own idea of what follows
what. `hazards` in `PROJECT.json` lists each of these at
its line, with the properties that would show it going wrong.

What makes each part correct:

* **Table and service thread**: no process is forgotten or started twice, signals
  reach only the module's own process, SIGKILL only after SIGINT, what is
  disabled stops, what is enabled runs, a restart is completed, a removed module
  leaves the table.
* **Limiter**: no more restarts in a window than the limit allows; 30 is infinity.
* **Reload**: the generated file has all of the template and of its `.sup` files;
  every module gets the parameters, interfaces and limits that the document
  gives; loading a document again changes nothing; a configuration survives the
  way through the backup file, but for what the file does not hold.
* **Dialog**: an answer is read by the question it was typed for, a selection has
  the numbers it names, `Dstop` stops the daemon, the lock is given back.
* **Termination**: it ends; after SIGTERM nothing is left; whatever is left
  running is in the backup file, and the next supervisor finds it. Each of these
  has exceptions in the code, and the properties name them (section 6).
* **Server**: a client that is accepted gets a slot, the counter is exact, the
  configuration mode belongs to one client, every thread ends.

## 2. Modules

| Module | What it models |
|---|---|
| `RestartCounter` | the arithmetic of the limiter, shared by the next two |
| `RestartLimit` | the limiter of one module over cycles, crashes, failing forks, commands and changes of the limit, with `starts` counting the starts since the last reset |
| `RestartLimit_proofs` | theorems about it |
| `ProcessLifecycle` | abstract specification: the stages down, up, asked, forced of a module's only process |
| `Supervisor` | table, service thread, commands, apply phase of the reload, adoption from a backup, process table of the operating system |
| `Supervisor_proofs` | theorems about its safety properties, and the proof that it implements `ProcessLifecycle` |
| `ServiceIfc` | extends `Supervisor`: the sockets to the modules, requests, replies and their decoding |
| `ServiceIfc_proofs` | theorems about it |
| `Shutdown` | extends `Supervisor`: signals, termination, backup file, the next supervisor |
| `Shutdown_proofs` | theorems about it, and about parameters and limits over reloads and restarts of the supervisor |
| `StatusInfo` | extends `Supervisor`: the status check of a command that takes no lock |
| `InteractiveMode` | the supervisor in the foreground: prompts under the lock, and the signal handler on top of them |
| `DaemonClients` | acceptor, client threads, slots, configuration mode, descriptors |
| `DaemonClients_proofs` | theorems about it |
| `Selection` | the parsers of an operator's line, and the reference they are checked against |
| `Dialog` | extends `Selection`: a client, its operator and the thread that serves it in configuration mode |
| `Dialog_proofs` | theorems about the parser of selections and about the conversation |
| `ConfigGenerator` | `generate_config_file`: template, include directives, growing buffer |
| `ConfigDocument` | extends `ConfigGenerator`: validation, apply phase and backup on documents |
| `ConfigDocument_proofs` | theorems about the generation, alone and in all reloads, and about documents, table and backup |
| `Recursion` | an induction principle for loops that are written as recursive functions |
| `MCSupervisor`, `MCBounded`, `MCServiceIfc`, `MCShutdown`, `MCStatusInfo`, `MCDialog`, `MCConfigDocument` | instances for TLC |

### Supervisor

`running_modules` maps a module name to the record of its slot; `slots` is the
array order. `pc` is where the holder of `running_modules_lock` is: the service
thread holds it for a whole cycle (`update` ... `receive`), a reload from
`ReloadBegin` to `ReloadEnd`, and a command for its one step. So every function
of the service thread is one step, and processes, which take no lock, exit
between them (`Exit`). One module of the configuration is one step of the
reload, because the table may grow in between.

Data: path, parameters and interfaces of a module are one value, `module_params`
(`ConfigDocument` has them one by one); an element may be absent,
empty or a value. Statistics and the service interface are `ServiceIfc`'s. The
configuration given to a reload is a validated one, with unique names
(4284-4304); one that is refused changes nothing. Which documents are accepted
is `ConfigDocument`'s question.

The operating system: a process that ended and whose parent has not reaped it is
a zombie, which still answers `kill(pid, 0)`. A process that is not a child
(adopted from a backup) is `gone` at once; its identifier is given out again only
after the next status check, since identifiers are handed out cyclically.
`fork` may fail. A module in `Privileged` answers every signal with `EPERM`.

Nothing is assumed of the operator: a command may come between any two cycles and
a reload before the effect of the last command. `EnabledRuns` and the liveness
properties of `Shutdown` say what happens all the same.

### ServiceIfc

Every step is a step of `Supervisor` with its effect on the sockets (`CheckStep`,
`StartStep`, `ServeStep`, `LoadStep`; `QuietStep` and `CommandStep` have none), or
a step of the three loops `Supervisor` has no need of: `connect` and `request`
between the third and the fourth status check of a cycle, `receive` after it.
`place` says in which of them the thread is; it holds the lock there, so commands
wait for `place = "out"`, while processes listen, answer, write and end at any
time. `files` is the supervisor's table of descriptors: a socket knows its peer
and what is queued in both directions. A reply is a header and up to `MaxChunks`
pieces that arrive one by one. Of the statistics the counts, the lengths of the
arrays and the identifiers that are set are kept. The other side (libtrap) is
external: a request is answered by an OK reply or another code, or not at all.

`OwnSockets` is about descriptors: `init_module_variables` forgets one without
closing it and a zeroed slot holds number 0, so it takes the status checks to
have closed what is forgotten. `InStep` says that after whatever failure the next
reply read belongs to the request just sent. `ArraysMatchCounts` is about a reply
that turns out to be broken half-way. `LockReleased` and `InterfaceConnects` are
liveness: no module can hold up the cycle, and one that listens is connected.

### Shutdown

`phase` is where the main thread is: `up`, `stopping` (before
`interactive_stop_configuration` has got the lock), `joining`, `over`.
A signal, or `Dstop`, may come in every state in which its handler is installed,
that is after the first load (3813-3830): during a cycle, a reload, a pending
restart or a removal (`MayTerminate`). `CheckAndLeave` is the first status check of
a cycle with the test for `service_thread_continue` behind it. A client's thread
tests `daemon_terminated` between two commands only, so a `ClientCommand` may still
come when the termination has begun. `NextSupervisor` starts with an empty
table, loads the backup if there is one and unlinks it; the processes of the
predecessor are no children of the new one, and one that the document it loads
does not name is unknown to it (state `lost`). The order of the elements in the
backup file is arbitrary (`Orders`): they are written profile by profile, in the
order of a list that is not modelled.

The properties are about all of these behaviours and name the exceptions that the
code has. One of them needs a history variable: `revived` has the modules that a
command or a reload has switched on again before their process had ended. Such a
process goes on with its old parameters, and nothing ends it
(`RunsLoadedParams`, `RestartCompletes`). `RunningAreBackedUp` and
`KeepsLifecycle` except the modules that are being removed: they have no profile,
so that the backup leaves them out (1009). `TerminationEnds` excepts a module that
is switched on after SIGTERM has switched off all of them (`OnAgain`): the serving
loop does so for a restart that was pending (2193), and so does a command under way.
`SigtermLeavesNone` says that the join then waits, and does not return with the
module running.

One signal ends one supervisor. The mask of the handler is empty (3816), so a
second signal runs the handler inside the first; that is left out.

### StatusInfo

`interactive_print_supervisor_info` calls `service_check_modules_status` without
the lock (3365). `Look` is its `kill(pid, 0)`, `Write` its assignments; the steps
of the service thread, of a reload and of processes come in between. The slot is
written as it is then, whatever the service thread did to it.

### InteractiveMode

The main thread waits in the menu or, with `running_modules_lock` held, for an
answer. `sup_sig_handler` runs in the same thread (the kernel is assumed to
deliver the signal there), wherever that is, and never returns. The lock is not
recursive. What the service thread does with the modules is one step here.

### Selection and Dialog

A line is a sequence of characters. `parse_numbers_user_selection` is the loop
over the characters, with `INT_MAX` + 1 as the constant `IntLimit` (overflow wraps
around, as the build does). `MeansWhatItSays` defines what a selection means by
its items and not by a loop. It is stated for lines whose numbers are smaller
than `INT_MAX` (`Fits`): a larger one does not fit into an `int`, and the loop that
adds the numbers of an interval does not end at `INT_MAX` itself (637). A line that ends in an open interval (`1,3-`) is
accepted and the interval passed over; the reference says so.

In `Dialog`, `socket` and `stream` are the two places a line can be in: the
kernel's buffer, which `select()` looks at, and the `FILE`'s, which `fgets` fills
with everything there is. A line in the second is not seen by `select()` and is
read by the next prompt. `shown` is the prompt on the screen, `hasty` whether the operator has
typed before there was one, `heard` which prompt read which line. `Dstop` is
three zeros, 300 ms apart, that the server counts (`nine_cnt`) as long as no
500 ms pass without one. It is promised to stop the daemon if it is typed at the
menu by an operator who has typed nothing ahead: at a question the first zero is
the answer. A client may hang up in every state and the next one connects.

### ConfigGenerator and ConfigDocument

A line of the template is text or an include directive. `ReadEntry` is one entry
of a directory, in whatever order `readdir` gives them. Texts are the elements
they hold and their size in bytes. A file can have the wrong suffix, be
unreadable, or vanish between the look at its type and its opening. Without a single line the
buffer is still `NULL` when it is written (5169).

A document is a tree of nodes, white space included, because the code steps over
nodes in ways that depend on it: `reload_find_and_check_module_basic_elements`
moves two nodes on, and the loop over the interfaces starts again behind the
first child when an attribute differs (4188). `validate_configuration` is what is
accepted; `ApplyDocument` is what is then done to the table, attribute by
attribute and interface by interface; `generate_backup_config_file` is the
document written at the end, with the indentation of `xmlDocFormatDump`. A process is a flag
here, and the service thread four steps. `FreshSlot` has the limit -1 of the reset
loop, so it assumes that the table does not grow during the reload
(`array_growth` is about the other case).

`LoadsGivenValues` relates the table to the document loaded last: every value that
the document gives is there. Of a value it leaves out it says nothing, because
the apply phase does not look at it (5396-5420): the old value, of `params` for
instance, stays in the slot. `LoadsDocument` is what `README.md` of the repository
says (208-220, every value is compared, all changes are applied), and the run
`values_left_out` refutes it. `ReloadIsIdempotent` says that loading the same
document again, whether a template gives it or a callback, modifies no module, so
it restarts none. `BackupRestores` compares the table before a stop with the one
after the start from the backup, and says what the backup has and what it has not:
the values, interfaces, profiles and processes of every module that is not being
removed come back; no limit of restarts does, neither a module's nor the common
one; a module whose restart was pending comes back switched off, as it was written;
and if the table cannot be written as an acceptable document, nothing comes back
(`Saveable`: without a profile the root element is empty, and an interface without
attributes has no children, which the validation of the next start refuses).

### RestartLimit

One step per cycle of the service thread, with the program's own numbers: a
window of 30 cycles of 2 s, limits 0 to 30. A reload may set the limit below the
count reached: the test is `==` (2029), which is then passed over, and restarts go
on until the window ends. The history variable `overrun` says that this has
happened since the last reset; `RestartsBounded` has a bound for either case:
`2 * max_restarts + 1` starts in a row, or less than a window of them.

### DaemonClients

A step ends where another thread may interfere: the test of the counter, the
choice of the slot, the counting and `pthread_create` are four steps of the
acceptor; the four closings of one descriptor are four steps of a client's
thread. `file` says whose connection a descriptor stands for. A command of a
client in the configuration mode takes time (`command`) and is otherwise
`Supervisor`'s subject.

## 3. Runs

| Run | Shows | Bounds |
|---|---|---|
| `restart_limit` | limiter: bounded restarts, 30 is infinity | the real window of 30, limits 0, 1, 3, 29, 30 |
| `two_modules` | safety and `KeepsLifecycle` for two modules that compete for identifiers, one of them privileged, one removed and shifted over, over several supervisors | 2 identifiers, so that reuse happens; 2 commands or signals (`MaxOrders`), any number of reloads; symmetric identifiers; window of 2; limits 0, 1 |
| `shutdown` | liveness of commands and reloads; modules have the parameters and limits that were loaded; termination, backup and any number of next starts | one module, one identifier, any number of commands and signals at any time, 3 configurations (a limit, other parameters, no module); window of 2 |
| `service_ifc` | the service interface | one module, any number of commands, one attempt after a timeout, replies of up to 2 pieces, 3 documents (complete, a count missing, an entry broken) |
| `clients` | the server | 2 slots, 3 descriptors: full slots, a refused client and reused numbers all happen |
| `document` | generation, validation, apply phase and backup | 8 templates with every kind of line and file; a document and every document one edit away from it; arrays of 2 interfaces that grow, a buffer of 2 bytes that grows by 1, so that both are filled exactly |
| `dialog` | client, operator and server thread | all answers of up to 3 characters of four kinds (a digit, comma, dash, other), and lines of three digits with commas and dashes; an `int` of 5 bits, so that the number of three digits overflows; one line typed ahead |

Five runs show where the program does something else than its documentation says:

| Run | What happens |
|---|---|
| `array_growth` | modules in slots added during a reload get the limit 0 |
| `client_fd` | a descriptor is closed again after its number was given to the next client |
| `status_race` | the info command writes `module_status = TRUE` into a slot the service thread has just cleared; the module is never started again |
| `values_left_out` | `params` that the new document leaves out stay, and a document without white space, as a NETCONF callback may give it, loses its first interface when an attribute changes |
| `prompt_interrupted` | a signal at a prompt of the interactive mode waits for a lock its own thread holds |

With a third order (`MaxOrders = 3`, 3.3 million states) the run `two_modules` is
too long to be repeated every time; the invariants of the proofs were checked with
it. In `shutdown` one module is enough, because what termination does
to a slot does not depend on the others; that a module is passed over when
another is freed is checked by `two_modules`.

Windows are shortened to 2 or 3 cycles in the runs of `Supervisor`: what the limiter
does with its counter is `RestartLimit`'s question, and there only the fact that
a limit may be reached matters. Two modules are enough for what depends on more
than one slot: shift, competition for identifiers, several starts in a cycle.

Each property has a mutant, a definition of the model changed the way a
plausible bug would change the code, that TLC finds to violate it (`mutants` in
`PROJECT.json`; the operators marked "Mutant" stand before what they replace).

### Fairness

* The service thread runs on (weak fairness of its steps): it never waits except
  for the lock. Commands hold the lock while they wait for an answer of the
  operator; that prompts are answered is assumed in `Supervisor` and the modules
  that extend it. `LockGivenBack` in `Dialog` says what is left without that.
* A reload in progress runs on; it waits for nothing.
* A process that was sent SIGKILL ends. Nothing is assumed of SIGINT.
* In `ServiceIfc` a reload runs on, and the service thread gets the lock in the end
  (strong fairness, as in `Shutdown`); nothing is assumed of the modules, not even
  that they answer.
* In `Shutdown` the service thread and the main thread wait for the lock and get it
  when it is free again and again (strong fairness): an operator who gives one
  command after the other does not keep the service thread from it for ever, and
  the service thread sleeps 1.5 s without it in every cycle. Nothing is
  assumed of the operator, and not that a module ends after SIGINT.
* In `StatusInfo` as in `Supervisor`, and the thread of the command runs on. The
  operator waits there until the last command has taken effect, so that nothing but
  the unlocked check is behind what the run shows.
* In `Dialog` the client's thread, the service thread and the client's program run
  on, and a thread that waits for the lock gets it when it is free again and
  again (strong fairness: the service thread sleeps without it, an operator takes
  longer to type than a thread to wake up). Nothing is assumed of the operator.
* In `InteractiveMode` the same, and the service thread, told to leave, does leave
  in the end: the modules stop, which is `DisabledStops`. Nothing is assumed of
  the operator.
* In `DaemonClients` a thread runs on unless it waits for its client: the mode
  code is waited for 2 s at most, the loop is tested every 0.5 s. Nothing is
  assumed of a client in the middle of a command.

## 4. Proofs

For every window, every set of limits and every number of starts
(`RestartLimit_proofs`; assumptions: the window is a positive natural number
and the limits are natural numbers):

* `TypeCorrect`, `CountStaysWithinWindow`, `FullWindowNeverReached`: the counter
  is at most one ahead of the timer. The invariant is inductive because the
  counter is cleared when the timer wraps, and a start adds one after a tick.
* `StartsBounded`: the bounds on restarts, whatever limits the reloads set.
  They are not inductive: `StretchInv` adds how many starts
  there were since the last reset in the first stretch (the counter started at
  -1) and in later ones (it started at 0 when the window wrapped).

For every number of clients and descriptors (`DaemonClients_proofs`;
assumption: at least one slot):

* `TypeCorrect`, `CounterExact`, `SlotAlwaysFound`, `ConfigModeExclusive`, all
  from one inductive invariant `IInv`: the counter is the number of slots in use
  plus the threads about to count themselves out; between the unlocked test and
  the choice of a slot only others' decrements happen, so the test remains true;
  a thread that runs has a slot in use which is not the one the acceptor is about
  to hand to a new thread; the configuration mode belongs to one thread from the
  test under the lock to the release.

For every number of modules, identifiers, profiles and configurations, every
window and every set of limits (`Supervisor_proofs`; assumptions:
`SupervisorAssumption`, which says that the special values are none of the
ordinary ones and the limits are natural numbers, and `ConfigsAssumption`, which
says that a validated configuration names no module twice and only a backup has
identifiers):

* `TypeCorrect`; `ProcessesRecorded`, `SignalsSafe` and `SigintFirst` are
  `EveryProcessRecorded`, `SignalsHitOwnModule` and `AskedBeforeForced`. They
  follow from one inductive invariant, `IInv`, whose parts need each other:
  `UnloadedInv` (a slot that is not in use records no process, so a new module
  may take it), `OwnerInv` (a recorded identifier is the module's own),
  `StatusInv` (status and identifier agree during a cycle, so a module that is
  started or removed has no process), `FreshInv` (between a status check and the
  next reaping no recorded identifier is free, so `fork` cannot return one and
  `kill` cannot hit another module), `LoadInv` (the processes during the first
  load are those of the backup's elements, and the elements before the index
  have been adopted) and `AskedInv` (`sent_sigint` is about the process the slot
  records now). One lemma for each function of the service thread, for the
  commands, for an element of a load and of a reload, and for an exit shows that
  the step preserves every part; `QuietStep` and `MarkStep` are what steps have
  in common that start nothing.
* `Refinement`: `Spec => ImplementsLifecycle`. With `IInv`
  a module has at most one running process (`SingleProcess`), so a stage is that
  of one process; starting, the two signal passes and an exit are `Start`, `Ask`,
  `Force` and `Exit`, and every other step changes no stage.

For every template, every set of included files and every size of the buffer
(first part of `ConfigDocument_proofs`; assumption: `GeneratorAssumption`, which
says what a line and a file are, that a line of text is not empty, and that the
sizes of the buffer are positive):

* `BufferHasRoom` (`RoomForText`) and `WholeTemplateGenerated` (`GeneratedWhole`),
  from the inductive invariant `GenInv`. Both say something about the end of the
  generation only, so the invariant says what the text is on the way: while lines are
  read it has exactly the nodes of the lines before (`ReadingInv`), within a
  directory also those of the readable `.sup` files that have been visited
  (`DirectoryInv`), and between two generations there is no text (`RestInv`).
  `LinesDone` grows by one line when a line or a directory is done; a failure
  leaves no text.
* `ReloadHasRoom` and `ReloadsWholeTemplate`: the same for the supervisor with all
  its reloads, callbacks, stops and starts, because every one of its steps is a
  step of the generation or leaves it alone (`DocumentGenerates`: `DocSpec => GenSpec`).

Loops over the characters of a line and the nodes of a document are recursive
functions in the models. What such a loop computes is proved with `Recursion`:
`LoopExists` (there is a function that satisfies the recursive equation) and
`LoopInvariant` (what holds before the first round and is preserved by every round
holds after each) are proved once, for a loop's start `Base`, its body `Step`
and an invariant `P`, which are constants of the module; it is instantiated for
every loop with the loop's own. The set of the rounds after which the invariant
holds is all of `Nat` because `<` is well founded there (`SetInduction`). The
conditions of an instance are what a proof of a loop in a program consists of,
and the loop invariants below are named in the modules.

For every line, whatever its length, and every width of an `int`, for every set
of options and answers, and any number of lines typed ahead (`Dialog_proofs`;
assumptions: `IntAssumption`, `DialogAssumption`, which says that options and
answers are sequences of characters):

* `SelectionsAsWritten` (`SelectionAsWritten`), from `SelectionParsed`, which says it
  of `parse_numbers_user_selection` by itself. The invariant of the loop is `ReadInv`:
  `Item` describes the item in hand (its digits so far, and whether it is the second
  half of an interval), the numbers gathered are those of the items before the last
  comma (`DoneNumbers`), each once, and none of these items was bad; a line that
  was refused is not well formed, whatever follows. `WrapSmall` and `Fits` keep `cur_num` equal
  to the value of the digits.
* `AnswersUnderstood` (`AnswersMeetQuestions`) and `LockFollowsQuestion`, from the
  inductive invariant `DialogInv`. Its part `InStep` holds for an operator who has not
  typed ahead: there is one line under way at most, no line in the `FILE`'s
  buffer, the thread waits at the place the line was typed for, and the zeros of a
  `Dstop` come while the thread is in `select()`. `LockFollowsQuestion` says that
  the lock is the client's exactly while its question is open, so every way out of
  a command gives it back.

For every document, any number of modules, profiles and interfaces, every
sequence of reloads, callbacks, terminations and starts (second part of
`ConfigDocument_proofs`; assumptions: those of the generation and
`DocumentAssumption`, which says that documents from outside are trees, that
`NULL` is no value, and that arrays of interfaces start with room for two at least):

* `DocumentTypes` (`DocTypeOK`): arrays of interfaces have room for what is in them
  and are zeroed behind it.
* `GivenValuesLoaded` (`LoadsGivenValues`): every module of the document that was
  loaded last is in the table below its profile, with every value that its element
  gives, what else is there is about to be removed, and the common limit is the one
  given. This is for documents of every layout: the loops over modules step over no
  module. Of the interfaces it speaks where the first child of `trapinterfaces` is
  not an interface, as in any indented file: the loop over them starts again behind
  the first child, and the run `values_left_out` shows what happens otherwise.
* `ReloadsIdempotent` (`ReloadIsIdempotent`), with the same condition on the document
  that is loaded again.
* `BackupsRestored` (`BackupRestores`) needs no condition: the backup is indented by
  `xmlDocFormatDump` and is loaded into an empty table. A table that is not
  `Saveable` is proved to come back empty.

The inductive invariant is `DocInv`: types (`TypeInv`), the table with unique names
and well-formed arrays (`TableInv`), the generated text (`GenerInv`), modules and their
profiles (`NamesInv`), the backup (`BackupInv`: it is the document of the table that
the last supervisor has left) and what is loaded (`LoadedInv`). That a reload
preserves it is shown from the innermost loop outwards: `InsertInv` for the
interfaces of a module, `ModulesInv` for the modules of a group, `DocumentLoopInv` for
the nodes below the root. The last two share `Table`, which says that the modules
read so far are in the table as the document has them and that whatever is marked as
checked was read. In its mode "quiet" it says in addition that no slot is modified and
that those not yet checked already have what the document says (for
`ReloadsIdempotent`), in its mode "start" that every slot is the new one of its element
(for the backup). `KeptInv` is the invariant of the loop that picks the elements of a
sequence that are in a set.

The way through the backup is proved from both ends: `SavedModuleFacts` and
`SavedProfileFacts` say what a reader finds in the element that is written,
`BackupValid` that the next supervisor's validation accepts the document,
`NewSlotFacts` what a slot inserted at a start is; `SlotCarried` and `NothingElse` put
them together, and `NothingCarried` says that the validation refuses every other
table.

For termination, backup and any number of supervisors after one another
(`Shutdown_proofs`; the assumptions of `Supervisor_proofs` and
`NoBackupAssumption`, which says that no configuration is the absence of a file):

* `LimitsHold` (`LimitsAsConfigured`), provided that `TableFits`: there are no more
  modules than slots in the array at its first size, so the table never grows.
  `array_growth` shows that the limits are lost otherwise. `LimitInv` says which
  elements have been dealt with during a load, that until then a module
  has no limit of its own (-1), and that the reset loop has seen every slot that can be
  handed out. Nothing is assumed about when signals come.
* `RunningBackedUp` (`RunningAreBackedUp`), `SigtermStops` (`SigtermLeavesNone`),
  `ParamsLoaded` (`RunsLoadedParams`), `ProcessesKept` (`EveryProcessRecorded`,
  `SignalsHitOwnModule`, `AskedBeforeForced`) and `ShutdownRefinement`
  (`KeepsLifecycle`), for signals and commands at any time. The inductive invariant
  is `TermInv`. It contains `IInv` of `Supervisor_proofs`, because the next
  supervisor has to start in a state that satisfies it: the elements of the backup
  have to name the processes that run, each once. That is shown backwards through
  the termination: `BackupInv` (the file is what the table was at the end),
  `EndedInv` (at the end, the table and the process table agree), `PhaseInv` (the
  supervisor is not over before the service thread has ended) and `ProfileInv`
  (the modules without a profile, which the file leaves out, are exactly those being
  removed; during a load, those not yet named). `OverFacts` puts these together, and
  `FoundProcesses` says what the next supervisor finds. `ParamInv` says when the
  parameters of a process may differ from those of its slot: while the module is
  disabled for its restart, when it was `revived`, and between the elements of a
  load.

For every number of modules, descriptors, attempts and pieces of a reply
(`ServiceIfc_proofs`; the assumptions of `Supervisor_proofs`,
`ServiceIfcAssumption`, `PeriodsAssumption` and `DocumentsAssumption`, which says
that a count of the statistics is a natural number or missing, as the decoding
takes it):

* `IfcTypeCorrect`, `SocketsOwned` (`OwnSockets`), `StaysInStep` (`InStep`) and
  `ArraysMatch` (`ArraysMatchCounts`), from the inductive invariant `IfcInv`: `IInv`
  of `Supervisor_proofs` with `LoopInv` (where the three loops are),
  `SockInv` (who owns a socket), `PidInv` (a connection leads to the process that
  the slot records: that it is closed before the slot is used for another
  one is the status check's work, which needs `StatusInv`) and `SyncInv`.
  `InStep` alone is not inductive. `SyncInv` says what is on a connection at any time:
  nothing for a module whose request has not been sent in this cycle or was dealt with
  (`Quiet`), and otherwise one request, or a header followed by at most the pieces it
  announces (fewer if the process has ended), some of them still on their way. Every failure in the middle of
  a reply ends with the connection closed, so that nothing is left on it.

Only model-checked: the liveness properties. Every safety property that a passing
run checks is stated by a theorem. The others speak of what must
happen under fairness, whose `ENABLED` and temporal reasoning are out of the
prover's reach: `EnabledRunsWhileUp`, `DisabledStops`, `RestartCompletes`,
`RemovedLeaves`, `TerminationEnds`, `LockReleased`, `InterfaceConnects`,
`ClientsLeave`, `StopRequestStops` and `LockGivenBack`.

## 5. Not modelled

* The end of `supervisor_termination` (3499-3555): the wait for the clients'
  threads, bounded by two rounds of 300 ms, and the release of memory. Memory that
  is freed while it is used is not a state of these models.
* `parse_module_params`: how a string of parameters is split into arguments; its
  quoting rules are stated nowhere, so there is nothing to check it against.
* libxml2: that text is parsed into the tree it looks like and dumped as it was
  (`xmlNewChild` does not escape `&`, so parameters with one are not); a backup
  file that cannot be parsed.
* The NETCONF plugin: callbacks of libnetconf, whose transactions are the library's.
  Its only way into the supervisor, `RELOAD_CALLBACK_ROOT_ELEM`, is `ReloadNode`.
* Statistics and listings as text, logs, resource usage, `nemea_status` and the munin
  plugins; option parsing, start-up and set-up of the daemon. They read or
  format; the state they leave behind is `Init`.
* In the client, the pager for logs and the one-shot modes.

* A second signal while the handler of the first one runs; signals before the
  handlers are installed, which end the supervisor like any other program.

## 6. Where the code differs from its documentation

Five differences are runs of their own (section 3): each states what the
documentation says and is violated. The others are exceptions in properties that
hold, so that the property says how far the documentation is right; what is cited
is `README.md` of the repository.

| Documentation | Code | Property |
|---|---|---|
| 208-220: all changes are applied, every value is compared | a value that is left out keeps its old value; an interface may be lost (`values_left_out`) | `LoadsGivenValues` |
| 218-220: a module that differs is reloaded | not if it is switched on again before its process has ended: by a command, or by a second reload before the service thread has served the first (5321 forgets the restart that is due). It goes on with its old parameters | `RunsLoadedParams`, `RestartCompletes` |
| 395-397: the modules that run are found again | not those that a reload has removed and that had not ended (1009) | `RunningAreBackedUp`, `KeepsLifecycle` |
| 402, 415-417: the backup contains the current configuration, and the next start loads it | without limits; a module with a pending restart is switched off; nothing if there is no profile or an interface without attributes | `BackupRestores` |
| 425: SIGTERM stops all running modules | and waits for ever for a module that a pending restart (2193) or a command under way has switched on again | `TerminationEnds` |
| when the limit is reached, the module is disabled | not in a window in which a reload has lowered the limit below the count (2029) | `RestartsBounded` |

Other peculiarities met on the way, which the models have: after a restart that a
reload has asked for and another one has taken back, `module_running` stays FALSE, so
that a third reload that changes the module does not restart it; `init_module`
stays TRUE when a module is enabled while its restart is pending, so that a later
disable is undone once; an operator who enables a module that is marked for
removal keeps it in the table, without a profile.
