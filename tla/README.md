# ledcmd_ubus in TLA+

TLA+ models, TLC runs and TLAPS proofs for the LED manager of this repository:
the `ledcmd` daemon, the clients that talk to it over ubus, and the backend that
writes the LEDs. Paths and line numbers below are relative to the repository's
root; `PROJECT.json` maps every definition to the lines that it models.

    tlc -workers 2 -config MCLedLocks.cfg MCUbusFrontEnd
    tlapm LedControlProofs.tla

## 1. The system

One daemon owns the LEDs. It is a single thread around libubox's `uloop`: a ubus
request handler or a timer callback runs to its end before the next one starts.
Interleaving therefore happens *between* handlers, among clients, and at the LED
itself, which other processes may write as well.

| Part | Source | State it keeps | Operations |
|---|---|---|---|
| Priority contexts | `led_daemon/src/priorities.c`, `led_priority_context.c` | two-level bitmap of active priorities per LED | activate, deactivate, highest |
| LED controller | `led_daemon/src/led_control.c` | per LED: a state and a flash for each of 4 priorities, lock ID, timers | set, get, activate, deactivate, flash timeout |
| LED locks | `led_daemon/src/led_lock.c` | `lock_id` of each LED | lock, unlock, any locked? |
| Flash types | `led_daemon/src/flash_types.c` | constant table of times | lookups |
| Pattern player | `led_daemon/src/led_pattern_control.c` | queue of playing patterns, each with a step number, a count and a timer | play, retrigger, stop, timeout, deinit |
| Pattern and alias files | `led_patterns.c`, `led_aliases.c`, `iterate_files.c` | immutable after start-up | load, look up, iterate |
| Ubus front end | `led_daemon_ubus.c` | none of its own | one handler per ubus method, arrays of requests |
| Daemon main | `ledcmd_daemon.c` | flock of the single instance | start, run, stop |
| Backends | `led_daemon_backends/sysfs`, `.../test` | the LED: files under `/sys/class/leds`, or a variable | open, set, get, iterate |
| Client library | `lib_led/src/*.c` | object ID of the daemon | synchronous calls with a 1 s timeout |
| LED CLI, pattern CLI | `led_cli/ledcmd_cli.c`, `led_pattern/led_pattern.c` | one invocation's options | one request per argument |
| Logging | `lib_log`, `logging_stderr` | the plugin | log |

How they interact: a CLI calls the client library, which sends a ubus message and
waits. The front end turns each entry of the message's array into a call of the
controller (or of the pattern player) with a callback that appends a result to
the reply. The controller asks the priority context which priority is highest,
the lock module who holds the LED, and calls the backend's `set_led_state`
between `open` and `close`. The pattern player drives the controller as one more
client, in the same thread, from ubus requests and from its own timers.

What makes the parts correct, and what is hard about them:

* **Priority contexts** — the summary byte agrees with the table bytes after any
  sequence of calls, also with priorities out of range; NORMAL is never lost.
* **Controller** — the LED shows the most urgent state; hidden flashes go on but
  stay hidden; deactivation restores what was hidden, even if it has changed
  since; timers and flashes are never separated, although every state change may
  set or cancel a timer; a write may fail at any point of all that.
* **Locks** — a lock is recorded twice (ID and LOCKED priority); a single request
  may visit a LED twice, since an alias may share a LED's name.
* **Player** — five ways for a pattern to end, one promise: its end step is
  performed; rivals are found through names, aliases, defaults of priorities.
* **Player and controller together** — what a pattern activated is given back
  however it ends, through take-overs by other patterns; clients set and lock the
  same LEDs meanwhile; a flash must not outlive the pattern that started it.
* **Pattern and alias files** — of several definitions of a name the first good one
  counts, in the order in which files are read; nothing is loaded in part.
* **Front end and clients** — a message has several entries, of which one may be
  invalid and each may fail on its own, and the reply has to be true for all of them;
  a request outlives the client that gave it up; several clients' requests interleave.
* **Sysfs backend** — a LED is set by three writes of three files, by several
  processes; the lock around them may fail, and so may each write, or the
  process.

`PROJECT.json` lists every hazard at its line with the properties that watch it,
or with the reason why none does yet.

## 2. The modules

| Module | Models | Uses |
|---|---|---|
| `PriorityOrder` | the order of priorities, the most urgent of a set | |
| `PrioritySet` | abstract: a set of priorities with its most urgent member | `PriorityOrder` |
| `LedPriorityContext` | the bitmap; implements `PrioritySet` | `PriorityOrder` |
| `LedLock` | abstract: what locks promise | |
| `LedControl` | controller, locks, flash types and timers; implements `LedLock` | `PriorityOrder` |
| `PatternControl` | the pattern player | |
| `LedDaemon` | player and controller together: what steps do to LEDs, shutdown | extends `PatternControl`, instance of `LedControl` |
| `UbusFrontEnd` | the ubus methods get, set, activate and deactivate, with their replies | extends `LedControl` |
| `LockSession` | clients and ubus handlers around the controller | extends `LedControl` |
| `ConfigFiles` | loading patterns and aliases | |
| `SysfsLed` | the sysfs backend's `set_led`, several processes | |
| `PriorityOrderProofs`, `LedPriorityContextProofs`, `LedControlProofs`, `PatternControlProofs`, `LedDaemonProofs`, `ConfigFilesProofs`, `SysfsLedProofs` | theorems and proofs | the module they are about |
| `ClientProofs` | theorems and proofs about `LockSession` and `UbusFrontEnd` | both, and `LedControlProofs` |
| `MCLedPriorityContext`, `MCLedControl`, `MCPatternControl`, `MCLedDaemon`, `MCUbusFrontEnd`, `MCLockSession`, `MCConfigFiles`, `MCSysfsLed` | instances for TLC | |

Operators whose name has an underscore, such as `SetState_Cached`, are mutants: a
plausible bug in the operator that follows them. They are used by no
specification; replacing the operator by its mutant must make the property named
in `PROJECT.json` fail, which shows that the property looks at that code.

**`LedPriorityContext`.** A byte is the set of its bit numbers; `Number` is its value,
by `priority_map_table`, and `UnmapTable` has the 256 entries of the code's
`priority_unmap_table`. `Unmap` looks a byte up in it, so that a wrong entry is a
wrong answer: `priority_bitmap` reaches every byte of the first group, and the lemma
`UnmapIsLeast` goes through the entries. `highest` is what the last call returned. Priorities that callers pass may be out
of range: 11 and 63 for a context of 11, whose last byte has bits to spare.

**`LedControl`.** `leds[l]` is `struct led_ctx_st` plus the physical LED (`phys`):
`lock`, `active` (the priority context, by the result above a plain set) and, for
each priority, `ctx[p]` with the fields of `struct led_state_context_st` and
`struct flash_context_st` (`current`, `remaining`, `final`, `times`, `forever`,
and whether the uloop timer is pending). The operators on one record `r` have the
shape of the functions: `SetState` is `set_state` with `update_flash_timer`,
`ActivateLed` and `DeactivateLed` the `led_ctx_…` functions, `SetLed` is
`led_ctx_set_state`, `FlashLed` is `led_flash_timeout`. The actions apply them to
the LEDs that a name reaches: an alias first, then the LED of the same name, so
possibly twice (`Visits`). `ok` says whether the backend's write works.

* Timers have no clock: a pending timer may fire at any moment. This allows every
  order that real times allow. The times themselves are kept where the code
  computes with them (a flash's remaining time).
* The set of LEDs behind an alias is a set. `led_aliases.c` does not reject an
  alias that lists a LED twice; the second visit of such a LED would repeat the
  first one.
* A failed write leaves `phys` alone. That is the test backend; what a failed
  write of the sysfs backend may leave behind is the subject of `SysfsLed`.
* One failure outcome per LED and handler: two visits of a LED in one request
  fail or work together.

**`PatternControl`.** `playing` is the queue of `struct led_pattern_context_st`,
`performed` the list of steps that the last handler performed, in order. Step 0 is
the start step and the one after the last is the end step. `plays` is a ghost: how
often the pattern was really played. The relation of patterns that share a LED and a
priority (`PatternsShareLeds`) is computed once, as `Sharing`.

**`LedDaemon`.** `PatternRequest` and `PatternTimeout` are the player's handlers,
conjoined with what the steps in `performed'` do to `leds`, one after the other
and in each LED by LED of the step (`PerformLed`: activate in the start step, set, deactivate in
the end step). The controller's operators are those of `LedControl`. A step of
the player has no lock ID, so that LOCKED is neither activated nor set by one.
`unopened` are the steps for which the plugin can't be opened. `ClientRequest` is any request of
`LedControl`; `FlashTimeout` a flash timer of the daemon. `Shutdown` follows the
order of `ledcmd_deinit`: the LED contexts go first, so that the end steps find no
LED to act on; this is not a finding, since nothing says what LEDs show afterwards.

**`UbusFrontEnd`.** A message is a method and a sequence of entries, whose fields
may be `Missing`. `Handle` is one handler: it processes the entries before the first
invalid one (`Applied`, their places in the message), each by `ProcessEntry`, with the LEDs that the
entry before left. `After[i]` is what LEDs and results are after entry `i`, a recursive function, so
that it can be proved about. `Handle` answers with a status and, only if all were valid, with the
results. Results of an entry are a set; which field is filled in is that of `append_led_data`'s callers.
`Shows` tells the requests whose first write the plugin can do: a flash of the daemon starts
from ON or OFF, but with a flash type and no time the state itself is written. `told` is whether the plugin
knows the LED's state; a backend need not. `OpenFails`
may be the outcome of every message. The operators that change a LED are those
of `LedControl`, used for one LED at a time: a visit of an alias and of the LED of the
same name are two visits, with two results. The status of `set` passes through a
`bool` (`led_daemon_ubus.c:353`), so that every error is 1 (`StatusFor`).

**`ConfigFiles`.** A step is one file. A definition is a record of fields, each a
value or `Missing`, which is also what blobmsg makes of a field of another type;
an array with an element of another type is `NotTables`. `Key` maps the spellings
that `strcasecmp` takes for the same name to one. Files may be unreadable. The parsers
return a pointer or NULL; here it is a set with one value or none, so that a pattern is
parsed if each of its parts is. `LoadAll` is a recursive function over the definitions of
a file.

**`LockSession`.** `cli[c]` is a running invocation of `ledcmd`, `inbox` the queue
of messages that ubusd has not delivered yet, in the order in which it received
them. `HandleRequest` is one message, handled to its end and answered; `Fail` is a message for
which the plugin cannot be opened; `GiveUp` is the timeout in `ledcmd_ubus_invoke`,
after which the request is still handled. `held` is a ghost: what a client was
told that it locked and has not asked to release since. It is about the options
`-k`, `-K`, `-o` and `-i`; the other setting options differ only in the state, and
`-n`/`-N` act as in `LedControl`. Arrays have one entry, as the library sends them; `UbusFrontEnd` has the others.
Clients use lock IDs of their own: with a shared ID they could release each
other's locks by design.

**`SysfsLed`.** One LED (each has its own lock file and its own files, and a process
sets one at a time). `pc[p]` is the place in `set_led`, so that a step is one system
call: flock, trigger, first delay, second delay, close. `LockFails` goes on without
the lock, as the code does. `OpenFails` is noticed, `FlushFails`, the write inside
`fclose`, is not. `Kill` may come anywhere. The kernel's part is external: the timer
trigger starts to blink with default delays; writing it again keeps the delays
or starts again; two delays of 0 give the default delays (`led_sysfs.c:367-371`).
The ghost `sure` has the processes that got the lock with nobody inside without it,
and whose writes all worked. Other writers that ignore the lock file are left out:
nothing could be said about the LED then.

## 3. The runs

| Run | Instance | What it shows |
|---|---|---|
| `priority_bitmap` | 11 priorities in 2 groups, 13 values passed | the bitmap, with the look-up table of the code, implements a set with its most urgent member, also at the boundary; that NORMAL can't be deactivated is part of `PrioritySet` |
| `led_locks` | 2 LEDs, an alias with the name of one of them, an alias without LEDs, 2 lock IDs, 3 priorities, 32 messages | locks are recorded consistently and implement `LedLock`; the LED shows its highest state; replies are true; nothing changes in silence |
| `led_flash` | 1 LED, 2 priorities, states OFF, ON and an unsupported flash, slow flash of 600 ms, one-shot | timers and flashes go together; timed flashes end; less urgent states stay hidden |
| `led_faults` | 1 LED, every write may fail, another writer | only recorded, urgent enough states are written; a set repairs the LED; flashes have an end state |
| `deactivated_flash` | as `led_flash` | *violation*, see findings |
| `patterns` | 5 patterns, 3 LEDs, alias, default priority, counter wraps at 5, a client that sets and locks the alias's LEDs | sharing, end steps, number of plays, termination; priorities and flashes end with their patterns; LEDs show the current step; locked LEDs are left alone |
| `retrigger` | 4 patterns, without LEDs | *violation*, see findings |
| `lock_session` | 2 clients, 2 LEDs and their alias, 5 commands | claims are true whatever times out; others' requests stay underneath; released is released |
| `alias_lock` | the same | *violation*, see findings |
| `sysfs_led` | 2 processes, 4 commands, every failure | success means set; no accidental blinking; the lock is given back |
| `config_files` | up to 2 files of 8 kinds for patterns, up to 2 of 4 for aliases, each readable or not | the first good definition of each name is loaded, as a whole |
| `sysfs_flush` | 1 process | *violation*, see findings |

Bounds, and why they suffice:

* LEDs are treated alike and independently except by names and by the test of
  "all", so two LEDs, one of which is reached twice by one name, have every case.
  The flash runs need only one.
* 11 priorities give a full byte and a partial one; the theorems cover the rest.
* 600 ms is not a multiple of 500 ms, a one-shot's off time is 0: the countdown
  meets "less than", "equal" and "greater". Remaining times only go down, so the
  state space is finite without a bound.
* `SizeLimit = 5` lets `times_played` wrap round; play counts go to 3.
* `MaxInbox = 2` bounds the messages waiting when a command *starts*; continuing
  invocations may add to them, so up to three messages, of a client that gave up,
  of the other and again of the first, meet in the queue.
* `MCSymmetry` swaps the two clients together with their lock IDs. Only safety
  properties are checked in that run, and the commands are the same for both.
* Two processes are enough for a race on one LED, and the theorems about
  `SysfsLed` hold for any number.

* The 32 messages of `led_locks` are those that the client library sends, with one
  entry, for each name, and one for every way in which a longer one may go: failing as
  a whole, in one entry, after some entries. A message has one lock ID, and asks for
  states that the plugin can show.
* The client of `patterns` (`FrontRequest`) acts on the LEDs that most patterns use,
  through their alias, in the NORMAL and LOCKED priorities; ALTERNATE is the
  patterns' own, and it is of that priority that the properties of `LedDaemon`
  speak. The pattern `short` names the LOCKED priority without being able to take it.
  `TidyPatterns` says which patterns the two properties about leftovers are for: those
  whose end step names what the start step activated and what was flashed. All five are.
* `MaxFiles = 2` files with up to 3 definitions: two definitions of a name in one
  file and in two, before and after one that is wrong in any of its parts.

`led_locks` runs `DisciplinedFrontSpec`: clients set the state of a priority only while it
is active. Without that the LED may show the state of a more urgent, inactive
priority: `set_state` compares priorities, it does not ask whether the priority is
active. `led_flash` checks the weaker `ShowsUrgentState` for all clients. A priority
that nobody sets is recorded as off and would excuse a LED that is off for the wrong reason;
so neither `ShowsUrgentState` nor `OnlyUrgentStatesWritten` counts every priority.
The first counts the highest one and, above it, those that clients name, of which one
may not have been set yet. The second counts, above the highest one, only a priority that
the very step sets or whose timer is pending. Their mutant writes a hidden OFF at once.

Deadlock is checked everywhere except where the system ends: `patterns` and
`retrigger` with the daemon's shutdown, `config_files` when every file was read.

Fairness. `LedControl`, `PatternControl` and `LedDaemon`: weak fairness of each timeout, because
`uloop` runs the callback of every expired timer and the daemon has no other thread
that could starve it (`LedDaemon`: the patterns' timeouts only). `TimedFlashEnds` assumes
that requests stop at some time, since a client may set the LED again and again before its flash
ends; `FinitePatternsEnd` only that nobody starts or retriggers a finite pattern any
more, while clients and requests about repeating patterns go on for ever.
`SysfsLed`: weak fairness of each process's own steps, i.e. scheduling and system
calls that return; a failing lock is never relied on, so the property means that
the lock is really released. The clients of `LockSession` have no fairness, and no liveness
is claimed for them.

### Findings

1. **A deactivated priority goes on flashing on the LED** (`deactivated_flash`,
   `led_control.c:143`). Deactivation neither cancels the flash of that priority
   nor hides it; `set_state` hides only what is *less* urgent.
2. **A retrigger may add more than one play** (`retrigger`,
   `led_pattern_control.c:549`). The count starts again, where the comment
   promises one more play.
3. **`ledcmd -k` of an alias succeeds although another client holds one of the
   alias's LEDs** (`alias_lock`, `ledcmd_cli.c:57`). One granted LED is enough.
   `ClaimsAreTrue` holds for names of LEDs and for all LEDs.
4. **The sysfs backend reports success for writes that failed** (`sysfs_flush`,
   `led_sysfs.c:213`). `fprintf` and `fputs` fill a buffer, and the result of
   `fclose`, which writes it, is ignored.

Observations, which no run checks:

* One failed write ends a flash for good, also one that was to go on for ever
  (`led_control.c:80`): the timer is set again only after a successful write. The
  steps of `led_faults` do this, and `AssignmentReachesLed` is how such a LED recovers.
* A set request for a state that the plugin can't write, with a flash type and no time,
  fails; but the flash that the priority had has lost its time and has the refused state as
  its end (`led_control.c:283-324` runs before the write). Nobody is told; it is the reason
  for the hypotheses of `EveryChangeIsReported` and `TimersDriveFlashes`. The same goes for a
  flash that can't be written: the old timer is still pending, and when it expires the refused
  flash goes on in place of the old one. No comment, document or test says which of the two a LED
  should show, so no property does; `PendingFlashHasFinalState` only says that what the timer
  finds can be ended.
* The comment at `led_control.c:171-176` says that a lock ID in a set request selects
  the LOCKED priority; the code goes by the priority's name, so that a request with a
  lock ID and no priority sets NORMAL, underneath the lock.
* `list_supported_states` answers with every state, also those that the plugin lacks
  (`led_daemon_ubus.c:842`).
* The error message of a failed play or stop request does not reach the caller of
  `lib_led_pattern.c`: its policy looks for the message under the name of the success flag.

## 4. The proofs

All theorems hold for every value of the constants that satisfies the named
assumptions of the module and, where one is stated, the theorem's own hypothesis.

* **`PriorityOrderProofs`**: a non-empty set of priorities has a least member. The
  same argument (the least number that isn't reached) gives `Induction`, over an
  interval and for a set instead of a predicate. With it the other modules go through
  queues, messages and the equations of recursive functions.
* **`LedPriorityContextProofs`**: `IInv`, the conjunction of the type, the agreement
  of the two levels, NORMAL's bit and the value last returned, is inductive. The
  agreement is needed for the refinement: only then is the least bit of the least
  group the least active priority (`HighestIsMostUrgent`). That the table gives the
  least bit is `UnmapIsLeast`, over its 256 entries; NORMAL's bit is needed because an
  empty byte has an entry too. From it follow the two invariants and `BitmapImplementsSet`, for every number of priorities below 64.
* **`LedControlProofs`**: every request does the same to each LED it visits, so the
  invariants are about a LED's record, lifted to all LEDs at the end. There are
  three, each including the one before:
  - `LedInv`, for every plugin and environment: the type, the agreement of the
    lock's two records, and "a flash that is running or whose timer is pending has
    a final state". The last part is stronger than `PendingFlashHasFinalState`,
    which is not inductive: a context whose `current` is not 0 gets its timer back
    from any later `set_state`, so its final state has to be known before the timer
    is set. `LockingImplemented`, the refinement of `LedLock`, and the two action
    properties about writes, `ShownStatesAreUrgent` and `AssignmentsReachLeds`,
    follow, with failing writes, other writers and any aliases. For the first one, a write
    shows the highest priority (`ActivateShowsHighest`, `DeactivateShowsHighest`), the one that
    was asked for (`SetLedShowsRequested`) or the flash whose timer expired (`TimeoutStepShows`).
  - `LedShows`, if `PluginWorks`: what is recorded, and what a running flash ends
    in, can be written (`Writable`); timers and flashes agree (`TimerFollows`);
    the LED shows an urgent state of a priority that clients name, or of the highest one.
    `Writable` is what makes the invariant
    inductive: a restore that fails would leave the LED with a state that is no
    longer urgent enough.
  - `LedSteady`, if `SteadyClients` and clients are disciplined (`DisciplinedSpec`):
    only NORMAL flashes, and the LED shows its highest priority's state.
    Flashes of other priorities have to be excluded, because they go on after a
    deactivation (finding 1).
* **`ClientProofs`**, sessions: `SessionInv`. A claim is made when an answer is read, after
  the request was handled; so the invariant says what is known at every stage on the
  way: an answer of success is true while it waits (`AnswersAreTrue`), only a
  client's last request is wanted and answered (`WantedAreCurrent`, `AnswersAreLast`), and
  no request to unlock a LED that its client claims is in the queue
  (`NoClaimIsBeingUnlocked`) — that one is what an abandoned request could break.
  Any number of clients, names and waiting messages.
* **`ClientProofs`**, front end: each result is true when it is made (`GoodVisit`), and
  stays true through the second visit of the LED (`GoodLed`), the other LEDs of the
  entry (`GoodEntry`) and the entries after it (`GoodMessage`, by induction over the
  message, with the equation of `After`). What later entries keep is `Keeps`: nobody
  takes a lock that was granted, nobody locks what was released, and a state that
  was set is only replaced by another entry's. `FrontInv` adds to the
  controller's invariant that the last reply is true. Replies, the locking of all
  LEDs and the refinement of `LedLock` follow for messages of any length.
* **`PatternControlProofs`**: `PlayerInv`: every context in the queue has a step to
  perform, its timer, a start step with LEDs if it has performed none, and the right
  count (`ContextInv`), no pattern is in it twice and no two share a LED in a priority.
  The count is the delicate part: before the first step it is one ahead of the plays, afterwards they
  agree (`CountIsRight`); for a pattern that repeats it wraps round and says nothing. Stopping a set of
  patterns is a recursive function over the queue; `SelectFacts` says what it
  keeps, in which order, and which end steps it performs. All the properties of the player
  that are not liveness follow, for any patterns, aliases and default priorities.
* **`LedDaemonProofs`**: the daemon's controller is an instance of `LedControl`, whose lemmas are
  about another instance with the same constants; the lemmas `Same...` identify the two. What the steps
  of a handler do to a LED's record is a recursive function over the steps and over their LEDs. A set of
  records that contains the outcome of every action on a priority contains the outcome of
  all steps (`PerformLedCloses`, `PerformStepCloses`, `PerformStepsCloses`), so that an
  invariant of the record has to be shown for one action only.
  `QuietInv` is `PlayerInv` with the LEDs' records in `Uncritical`: CRITICAL is neither
  active nor flashing, so that a lock's LOCKED priority is the highest of its LED
  (`LockIsHighest`). From such a record patterns reach only those of `UnderLock`, which show
  the same and have the same lock.
  The two theorems about priorities and flashes relate a LED's record to the steps that
  the playing patterns are at (`CurrentSteps`). A handler of the player changes both,
  often for several patterns at once: it ends those that are taken over, then performs the start
  step and perhaps the first one. So each invariant is a relation between the two (`ActiveOn`,
  `FlashesOn`). `KeptBySteps` says that every single step keeps the relation, and `HandlersKeep` that
  every handler then does, by induction over the patterns it stops. What remains are
  statements about one step of one pattern: its LEDs share nothing with those of the others
  (`Apart`), so the step touches only its own priorities (`StepActive`, `StepIdle`).
  `PatternsShowTheirSteps` needs a third relation, `ShownOn`: the priority that a current step sets
  holds the step's state, steady or flashing with its timer, and if it is the LED's highest the LED is in
  that state (`ShowsAt`). It speaks of priorities that are hidden too: when what is above ends, the LED falls
  back to a state that the pattern set long before. The relation is kept only by records in `Calm`: CRITICAL
  is unused and the LOCKED priority never flashes, so that nothing that is inactive writes over the step.
* **`ConfigFilesProofs`**: `FilesInv` says of each of the two trees that it holds the
  first definitions among the *places* (file, definition) that were read (`Holds`). A definition
  that comes after all others is inserted if its name is new (`InsertHolds`); so a file
  keeps the relation, by induction over its definitions (`TreesHold`), and a step over the files. Which
  definitions are parsed is stated once for each parser (`PatternParsed`,
  `AliasParsed`). That a loaded pattern is complete uses the first place of its name
  (`FirstPlace`), whose value it is, and that a parsed list has the length of the list.
* **`SysfsLedProofs`**: while a sure process is inside, it owns the lock and nobody
  else is inside, its first file has its value after the first write and both
  have after the second (`Undisturbed`). The lemma `FirstWrite` is the reason for
  the order of the files: the first one written is never 0, hence the kernel never
  sees two zeros. `SuccessMeansSet`, `SteadyNeverBlinks` and the type follow, for
  any number of processes.

The hypotheses, and why the code is used like that:

| Hypothesis | Says | Without it |
|---|---|---|
| `PluginWorks` | writes succeed, nobody else writes, the states reported at start-up and the ends of flashes can be written. The test backend, which is told which states it has, is like that | a LED keeps what it showed; a failed timer stays unset (first observation) |
| `SteadyClients` | in addition, requests flash only the NORMAL priority. Clients that flash another one get what `UrgentStatesAreShown` says | finding 1 |
| disciplined clients | a priority is set only while it is active, as a pattern does that activates it in its start step | an inactive, more urgent priority is shown |
| `SteadyMessages` | the same for messages, where only valid set entries count | as above |
| one lock ID per message (`MessagesImplementLocking`) | the library sends one entry. `LedLock` allows one locker per step | a message may unlock with one ID and lock with another, two steps of `LedLock` |
| nobody uses CRITICAL (`CriticalIsUnused` of `PatternsLeaveLocksAlone` and `PatternsShowTheirSteps`) | neither clients nor patterns name that priority, as those of `patterns` | CRITICAL is there to be shown above a lock |
| no lock flashes (`LocksAreSteady` of `PatternsShowTheirSteps`) | clients set only steady states of the LOCKED priority, as `ledcmd -i` does with `-o` or `-O`; with `-f` or `-s` it flashes | the flash goes on after the unlock (finding 1) and hides the pattern |
| writes succeed (`~ WritesMayFail` of `PriorityActiveWhilePlaying`, `FlashesEndWithPatterns`, `PatternsShowTheirSteps`) | a step opens the backend and finds its LEDs, as in the runs | a step that can't open does nothing, and an end step that can't leaves its priority active |
| patterns are tidy (`TidyPatterns`, in the properties themselves) | an end step gives back what the start step took, and a steady state to what was flashed | the pattern's own file leaves a priority or a flash behind |
| writes succeed, of states that the plugin can write (`EveryChangeIsReported`) | | a failed set has changed the flash |

The instances `led_flash`, `led_locks` and `patterns` satisfy the hypotheses of the theorems about the
properties that they check.

Only model-checked: liveness (`TimedFlashEnds`, `FinitePatternsEnd`, `SettingEnds`),
since fairness is out of TLAPS's reach here. Every other property of the passing runs is
stated by a theorem.

## 5. Not modelled

* Memory: `strdup` or `calloc` that fails, and what is freed when.
* The syntax of JSON, of blobmsg and of names; the states, priorities and flash types
  of a message are values, of which one may be unknown. A pattern without steps is
  loaded by `ConfigFiles` as the parser does, but the player assumes that there is none:
  it would read past the end of an array.
* The list handlers of the front end, which keep no state and change none, and the
  connection to ubusd (`ubus_connected` registers the object again).
* The client library's queries and pattern calls.
* Real time: no property says *how long* a flash or a step takes.
* Plugin loading, option parsing, logging, the names of colours: pure input, output
  or start-up code without state that another part reads.
* `get_led_state` and the listing of LEDs in the sysfs backend; both run once, at
  start-up, and `LedControl` takes any of their results as an initial state.

## 6. Plan

1. `FlashTiming`: a clock for flashes, to state that a flash of T ms takes at least T
   and less than T plus a period; `uint32_t` milliseconds passed as `int`
   (`led_control.c:50`).

The abstraction of `active` to a set in `LedControl` is justified by
`BitmapImplementsSet`; an instance of `LedPriorityContext` per LED is not needed.
