# A TLA+ development of the MokyaLora firmware

MokyaLora is a handheld LoRa messenger on one RP2350B. Core 0 runs Meshtastic, an external
git submodule; Core 1 runs FreeRTOS with the user interface, the input method, the drivers and
the USB port. The two cores share 24 KB of SRAM. This directory holds TLA+ models of the
firmware that is in `src/`, TLC configurations that check them, and proofs that TLAPS checks.

    tlc -config X.cfg M.tla     # the runs of section 3: X.cfg and M are in PROJECT.json
    tlapm M.tla                 # the modules with theorems of section 4

## 1. The system

### 1.1 Parts

| Part | State | Operations | Correct if |
|---|---|---|---|
| IPC rings (`shared/ipc/ipc_ringbuf.c`) | three rings in shared SRAM: `head`, `tail`, `overflow`, slots | push, pop, pending, init | no message torn, lost, duplicated, reordered; also when the indices wrap |
| Flash park (`ime/flash_safety_wrap.c`, ISR in `main_core1_bridge.c`) | two lock words, two doorbells, two ready flags, event registers | wrapped erase/program; park ISR | nobody fetches from the flash while it is written; everybody goes on afterwards |
| Bridge task (`main_core1_bridge.c`) | scratch buffer, notification, CDC endpoints | drain DATA, drain LOG, push CMD, wait | byte stream intact; every message dispatched once, in order; nothing waits for ever for a port that is read |
| Messages (`messages/`, `ui/messages_view.c`, `ui/view_router.c`) | inbox ring, TX status cell, browse offset, footer | publish, reply, navigate, refresh | the screen settles on what is there; a reply goes where the user sees it go; text sent once |
| Node database and view (`messages/nodes_db.c`, `ui/nodes_view.c`) | 8 entries, change number | upsert, take_at, refresh | no stale or torn entry stays on the screen |
| Keypad (`keypad/keypad_scan.c`) | debounce counters, long-press state per slot key | scan pass | one press and one release per stroke, in alternation |
| Key events (`keypad/key_event.c`, `key_inject*.c`) | key queue and view queue, bitmap of keys held by hardware, SWD ring | push of hardware / injected keys, pop | hardware wins over injection; the queues agree |
| Input method (`mie/src/ime_*.cpp`) | mode, keys typed, candidates, multi-tap, long press, SYM1, picker | key, tick, search, commit | whatever timers run out together, keys go only where the user sends them |
| Searchers (`mie/src/*_searcher.cpp`) | two dictionaries in flash | search | what is found is what the word list holds for these keys |
| IME task (`ime/ime_task.cpp`, `lru_persist.cpp`) | text buffer, cursor, dirty flag, commit counts, flash image | commit, trip wires, save, load | text and context agree; what was learnt is saved; a crash leaves a loadable image |
| Personal cache (`mie/src/lru_cache.cpp`) | up to 128 words with stamps and counts | upsert, lookup, serialise | the weakest goes first; the latest is suggested first |
| I2C bus, charger, backlight, sensors (`i2c/`, `power/`, `sensor/`) | bus mutex, pin pair, cached status per driver, the chips' registers | poll, initialise, runtime calls | one pin pair at a time; the chip holds what the driver says |
| GNSS (`sensor/teseo_liv3fl.c`, `gps_*.c`, `ui/rf_debug_view.c`) | line, satellite cycles, command in flight, double buffer | poll, commands, dummy injector | a reply belongs to its command; no cycles mixed; the reader sees whole sentences |
| Dictionary compiler (`mie/tools/gen_dict.py`) | two dictionaries from a word list | load, build | every usable word is in the dictionary, under its keys |
| Bring-up firmware (`tools/bringup/`) | menu, console, claimed peripherals, memory timing | about 60 commands | a command leaves the board as it found it |
| Dictionary loader, display, PSRAM, trace, configuration | set up once | | straight-line or pure I/O |

### 1.2 How they interact

* **Core 0 and Core 1** exchange messages through the rings (DATA and LOG towards Core 1, CMD
  towards Core 0) and ring each other's doorbells. DATA blocks its producer when it is full, LOG
  drops, CMD makes the bridge task spin (`docs/design-notes/firmware-architecture.md`, 5.1).
* **bridge_task** dispatches DATA messages: bytes go to USB, text to the inbox, TX_ACKs to the
  status cell, node updates to the node database; all three cells are shared with lvgl_task
  *without a lock*.
* **lvgl_task** drains the view queue of key events and then refreshes every view, once per tick.
  The messages view pushes replies on the CMD ring *itself* and clears the text of the input
  method; the IME view sets the selected candidate.
* **ime_task** pops the key queue, runs the timers of the input method, owns the text and the
  candidates under a mutex, and writes the personal cache to flash, for which it asks Core 0 to
  park.
* **charger_task, sensor_task, gps_task** and the callers of the backlight share one I2C
  peripheral. The mutex of `i2c_bus.c` covers the switch of the pin pair and the transfers.
* **Scheduling**: preemptive, time slices of 1 ms between tasks of equal priority. usb, bridge,
  lvgl, charger, sensor, gps and injection tasks have one priority, ime_task a higher one. So
  bridge_task and lvgl_task interleave at every instruction; lvgl_task never sees ime_task in the
  middle of a critical section.
* **The bring-up firmware** is a program of its own: one loop that serves a serial console and a
  menu on the display, whose commands use the same pins, blocks and memory interface.

### 1.3 What is hard

Lock-free words shared by two cores and by time-sliced tasks; a handshake between an ISR and a
loop with a bounded wait; two bounded queues in opposite directions between two loops; state that
is displayed and looked up again later; acknowledgements and answers in any order; flash that may
lose power between erase and program; several timers that run out in one turn; chips that forget
their settings between two transfers; transfers that fail half-way through an initialisation;
commands with many early exits that must give back what they took. `PROJECT.json` lists each of
these hazards at its line, with the properties that would catch it, or with the reason why none
does.

## 2. The modules

| Module | Models | Actions |
|---|---|---|
| `BoundedFifo` | the promise of a ring: a bounded queue with accept, commit, deliver | 3 |
| `IpcRing` | `ipc_ringbuf.c`: every access to a word the other side uses is a step | 9 |
| `FlashPark` | both writers and both park ISRs, boot flags | 18 |
| `Bridge` | `bridge_task`, doorbell ISR; Core 0's loop and the USB host as environment | 20 |
| `Messages` | inbox, status cell, messages view, view router, committed text | 25 |
| `Nodes` | node table and nodes view | 12 |
| `MCViews` | `Messages` and `Nodes` for TLC, one of them followed at a time | |
| `Keypad`, `MCKeypad` | matrix scan, key events, injection as a producer | 7 |
| `LruCache` | the personal cache as a data type: upsert, eviction, lookup, what a torn image yields | |
| `LruStore`, `MCLruStore` | learning, save throttle and save of ime_task, power failure and reload | 6 |
| `ImeKeys` | the 20 input keys: their bytes, phonemes and letters | |
| `Dictionary` | `gen_dict.py`: word list -> MIED index and MIE4 syllable dictionary | |
| `Searchers` | `TrieSearcher` and `CompositionSearcher` as functions of those tables | |
| `Lookup` | word list -> candidates, key by key, against a reference on the word list | 1 |
| `ImeSearch` | `ime_search.cpp`: which searches a mode asks for and how results are joined | |
| `Ime`, `MCMie` | `ImeLogic`, the text of `ime_task`, `ime_view` | 16 |
| `Peripherals` | I2C bus, charger, backlight, three sensors, their tasks | 9 |
| `Gnss`, `MCGnss` | the receiver's driver and task, the RF view, the dummy injector and its reader | 14 |
| `BringupSteps` | each console command as the list of its steps | |
| `BringupMemory` | what the steps of the memory tests do to the QMI interface | |
| `Bringup` | the loop: console, menu, running command, charger watchdog | 8 and the 13 kinds of step |
| `IpcProofs`, `BridgeProofs`, `ViewsProofs`, `KeypadProofs`, `LruStoreProofs`, `PeripheralsProofs`, `BringupProofs` | the proofs about the module of that name (`IpcProofs`: `IpcRing` and `FlashPark`; `ViewsProofs`: `Messages` and `Nodes`; `PeripheralsProofs`: `Peripherals` and `Gnss`), section 4 | |
| `SequenceFacts` | the lemmas on numbers and sequences they share | |

Which uses which: `IpcRing` INSTANCEs `BoundedFifo`; `LruStore` and `Ime` use `LruCache`;
`Dictionary` <- `Searchers` <- `Lookup` and `ImeSearch` <- `Ime`; `MCMie` composes `Ime` and
`Lookup`, `MCViews` composes `Messages` and `Nodes`; `BringupSteps` and `BringupMemory` <-
`Bringup`. `Bridge` uses the rings as the queues that `IpcRing` is proved to implement
(`IpcProofs!RingImplementsFifo`), so a push and a pop are one step each there. That is
justified only for one producer per ring; the run `CmdRing` shows what the second producer of the
CMD ring, `messages_send_text`, does.

### IpcRing

`head`, `tail` and `overflow` are the words of `IpcRingCtrl`, with their wrap at `IndexModulus`
(2^32 in the code). `PushBegins` is the load of `head` and `tail` and the test for room;
`WriteHeader`, `WritePayload` and `Publish` are the following stores; `PushFails` is the early
return for an oversized payload or a full ring, with the count in `overflow`. `PopBegins`,
`CopyHeader`, `CopyPayload`, `Release` are `ipc_ring_pop` likewise. The acquire loads and release
stores of the code make the steps visible in program order, so sequentially consistent
interleaving is the right model for the ring's own words. A payload is one value: it is copied in
one step, which loses nothing because a slot is never written and read at the same time (this is
what `RingInv` says).

### FlashPark

The writer's `pc` follows `mokya_flash_park_core0`, the flash operation and
`mokya_flash_unpark_core0` line by line; the ISR's `isr` follows `ipc_doorbell_isr` and
`flash_park_handler`. While a core's ISR is active its thread makes no step. `Timeouts` says when
the bounded wait (`PARK_WAIT_BUDGET`) may run out: "late" is the code on a machine in which 5 ms
are long for an ISR: only while the other core has nothing to run that would answer; "any" makes
no such assumption. Core 0's half is the mirror image that the comments of
`flash_safety_wrap.c` describe and is external.

### Bridge

One loop of `bridge_task`: one DATA message is taken and dispatched (`Dispatch`, `IgnoreOther`,
`RebootNotified`, `TakeSerial` with `WriteChunk`/`WriteEnds` for the partial CDC writes), LOG is
drained only when there was no DATA, then the CDC OUT fifo is read and pushed on CMD, spinning
while that is full; finally the task waits for a notification, with a time-out. What is assumed of
Core 0: it produces DATA and drains CMD in the same loop and blocks in the former. What is assumed
of the host: a client that has the port open reads it. A client may open and close the port at any
time and need never open it (`ClientComesOrGoes`: the device stays mounted and nobody reads), and
the device may be unplugged (`HostLeaves`). While nobody reads, `bridge_task` stays in the retry of
`WriteChunk`; `DataIsHandled` and `CommandsAreExecuted` except that time, and only that: they hold
again once a client reads. After a DATA message other than serial bytes the loop starts anew and
leaves CDC OUT alone (the `continue` in line 294); two messages cannot show whether an endless
series of them starves CDC OUT, so the model claims nothing about that.

### Messages

`bridge` is the place of bridge_task inside `messages_inbox_publish` or
`messages_tx_status_publish`, `pc` that of lvgl_task inside `view_router_tick`: the key that is
applied (`FuncPress`, `UpPress`, `DownPress`, `OkPress` and the steps of the reply), then
`messages_view_refresh` (`Refresh`, `Peek`, `TakeBegins`, `Render`, `StatusBegins`,
`StatusResult`). Every store to and load from a cell that the two tasks share is a step, except
that the `seq` of a slot and `s_latest_seq` are stored in one and that the fields of the status
are copied in one. A message is its sender and its text, equal numbers, in two fields that are
copied separately: a torn copy is one whose numbers differ. Text is a sequence of numbered pieces;
`SendMax` of them fit into a message. The IME's lock is never contended to the point of its
time-out, because ime_task has the higher priority and does not block inside. Hidden views cost
one bit (`hidden`): FUNC toggles it. `outcome` is a history: whether the footer has yet to show how
the last send has ended ("due"), shows it, or has shown it and was painted over ("covered", which an
arrival does, section 3.2).

### Nodes

`UpsertBegins` finds the slot (the peer's own, a free one, or the one touched least recently) and
names the peer; `UpsertData`, `UpsertTouch` and `UpsertChange` are the stores that follow, up to
the release store of `s_change_seq`. The view starts a rendering on UP, DOWN or a refresh that
sees a new change number; `TakePass` is one round of the search in `nodes_db_take_at`, `CopyId`
and `Show` the copy of the entry in two halves. Within one round the touch numbers are read at
once. Update *n* carries data *n*, so a torn entry has the identity of one update and the data of
another. `heard` remembers the peers of all updates, from which `KeepsRecent` says what the table
must hold; `missed` says that a hidden view has noted a change it did not render.

The two views share only the FUNC key and the tick, which each model has. `MCViews` therefore
follows one of them (chosen in the initial state) instead of multiplying their states: the nodes
view, or the messages view in one of three situations with bounds of their own (`Bounds`) -
"browsing" while three messages arrive; "replying" twice, so that the two TX_ACKs may come in any
order; "returning", where the user replies, leaves the view and comes back.

### Keypad

What `keypad_scan_task` keeps per key is private to it, so `Scan` is one pass over the matrix: the
debounce counters, the deferred press and the long-press timers of all keys for any reading of the
matrix, and the list of events to push. The pushes are steps of their own, since the inject task
(same priority) may push in between: `MarkHw` is the update of the bitmap, `InjectTest` the test
of it, `Send` the queueing. The copy for the view queue is counted in the same step: nothing but
the number of events in that queue is kept. `heard` is what ime_task makes of the events it
pops; it excuses a key ("lost") only when an event of that key found the queue full. Time is the
number of scans since a press, as far as the threshold: the behaviours are infinite and no bound
on time is needed.

### LruCache and LruStore

`LruCache` defines the operations of `lru_cache.cpp` on a sequence of entries. `Deserialize` says
what is read back when only the first bytes of an image have been programmed: the fields of an entry
are lost in the order in which they lie, and 0xFF is a length out of range but a valid stamp, count
or text. With pages of 32 bytes the end of a page falls on the same places of an entry (after 8, 24
or 40 bytes of it) as with the 256 of the flash.

`LruStore` is the loop of `ime_task_fn` from one wait on the key queue to the next: `TimeOut`, or a
`KeyEvent` that commits up to two texts, learns at most one word and may cycle the mode, then
`Throttle`, the three tripwires. The save is `NoBuffer` (the heap refuses) or `Erase` and one
`ProgramPage` per page; both ends reset the counters, whatever the save returned. `Reboot` may come
between any two steps. `pending` is the difference of the two commit counts of the code; `unsaved`
and `fails` count since the last save that really succeeded. Time stamps start at 0 with every
boot, and loaded words keep those of an earlier one, as in the code: therefore the order of
suggestions (`LatestIsFirst`) and of eviction (`ForgetsTheWeakest`) is claimed for the first boot
only. Learnt later, a word ranks behind the loaded ones until the clock has caught up. The wrap of
the clock after 49 days is beyond the bound.

### The input method: from a word list to the text

`Dictionary` is `gen_dict.py` as two functions of a list of entries [word, frequency, reading]:
`BuildMied` (every abbreviation of a reading of at most `MaxAbbrSyls` syllables is a key; words per
key pruned, frequencies capped) and `BuildMiedV4` (characters with their readings, words as indexes
into these, grouped by length and first key). Sections of the files are sequences and functions;
offsets and the byte layout are left out. A phoneme is a key and its place on it, as the code has it.

`Searchers` has `TrieSearch` (bisection, walk over the run of keys with the query as prefix, sorted
bounded results) and `CompositionSearch` (which strategies a reading may be spelled by, choice of the
reading per character by recursion over the keys, limit by frequency). Words are shorter than the
31 bytes at which the search cuts them, and dictionaries have the flag `phoneme_pos`, as those of the
compiler do. `Lookup` types keys one after
another and compares what is found with `Meant`, which is said of the word list alone.
`ImeSearch` is `run_search`: which searches a mode asks for, the fall-back to shorter prefixes and
the merge with the personal suggestion.

`Ime` is the state machine. Its state `ime` is all that `g_snapshot_mutex` protects: mode, keys,
candidates, selection, the character pending in multi-tap (`tap`), the key a long press cycles
(`cycle`), SYM1, the picker, the context flags of English, the personal cache, text and cursor. An
action is a turn of `ime_task`: one key event with everything it calls (timers first, key, search,
display line, commits into the text, context), `Wait` a turn in which only time passes. The keys are
`PressSlot` (short and long), `PressSpace`, `PressTab`, `PressMode`, `PressDel`, `PressOk`,
`PressSym1`, `ReleaseSym1`, `PressSym2`, `PressSideways`, `PressUpDown`, `PressOther`. lvgl_task has
`Refresh`, `ViewUpDown` (which sets the selection from what was *drawn*) and `ClearText`, between any
two turns. A character is a number, those of three bytes are followed by two `Cont` in the text, so
that cuts inside a character are seen. The tables of labels are numbers. The wall clock counts in
units of which the multi-tap time-out is two and a long press one.

### Peripherals

A driver call is a job: the list of register transfers it has still to make; `Transfer` makes one,
`Fault` lets it fail, `Release` ends the job and gives back the bus, `Assign` is what the task does
with the result. `ChargerTask` and `SensorTask` start the next job when the task comes round
(`bq25622` initialisation, poll and recovery; the three sensors one after another, then polls),
`Call` is a runtime call of another task. A chip is its registers: a sensor's registers are "por" or
"set", the charger's limits, `CTRL1` with charge enable, Hi-Z and watchdog, `WD_STAT`. `Expire` is
the charger's watchdog, `BrownOut` a sensor that loses its supply. What a transfer sees and writes is
the chip of that moment: the read and the write of `ctrl1_update` are two steps. Measured values are
left out. The limits are those that `hw_init` writes before it kicks the watchdog; `ADC_CTRL`, written
after the kick, is none of them, for an expiry does not touch it (`bq25622.c:264`). `ExpiresMidCall` says whether the watchdog may run out inside a call: a call takes
milliseconds, the watchdog 50 s since the last kick, so the run says no.

### Gnss

The receiver puts sentences into its queue in pieces (`Emit`, which may lose one) and carries out
commands (`Obey`). gps_task is `Poll` (transfers, bytes into the line, whole lines into the parsers)
and, inside a command, `GnssCall`, `Send`, `PollAwaiting`, `GiveUp`; `PollFails` is a failed transfer.
A poll reads any number of pieces, but at most as far as the sentence that completes an RF list: the
list is then stored over the one before it, first the count, then satellite by satellite, then the
flag (`StoreRf`), and what waits behind it is left to the next read. lvgl_task has the same priority
and refreshes the RF view, hidden or not, between any two of these steps: `Refresh` takes the position and the count, `CopySat` copies one satellite, `Render` sorts the copy,
fills the rows and writes the footer. The fields of one satellite are copied at once, and so are
those of the position. Of the pooled view of the satellites in the sky (`view`) the screen only shows their number; it is
stored at once.
`Dummy` and `ReadSlot` are the injector of the build without a receiver
and Core 0 reading the double buffer. `bad` counts what went wrong, so that a property can say what
it tolerates. `MCGnss` has seven scenarios, each with one group of sentences, the rate in the
receiver's memory and its own bounds on losses, faults, calls and refusals; those in which nothing
changes that the RF view shows do not follow it (`viewed`), for it only reads. The fields are left out;
what is kept of a sentence is its kind, talker, number and total, signal, validity.

### Bringup

Every command is a sequence of steps (`BringupSteps`): claim and release a block, talk through it,
draw, stop or start the menu's display, write the backlight's or the charger's register, set up or
release keypad pins, wait for BACK; `Maybe(n)` stands for an early exit. The memory commands
(`BringupMemory`) set the QMI: interrupts, direct mode, flash and PSRAM timing, pads, the select pin,
the PSRAM's own mode. `Bringup` is the loop: `SerialByte`/`SerialIdle` switch between console and
menu, `handle_command` and `RunItem` start a command, `CommandStep` is one of 13 kinds of step,
`BackRead` the key. When the two seconds of silence pass, and when the charger's watchdog expires,
is left open.
SDK flash operations with interrupts enabled are taken as one step. Writes to the charger and the
backlight over I2C and claims of PIO programs and state machines succeed: what a command does after a
failed one is not modelled.

## 3. The runs

| Run (cfg) | Question | Bounds | Result |
|---|---|---|---|
| `IpcRing` | ring invariant, whole messages, refinement of `BoundedFifo` | 3 slots, indices wrap at 6, 4 messages (one without payload, one too long) | holds |
| `CmdRing` | whole messages with the two producers that CMD really has | 2 slots, modulus 4 | violated |
| `FlashPark` | handshake invariant, XIP safety from boot, answers only to requests, every park and every write ends | Core 1 writes | holds |
| `Bridge` | order and integrity of the three streams; all DATA handled and all commands executed, with clients that come and go, unless the cores wait for each other or nobody reads the port | 2 DATA, 2 commands, rings of 1, fifo of 1 byte, payload of 2 | holds |
| `Views` | browser inside the inbox, no torn cell, text sent once, no torn or overtaken node stays, both views settle, the outcome of a send is displayed | inbox of 2; browsing: 3 messages, 3 keys, 1 piece of text; replying: 1, 3, 2; returning: 2, 4, 1; table of 2, 3 peers, 3 updates, 3 keys | holds |
| `ReplyTarget` | the reply goes to the displayed sender, if a message is displayed | 2 messages, 2 keys | violated |
| `Keypad` | debounce, pairing, arbitration bitmap, the IME agrees in the end | a slot key and a plain key, 2 readings, long press after 2 scans, queue of 2; the plain key is injected | holds |
| `LruStore` | unsaved commits bounded, what a power failure leaves, order of eviction and suggestions, save on mode change | cache of 2, 3 words, a save every 2 commits, 4 pages, one power failure or refused buffer, words learnt in 2 units of time | holds |
| `Mie` | searches find what the word list means; candidates current, timers consistent, spacing follows the text, no key lost | 5 word lists typed up to 6 keys; 5 sets of keys, 6 to 8 presses, at most 3 keys typed, text of 8 to 14 bytes | holds |
| `Peripherals` | pin pair, cached enables, online implies configured, limits survive the watchdog, drivers recover | 1 failed transfer, 1 upset, 4 runtime calls, disconnect after 1 failure | holds |
| `Gnss` | no cycles mixed in what is stored, the strongest of the copied satellites shown, answers belong to their commands, double buffer whole, the RF view settles on the last list and the receiver is online again | 2 talkers' slots, 3 satellites per talker, RF lists of up to 3, 2 rows, queue of 4 pieces, disconnect after 2 failures | holds |
| `Bringup` | commands use what they hold and give it back, menu usable after any item, memory safe, items end | all items of the menu but those of its memory page; all console commands but five | holds |

The bounds are small but every interesting case occurs: the ring is full and empty and its
indices wrap several times with every number of messages queued; the payload of the bridge is
larger than the fifo, so it is written in pieces; the inbox of two slots wraps with three messages;
a reply is in flight while messages arrive, while another one is and while the view is left and
entered again; the port is closed with a payload half written and opened again; the table of nodes
evicts; an RF list is stored while the one before it, longer or shorter, is being copied; the
personal cache is full, and the power fails with any number of pages of its image programmed. The
word lists have a character with two readings, a word listed twice, more words than a list of
candidates takes, a frequency above the limit, words too long for a table. The text of the input
method fills up and is cut; every pair of timers can run out in one turn. The one failed transfer of
`Peripherals` may be any, in any job. The bring-up commands left out of `Bringup` are those with
which a property does not hold (`flash_sweep`, `flash_sweep2`, `flash_deep_scan`,
`flash_deep_ablation`: section 3.2; and `psram_tuning`, which contains the first); the items of the
menu's memory page, of which `psram_tuning` is one, are run from the console. Each property is checked against
a change of the code that it must reject (`mutants` in `PROJECT.json`).

### 3.1 Fairness

In `FlashPark` each core's thread and ISR run (weak fairness of the core's steps only, not of
beginning an operation). In `Bridge` the task and the ISR are scheduled, Core 0's loop comes round
and a client that has the port open reads; nobody has to open it or to send. In `Messages` and `Nodes` both tasks are scheduled
(equal priority, time slices); nobody has to press a key or to send. In `Keypad` the scan task, the
consumers and an injection under way go on; nobody has to inject. In `LruStore` the loop comes round
(its wait has a time-out and its task the highest priority) and flash operations end; that the heap
has room is not assumed. In `Peripherals` a transfer that can be made is made, and a task that keeps
asking for the bus gets it (strong fairness: a FreeRTOS mutex goes to the waiter); nobody has to
make runtime calls. In `Gnss` gps_task runs every 100 ms, whatever call it is in, a call's time runs out, and lvgl_task
comes to the view at every tick; the receiver need not talk. In `Bringup` the loop and a command that can go on do, the two seconds of silence pass, and
whoever waits at a test presses BACK in the end. `Ime` states no liveness.

Deadlock is not checked in three runs: in `Bridge` the task halts on purpose after REBOOT_NOTIFY,
and in a circular wait both sides stop; in `Bringup` a console command that draws while the menu's
display is stopped really waits for ever (section 3.2); in `Mie` the bound on the presses ends the
behaviours.

### 3.2 Disagreements found

Two runs keep a disagreement of the code with a comment, quoted under `findings`: the CMD ring has
two producers (`CmdRing`); the reply is sent to the entry at the offset, not to the one displayed
(`ReplyTarget`).

The following statements of comments and documents are definitions of the modules that no run
lists, because the code does not keep them. Each can be seen by adding the name to the
configuration:

| Definition | Where to add it | Statement | What the code does |
|---|---|---|---|
| `Bridge!NoCircularWait` | INVARIANT, `Bridge.cfg` | the rings never block each other | bridge_task spins on a full CMD ring and does not drain DATA, on which Core 0 blocks (`main_core1_bridge.c:402-405`) |
| `Bridge!UnreadBurstsAreDropped` | PROPERTY, `Bridge.cfg` | "rely on a bounded FIFO-full retry to drop bursts when no client is actually reading" (`main_core1_bridge.c:48-50`) | the retry has no bound while the device is mounted (338-353): `bridge_task` stays in it, DATA fills up and Core 0 blocks, until a client reads or the device is unplugged |
| `Messages!OutcomeStays` | PROPERTY, `Views.cfg` | "delivered/failed both stay until the user navigates (UP/DOWN)" (`messages_view.c:198-200`); a refresh is to "replay the TX status overlay" (281-283) | an arrival repaints the footer (77, 280), and the change number of the outcome has been used up: it is not painted again |
| `Nodes!LatestAtActivation` | PROPERTY, `Nodes` alone with the constants of `Views.cfg` and `MaxKeys` | the nodes view is up to date when the user comes back | a hidden view notes the change without rendering it (`nodes_view.c:164-169`) |
| `LruStore!IdleSaves` | PROPERTY, `LruStore.cfg` | what was committed is saved once the user stops typing | the idle time is restarted in every turn with something pending (`ime_task.cpp:261-262`; the comment at :199 says it flushes) |
| `Ime!EndStaysEnd` | PROPERTY, `Mie.cfg` | "Preserves cursor/text_len invariants" (`ime_task.cpp:93-95`) | when the full text is cut, a cursor at its end looks at an old byte and moves back; a character may be torn at the front |
| `Ime!LabelIsDisplayed` | INVARIANT, `Mie.cfg` | "The current display_ contents are the label being committed" (`ime_direct.cpp:126`) | with a pending SYM2 over Chinese keys OK commits a candidate |
| `Peripherals!OnlineMeasures` | INVARIANT, `Peripherals.cfg` | a brown-out recovery brings the driver back (`sensor_task.c`) | a brown-out between two polls leaves the sensor online with reset settings |
| `Peripherals!ProductionValuesSurvive` | INVARIANT, `Peripherals.cfg` with `MaxUpsets = 2` | the production values survive a watchdog expiry (`bq25622.h`) | a runtime call kicks the watchdog and with it clears the sign that the settings were lost |
| `Peripherals!DutiesAreChip` | INVARIANT, `Peripherals.cfg` | the cache "is what the chip contains" (`lm27965.h:66-68`) | a duty whose write failed may be in the chip and is not in the cache; the next call that succeeds shows the driver online (`lm27965.c:125-133`). `CacheIsChip` claims the enables only, which every call writes again |
| `Gnss!ListsShownWhole` | INVARIANT, `Gnss.cfg` | the list shown is one group of sentences: "Published into rf_sats[] on the final sentence of the group" (`teseo_liv3fl.c:349`) | `rf_sats` is stored in place and without a lock (386-390) while `rf_debug_view.c:257-263` copies it: the screen may mix two lists, until the next refresh |
| `Gnss!RateTakesEffect` | INVARIANT, `Gnss.cfg` | "Steps 2/3 are required to effect the change" (`teseo_liv3fl.c:592`) | the answer to the restart command is ignored; also the header says that the rate is not saved, and it is (`teseo_liv3fl.h:148-152`) |
| `Bringup!MenuActive` | INVARIANT, `Bringup.cfg` | "When serial is idle >2 s, the LCD menu becomes active" (`i2c_custom_scan.c:617`) | `key` ends with the keypad's pins released, `led` with the backlight off, `gnss_tft`, `gnss_rftft`, `tft_fast` with the display stopped |
| `Bringup!FetchesAreSafe` | `SerialCommands` with `flash_sweep` (or `flash_sweep2`, `flash_deep_scan`, `flash_deep_ablation`, `psram_tuning`) | the sweep runs "from RAM (safe)" | interrupts are enabled while the flash is at a candidate timing (`bringup_flash.c:489-492`); `to_ms_since_boot` is called from flash in the window of the deep scans |

Smaller ones that the models follow and no definition states:

* Messages: text longer than a message, or committed between the copy and the clearing, is cleared
  unsent. Key events: an injected press passes while the user holds a slot key whose press is still
  deferred. Personal cache: an entry that straddles the last page programmed before a power failure
  is accepted with a damaged text.
* Input method: SPACE does not lock the key that a long press cycles (`ime_smart.cpp`); MODE with a
  symbol pending discards Chinese keys that have candidates (`ime_logic.cpp:286`); `ClearText`
  leaves the context flags of the old text (`ime_logic.h:179-182`); a timer's change may not be
  drawn until the next key (`ime_task.cpp:243`).
* Sensors: a missing LPS22HH keeps the other two from being initialised (`sensor_task.c:35`). GNSS: a
  late answer deceives `send_await` when a later call sends the same command, be it refused or not
  yet obeyed (`teseo_liv3fl.c:554-571`); two lost sentences can mix two cycles; `rf_debug_view.c:232` tests 1000 and not 0x1000; positions between
  −1° and 0° lose their sign on the screen.
* Bring-up: after `gnss_rftft` and its like the next drawing command within two seconds waits for
  ever, and a console command that waits for BACK after `key` waits on released pins; the tearing
  loop of `tft_fast` has no time-out (`bringup_tft.c:530-531`); a time-out of `core1_test` leaves
  core 1 in its loop (`bringup_core1.c:45-50`, `126-141`); `psram_init` reports success when the chip
  stays busy in 0x35.

### 3.3 Assumptions the properties need

Changing a constant shows what each one is for. With both cores in
`Writers` (and `RunningSpec`) TLC finds a deadlock: each parks in its ISR for the other one (the
shared layout header concedes this mutual wait). With `Timeouts = "any"`, `OperationsEnd`, `XipSafe`
and `AnswersRequest` all fail: a writer whose wait runs out goes ahead while the other core still
runs, and one that gives up between the test and the answer of the ISR leaves PARKED behind. `XipSafe` fails from boot when Core 0 writes: `c1_ready` is
published in `main()`, the doorbell interrupt is enabled much later by the bridge task.
`ResultIsShown` has to except the TX_ACK of another send: with two sends in flight the one status
cell can lose the outcome of the latest. It also excepts an outcome that was on the footer and has
been painted over, since `OutcomeStays` does not hold. `DataIsHandled` and `CommandsAreExecuted`
except a port that nobody reads and a circular wait. `CyclesUnmixed` says nothing of the RF list
while gps_task is storing it. `OnlineIsConfigured` excepts a brown-out,
`SettingsSurviveExpiry` a runtime call, `AnswersAreTrue` late answers, `CyclesUnmixed` a second lost
sentence, `SpacingFollowsText` the clearing of the text by another view, `MenuUsable` what a console
command left since the last item: the table above says why.

## 4. The proofs

Every theorem holds for all values of the constants that satisfy the named ASSUMEs of the modules,
which TLC evaluates in the runs. Each rests on an inductive invariant, and the text says what that
adds to the property and why.

**The rings** (`IpcProofs`)
* `RingTypes`: `Spec => []TypeOK`, for every number of producers.
* `RingSafety`: with one producer `[]RingInv`. The messages between `tail` and `head` are whole,
  but that alone is not inductive: `PushInv` adds what the producer's local copy of `head` says of
  the slot it is filling, `PopInv` what the consumer has copied so far. The step needs that two
  indices less than `SlotCount` apart never denote the same slot, also across the wrap
  (`SlotsApart`): here the assumption that `SlotCount` divides the modulus is used.
* `RingImplementsFifo`: with one producer every step of the ring is a step of the bounded queue or
  a stutter: test for room = accept, store of `head` = commit, store of `tail` = deliver.

**The flash handshake** (`IpcProofs`)
* `ParkInvariance`: with both cores up and either of them writing, and from boot on when Core 1
  alone writes, provided no wait runs out while the other core can answer, `[]ParkInv`; from it
  `ParkedWhileFlashIsOff` (`XipSafe`) and `AnswersAreAnswers`. `XipSafe` is not inductive: a parked
  core stays parked because the writer's word is never IDLE between its REQUEST and its IDLE, and
  an unanswered request always has a doorbell pending or an ISR on its way.

**The bridge** (`BridgeProofs`), for any ring, fifo and payload size and any number of messages
* `MessagesInOrder`: `[]DispatchedInOrder`. That statement compares a concatenation with an
  interval; the invariant (`OrderInv`) says where message *n* is: handled, being written to USB, in
  the ring, or still with Core 0 which waits for room (`Places`), and that nothing is handled after
  REBOOT_NOTIFY (`Announced`).
* `NothingLostOrOvertaken`: `[]BridgeInv`, which adds the bytes: as long as the host stays, what it
  has read, the CDC fifo, the rest of the payload under way and the payloads in the ring are,
  one after another, the stream Core 0 has sent. A step moves bytes from one of these pieces to the
  next; `StreamInv` says which pieces are empty where, and `OrderInv` that the ring holds the
  messages that follow.
* `CommandsArriveInOrder`: `[]CommandsInOrder`, the same in the other direction (`CommandsInv`).

**The two views** (`ViewsProofs`), for any capacity and any number of messages, updates and keys
* `BrowserStaysInside`: `[]InboxInv`. To `offset < count` the invariant (`BrowseInv`) adds that a
  sticky view is at the newest message and what the copies under way in both tasks may contain.
* `NothingSentTwice`: `[]SentOnce`. The text stays in the IME's buffer between the push and the
  clear, while the user goes on typing. `SendInv`: until the text is cleared, all that has been
  sent was committed before all that the buffer holds; what is about to be pushed is how the
  buffer still begins.
* `RecentPeersAreKept`: `[]NodesKept`. "Recent" counts the peers heard after a peer, the code
  compares touch counts, one update at a time. `NodesInv` relates the two: each entry but the one
  being filled has the number of its peer's last update as data and as touch, no peer has two
  entries, and a peer that was heard and is not in the table has left it full of later ones
  (`OthersLater`). Counting then gives the rest: the peers heard after one in the table are fewer
  than the slots, those heard after one outside are at least as many.

**The keypad** (`KeypadProofs`), for every matrix, threshold, timer and queue depth
* `KeysAreDebounced`: `Debounced`. `CountsReadings` says that a key's counter never exceeds the
  number of its latest equal readings.
* `BitmapIsTrue`: `[]KeypadInv`, and `PressesAndReleasesPair`: `HeardInPairs`. Both are about events
  on their way. `Leads(q, k, a, b)` says that the events in `q` bring key `k` from `a` to `b`, each
  one fitting what the key was. The events not yet in the bitmap lead from what it says to what the
  scan task has made of the key (`MarksAgree`); the queue and then the events still to be pushed
  lead from what ime_task has seen to the same (`HeardAgrees`), until an event of the key is
  dropped. A pass appends a path (`EventsLead`), a push moves its first event on.

**The personal cache** (`LruStoreProofs`), for every dictionary, cache and page size
* `StoreIsSound`: `[]StoreInv`; `LruIInv` adds the types, that the image is as sound as the cache it
  was taken from, what the throttle counts between two tripwires, and that in the first boot, with
  one clock, nothing is fresher than the word learnt last.
* `PowerFailureCostsOneWord`: `RestoresAllButLast`, from the number of pages programmed.
* `WeakestWordGoes`: `ForgetsTheWeakest`, an action property.

**The chips on the I2C bus** (`PeripheralsProofs`), for any calls and any number of faults
* `OnlineSensorsAreConfigured`: `OnlineIsConfigured`. A sensor in the middle of its initialisation
  is not configured; the invariant (`IInv`) says that each of its registers is set already and no
  reset is to come, or will be set by a write of the remaining job with no reset behind it
  (`WillBeSet`), and that a job that failed is not ok. `TransfersUseTheirWires`, `[]RightWires`,
  rests on the same shape of the jobs.
* `CacheIsTheChip`: `[]PeripheralsInv`. `PartsInv` says who holds the bus with which job
  (`Holders`), that CTRL1 is only written back after it has been read in the same job, and that
  the enables are the last write of a call of the LED driver, whose failure takes it offline
  (`LightsOn`).
* `LimitsAreKept`: `[]SettingsSurviveExpiry`, under ASSUME `~ExpiresMidCall`. `SettingsInv`: as long
  as no other task has called a control, a limit is in the chip, or is written before the next
  kick, or the expiry is still to be seen in the status. The hypothesis is needed: an expiry
  between the write of a limit and the kick of the same job is cleared unseen (`Peripherals` in section 2).

**The GNSS receiver** (`PeripheralsProofs`), for any program of sentences, any losses, faults,
refusals and calls, and reads of any length
* `AnswersBelongToCommands`: `[]AnswersAreTrue`. The property speaks of a call that has ended; what
  can go wrong is on its way then. The invariant (`CallInv`, as long as no answer has been given up)
  says what is in the receiver's queue and in the driver's half-read line: the one piece of an
  answer whose arrival lets the driver accept it (`Carrier`) is there only if the present call
  expects that answer, and behind the last one nothing comes (`Coming`); and once something has been
  heard it is true and no command waits (`Told`). Commands that nobody answers may queue up, an
  answered one is the last and belongs to the call (`Queue`): the restart at the end of a call may
  throw away whatever waits, but nothing that is still awaited. A poll reads any number of pieces;
  `ReadingExists` unfolds the recursive function behind it, `ReadOne` is one piece.
* `SlotsAreReadWhole`: `[]ReadsWhole`. `BufferInv`: the published slot is whole, and what has been
  read is of the published slot until the next one is.

**The bring-up firmware** (`BringupProofs`), for every set of console commands and menu pages
* A command is a list of steps with jumps, about 80 of them, so the proof is one of small programs.
  `Fragment(R, P, A, Z)` says that the steps `P`, begun where `A` holds, break none of the rules `R`
  and end where `Z` holds, whichever jump is taken; `Annotates` gives every place in a list what is
  held there and the states the memory interface may be in, and `Leads` is the obligation of one
  step. Fragments are put together (`Joined`, `Skipped`, `Consequence`), and every command and
  every item of a page goes from the board at rest to the board at rest (`ConsoleKeeps`,
  `PagesKeep`). The rules are what is claimed, used and left behind; "fetch" adds those about
  fetching from the flash, "uncharged" that the charger is left alone.
* `CommandsReturnWhatTheyTake`: `[]BringupInv`, `MenuUsability`: `[]MenuUsable`. The properties only
  speak of the present step; the invariant (`Running`) says that what is left of the running command
  is a fragment from the present state to rest. `ChargeInv` adds that the charger is off or is
  still to be written off by what is left of charging off, `MenuInv` that a stopped display has
  its redraw before it.
* `MemorySafety`: `[]MemoryIsSafe`, with the hypotheses that none of `Sweeping` (the four sweeps and
  deep scans and `psram_tuning`) is offered and that the memory page, whose tuning item runs a
  sweep, is not opened: those commands break the property (`Bringup!FetchesAreSafe` in section
  3.2). These are the constants of the run, too.
* They need `CommandAssumption`: only commands that exist are offered.

Checked by TLC only:
* liveness, since temporal reasoning under fairness and ENABLED are beyond the prover;
* what the recursive definitions of `Searchers`, `Lookup` and `Dictionary` compute
  (`CompositionFinds`, `TrieFinds`, `SearchIsSound`), and with them `ImeInv` and `SpacingFollowsText`
  of `Ime`, which reaches those definitions;
* `GnssInv`, but for `ReadsWhole`: whether a list mixes two cycles depends on the order of the receiver's sentences and
  counts the lost ones, and the order of the satellites on what a fold over a list computes.

How the proofs deal with data. The library's induction theorems take an operator, which no
installed backend can instantiate; `SequenceFacts!SetInduction` takes the set of the numbers for
which a statement holds instead. With it `FlattenSeq`, a recursive function and so a CHOOSE to the
provers, is shown to exist and to satisfy its equations (`FlatteningExists`, `FlattenAppend`,
`FlattenHeadTail`); these carry the streams of `Bridge`, the passes of `Keypad` and the texts of
`Messages`. `SortSeq` and `@@` are opaque to tlapm: the order of suggestions in `LruCache` is stated
by rank, and `Peripherals` has `Merged`.

## 5. Not modelled, and why

* Core 0's firmware is not in the repository and appears only as an environment.
* The dictionary loader checks headers before the tasks start and hands out pointers; a blob is
  taken to be what the compiler wrote. The MIE C interface and its desktop REPL have no state.
* The SWD ring and the frame parser of the key injection: injected presses are modelled, not how
  they arrive.
* Display, PSRAM driver of core 1, trace, configuration: register sequences, formatting, constants.
* Of the bring-up firmware: what its tests measure and print, the NMEA parsing of its GNSS screen,
  the RTOS tests of core 1 (`core1_rtos_efgh.c`, `core1_freertos_test.c`), the boot spike.
* Font generator, blob packer, PCM receiver: formatting. Hardware files.

The list with a reason for each is `components` in `PROJECT.json`.

## 6. What could come next

1. `KijParser`: the SWD ring and the way of the frame parser back to a frame boundary.
2. The dictionary loader: which truncated or mixed blobs its checks accept.
3. Proofs: `Gnss!CyclesUnmixed` and `StrongestShown`; `Ime!SpacingFollowsText` for any searcher.
4. `Ime` together with `LruStore`: today the personal cache of `Ime` holds one word and is not saved.
