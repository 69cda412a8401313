# gnss_wrapper: models and proofs

TLA+ models of `gnss_wrapper`, a C++ library that drives u-blox GNSS receivers over
UART, I2C or files: one control object (`gnss_controller`), one worker thread per
receiver, a request/acknowledgement protocol to the chip, a configuration
synchroniser, a record/replay mode, and the path of the data from the bytes of the
port through framing, decoders and databases to the shared buffers.
Paths below are relative to the repository root, which the project files call
`src/`.

* [What the system is](#inventory)
* [The modules and the code](#modules)
* [The runs](#runs), their bounds and their fairness
* [The proofs](#proofs)
* [Where the code and its documentation part](#divergences)
* [What is not modelled](#left-out), and the [plan](#plan)

<a name="inventory"></a>
## Inventory

### Components, their state and their operations

| component | code | state | operations |
|---|---|---|---|
| **gnss_receiver** | `gnss_receiver/gnss_receiver.cpp` | `state_` (IDLE, INITIALIZED, RUNNING), `running_` (atomic), `config_`, the parser objects, the port, `worker_thread_`; locals of the worker: `current_fd`, `reconfigure_fail_count` | `init`, `start`, `stop`, `terminate`, `set_port`, `set_raw_message_callback`, `is_running`, and `worker_loop` |
| **gnss_controller** | `gnss_controller/gnss_controller.cpp` | `receivers_`, `cmd_mutex_`, the record and replay members, the sync service, the transport | `init`, `start`, `stop`, `terminate`; `poll_config`, `sync_config`, `force_sync_config`; resets, `get_version`, backup and datum commands; `start_record`, `stop_record`, `start_replay`, `stop_replay` |
| **serial_transport_impl** | `gnss_controller/serial_transport_impl.cpp` | `ack_toggle_`, `last_sent_class_id_`, `last_sent_msg_id_` | `send_async`, `send_sync` (control thread), `handle_ack` (worker thread) |
| **configuration sync** | `ext_libs/ubx_parser/src/config/` | `default_config_` (from an INI file), the repository's `entries_` | `load_default_config`, `start_valget_poll`, `on_valget_response`, `apply_configuration`, `force_apply_configuration` |
| **datum service** | same directory, `ubx_datum_service.cpp` | the three values received, the datum resolved from them, the callback | `query_datum`, `set_datum_by_id`, `set_datum_by_params`, `reset_datum`, `on_valget_response` |
| **key registry** | `ubx_config_key.h`, `ubx_cfg_key_registry.cpp` | a constant table of more than a thousand keys and their names | `lookup_by_name`, `lookup_by_id` |
| **INI files** | `gnss_controller/ini_config_provider_impl.cpp`, `ext_libs/ini_parser/` | the settings by name; the entries by key | `load`, `get_all_entries` |
| **ports** | `ext_libs/io_helper/` | a file descriptor, the configuration it was opened with, a mutex; the kernel's offset of a file | `open`, `close`, `reconfigure`, `reconnect`, `flush`, `get_fd`, `available`, `read_bytes`, `write_bytes`; the factory |
| **event loop** | `event_queue`, `event_looper`, `event_handler` in `ext_libs/lib_event/libevent.h` | a priority queue by time stamp, `m_running`, the looper's thread handle | `post_event`, `post_delayed_event`, `post_repeated_event`, `poll`, `stop`, `resume` |
| **sigslot signal, toggle_event, fd_event_manager** | the same file | connections and their counts; triggered flag; table and array of descriptors | `connect`, `disconnect`, `emit`; `trigger`, `reset`, `wait_for`; `add_fd`, `remove_fd`, `enable_fd`, `disable_fd`, `wait_and_process` |
| **timer, once_at_least, threadpool** | the same file and `ext_libs/threadpool/threadpool.h` | a POSIX timer and its counters; the latest value; a queue of tasks | `start`, `stop`, `resume`, `set_duration`; `update`; `enqueue`, the destructor |
| **ubx_parser, nmea_parser (framing)** | `ext_libs/ubx_parser/src/ubx_parser.cpp`, `ext_libs/nmea_parser/src/nmea_parser.cpp` | state, buffer, running checksum | `feed`, dispatch |
| **UBX decoders and builders** | `ext_libs/ubx_parser/src/decoders/`, `config/`, `*_builder.cpp` | none | `decode`, `build` |
| **NMEA generator, parsers and database** | `ext_libs/nmea_parser/src/` | the GSV slots of `db_gsv_handler`, the field store | `generate`, `parse`, `update`, commit |
| **databases and wrappers** | `ext_libs/*/database/`, `shared_buffer/` | store, update mask, commit policy; double buffers | `apply_update`, `do_commit`; `on_hp_commit`, getters |
| **control_adapter, hardware reset** | `adapter/`, `ext_libs/gpio/` | the reset pin | a table from text commands to controller operations; `hardware_reset` |
| utilities | `ext_libs/{casting,cpu,geomath,logging,timing}` | | |

### How they interact

A control thread calls a command of `gnss_controller`, which takes `cmd_mutex_`
for its whole length (except that `terminate` releases it after its inner
`stop`). A command calls the receivers in order; each has its own
`state_mutex_`, which `stop` does *not* hold while it joins the worker. A
command that needs an answer resets `ack_toggle_`, stores the (class, id) of the
request, writes the request to a port and waits at most
`UART_POLL_TIMEOUT_MS`. The worker polls the port's descriptor, reads, feeds the
parser; the dispatcher calls the decoder callback on the worker thread, which
calls `handle_ack` and *then* does whatever else the message asks for (storing a
polled configuration, emitting `data_updated`). The worker takes neither of the
two mutexes: what it shares with a control thread is `running_`, `config_`, the
parser and the port (with its own mutex per call), the transport's three fields,
and the repository.

### What is hard here

* **Interleaving** of the worker with `stop`/`terminate`/`init`: lifetime of the
  parser, stale `config_`, a port reopened behind the back of a receiver that
  was terminated, a join that must end with `cmd_mutex_` held.
* **Late answers**: a timeout races the answer; the answer of a command that has
  timed out meets the next command's `last_sent_*`; comparison and trigger are
  two steps on another thread.
* **Signal before store**: the acknowledgement of a poll lets the command return
  before the values are in the repository.
* **Loss**: a VALGET without an answer, a VALSET that the chip applied and
  whose acknowledgement was lost.
* **Retry at its limit**: five attempts, reset by a success.
* **Failure half-way**: `file_port::open()` throws out of `start_record` and
  `start_replay` after some of the receivers have been changed.
* **Mutexes held while callbacks run**: `rw_mutex_` during a commit, the signal's
  mutex during every emission, `cmd_mutex_` during the join of the workers.
* **Shared handlers**: the decoded message waits in a handler that all receivers
  share, outside of the lock.
* **Cut and lost pieces**: reads and writes of files that do less than they are asked for,
  a replay file that ends inside a read; frames cut by noise or a restart, binary bytes
  that look like a sentence, sentences and parts of a set that are lost.
* **Tables with three limits**: the decoder, the database handler and the buffer each have
  their own, and the columns lie one behind the other in one array.
* **An event put back**: `poll()` releases the mutex before it puts back an event that is
  not due, while others post, stop or resume.
* **Text without a type**: INI values are typed by their looks, converted with functions that
  throw, and cut to the size that a key tells; a table of a thousand rows written by hand.
* **Answers shared by several requests**: every VALGET answer is given to the repository
  and to the datum service, whoever asked.
* **A pin without a lock**: `hardware_reset()` alone does not take `cmd_mutex_`.
* **Long legal sequences**: starts, stops, terminates and give-ups of workers
  between `start_record` and `stop_record`, or during a replay.

`PROJECT.json` lists each of these at its line, with the properties that would
catch it going wrong.

### What makes each component correct

* gnss_receiver: the parser exists while it is fed; `is_running()` tells the
  truth; an idle receiver owns nothing; every command returns; a closed port is
  repaired or given up on after exactly the documented attempts; the documented
  state machine is implemented.
* transport: success is owed to an answer to *this* request; a handled answer is
  not reported as a timeout; the call returns.
* configuration: what the repository holds is what the chip had at the last poll, or of the
  datum what a query has found since; a success means that the chip has the defaults.
* record/replay: a worker never writes to a closed file; while recording is on
  every worker records to a file of its own, while it is off none does; after a
  replay every receiver is back on its own port; a receiver's configuration is
  of the kind of its port.
* ports: no descriptor is lost, a replay is its recording, no call keeps the mutex.
* INI files and registry: every setting that can be read reaches the chip, or none does; a name stands for one key.
* datum service: a datum that was queried is the one the chip was given last.
* commands to the chip: RESET_N is released; the chip is as the commands it took say.
* event loop, thread pool, timer, latest value: what is accepted is done, an event not early,
  or discarded by a stop; after a stop nothing is pending, and the stop returns. Descriptors: `poll()` waits for what the table has. Signals: nothing
  destroyed is connected.
* framing: exactly the frames of the stream are dispatched, and intact sentences.
* decoders, handlers, commits, generator: what is shown is what was last sent, field by
  field and entry by entry; what the library builds reads back.
* databases, buffers and the signal: the buffers of a commit are of one epoch, the
  subscriber misses no change, sensor data reaches the chip whole, and none of the
  mutexes that are held while callbacks run blocks a command.

<a name="modules"></a>
## Modules and code

| module | models | composed with |
|---|---|---|
| `Receiver` | one `gnss_receiver`, its port and worker, any number of control threads | refines `Lifecycle` |
| `Lifecycle` | the abstract state machine drawn in `gnss_receiver.h` | |
| `AckTransport` | `serial_transport_impl` and the decoder callbacks that acknowledge | |
| `ConfigSync` | the three configuration commands and the datum query, the service, the repository, the chip | `INSTANCE AckTransport`, proved to refine it |
| `RecordReplay` | the controller's lifecycle, record and replay commands over N receivers | abstracts each receiver by what `Receiver` shows of it |
| `SharedBuffers` | the handlers, `ubx_database`, the buffers of `ubx_database_wrapper`, the signal, and the workers, control threads and sensor threads that use them | abstracts each receiver to `running_` and its worker's place |
| `EventLoop` | `event_queue`, `event_looper`, `event_handler` with the clock | |
| `Ports` | `uart_port`, `i2c_port`, `file_port` and the kernel behind them | what `Receiver` and `RecordReplay` take a port to be |
| `Framing` | `ubx_parser` and `nmea_parser` on the bytes of a stream | |
| `UbxCodec` | the layouts the decoders read, the VALSET, VALGET and ESF-MEAS builders | |
| `UbxMessages` | the messages as their headers declare them | |
| `CfgKeys` | the configuration keys and the registry of their names | |
| `ConfigFile` | `ini_parser`, `ini_config_provider_impl`, and a chip that is configured by a file | `EXTENDS UbxCodec, CfgKeys` |
| `Datum` | the datum commands, `ubx_datum_service` and the chip's datum | `EXTENDS ConfigFile` |
| `UbxTables` | the database handlers, the field store and the commits into the buffers | `EXTENDS Datum`, uses `UbxMessages` |
| `ChipControl` | `control_adapter`, the reset, start, stop and backup requests, `hardware_reset()` and the pin | |
| `ThreadPool`, `Timer`, `LatestValue`, `FdEvents`, `Signals` | one concurrent class of the libraries each | with `EventLoop` and `ChipControl` in `Libraries` |
| `Libraries` | the seven of them side by side, with their fairness and what they promise: they share nothing, so a behaviour runs one of them, chosen by the variable `part`; `EventLoop` is there twice, contended by all its controllers and with one | `EXTENDS EventLoop`, instances of the others |
| `NmeaPath` | the NMEA generator, the sentence parsers, the handlers and the NMEA buffer | |
| `MC*` | instances for TLC; `MCReceiver` and `MCAckTransport` also state what the documentation says and the code does not keep. `MCParsers` puts `Framing` and `NmeaPath` side by side as `Libraries` does | |
| `*Proofs` | the theorems, one module for each of `Receiver`, `AckTransport`, `ConfigSync`, `RecordReplay`, `SharedBuffers`, `Ports`, `Libraries` (with `EventLoop`) and the parsers with the NMEA path (`ParserProofs`) | |

An operator whose name begins with `Bug` is a slip the code does *not* make. Each
stands beside the definition it would replace and shows that a property is
sensitive to that part of the code; no specification uses one.

### Receiver

Variables carry the names of the members. `cmd` and `lock` are the owners of
`cmd_mutex_` and `state_mutex_`; `pc[c]` is where control thread `c` is.

* `Call` is the entry into a command (it takes `cmd_mutex_`, so it waits until
  nobody is inside), `Return` its end.
* `InitPort`/`InitCommit` split `init()` where another thread can tell: the
  port is reopened first, `config_` assigned afterwards, both under
  `state_mutex_`, which the worker does not take.
* `Start` is one step: everything in `start()` happens under the lock before the
  worker exists.
* `StopSignal`, `StopJoin`, `StopFinish` are the three sections of `stop()`:
  with the lock, without it, with it again. `Close` is the rest of `terminate()`.
  `gnss_controller::terminate()` calls its own `stop()` and then each receiver's
  `terminate()`, which stops again; for a single receiver the two are a `stop`
  command and a `terminate` command.
* The worker's program counter follows `worker_loop()`: `top` (condition and
  `get_fd`), `poll`, `avail`, `read`, `feed`, then `reconf`, `reopen`, `check`
  (the lambda `reconfigure_port`), `exit` (after the loop), `exited`.
  `PollFailure` may be taken at any time: an error of `poll(2)`, or a closed or
  reused descriptor. `ReadThrows` is the exception of `read_bytes()`, which no
  frame of the worker thread catches, so the process aborts (`crashed`).
* `device` is the world: opening succeeds exactly while it is up.

The bytes read, the parsers' contents, logging and the termios settings are
left out. The port is one step per call because it has a mutex per call.

### AckTransport

There is one synchronous command at a time because every sender holds
`cmd_mutex_`. `Begin` resets the toggle, `SetIds` stores the two identifiers,
`WriteWith(a)` writes the request and puts the answers `a` that the chip will
give on the line; an answer that is lost is an empty sequence, a slow one stays
on the line as long as the worker likes. `Succeed`, `Timeout` and `WriteFails` are
the three returns; the two kinds of failure differ, as in the code, in whether
`last_sent_*` are cleared. The worker's `Decode`, `Match`, `Set`, `Deliver` are
the dispatch, the comparison and the trigger in `handle_ack`, and the rest of
the callback. `SendAsync` is `send_async`.

The callback of an ACK-NAK only logs (`gnss_controller.cpp:204-208`), so a NAK is
a content that is not `Positive`. `setBy`, `clean` and `handled` are history
variables: they record, for the properties, whose answer triggered the toggle,
whether anything older was under way at the beginning, and whether an answer to
the current request has been handled. No action reads them.

### ConfigSync

Instantiates `AckTransport` and shares its variables. The chip is external: it
has a configuration (`chip`), answers a VALGET with its values, takes over a
VALSET before it acknowledges, and may lose either. `Poll`, `Sync`, `NothingToSync`
and `ForceSync` are the parts of the commands before `send_sync`, `Success` and
`SendFails` the parts after it; `LoadFails` is the INI file that cannot be used.
`QueryDatum` sends a VALGET as `Poll` does, of the datum's keys (`DatumKeys`) and without clearing the
repository: its answer is stored there like any other (`ubx_config_manager.cpp:85-90`).
What a file is made of is `ConfigFile`'s: here a file is a function from keys to values.
`Store` and `Stored` are `on_valget_response`, one key at a time, after
`handle_ack`. `OtherCommand` is any command that changes the chip's
configuration without the repository (`set_datum`, `reset_datum`, the resets).

A repository entry that is missing is `None`; `Differing` is the comparison of
`apply_configuration`. `polled` is history: what the chip had when the last poll
was sent. `RepositoryIsCurrent` says of each key that the repository has what it was then, or
nothing; of a datum key also what the chip has had since a `sync_config()`, which a query reports.

### RecordReplay

`recv[i]` abstracts receiver i to its state, whether its worker is alive, which
port it has (its own or a file), the kind of its `config_`, the raw callback set
on it, and the callback its current parser was built with (`tap`). The operations
`Stopped`, `Started`, `Terminated`, `WithPort`, `Initialized`, `Rewired` map a
receiver to what the receiver's operations leave of it. A command visits the
receivers in order, and each is visited in two steps where files are opened or
closed in between, so that a worker may give up (`GiveUp`) or a file fail to
open (`OpenThrows`) anywhere. `stop()` as the first half of `terminate()` is a
command of its own because it releases `cmd_mutex_`.

### SharedBuffers

A message is its arrival number (`stamp`), a buffer the numbers of the messages it
was made of; the tables at the top of the module say which messages reach the
database (`Wired`: the handlers of the wrapper for which the adapter has a case),
which of them end an epoch (`ShouldCommit`), which commit refreshes which buffer and from
what (`Refreshes`, `Feeds`).

* A worker goes through `Receive`, `UpdateRest` (the decoder stub stores the message in
  the handler, without a lock), `Apply`, `HandleRest` (`apply_update()` with `rw_mutex_`),
  and, if the message ends an epoch, `StartCommit`, then `Assign` and `Emit` for each
  buffer in the order of the code, then `CommitEnds`. `ReceiveReply` and `EmitReply`
  are the answers to commands, whose callbacks emit without `rw_mutex_`.
* What is copied without a lock, a handler's message and `dead_reckoning_in_`, is
  copied in two halves, so that the two sides of a data race can meet in the middle.
* A control thread is inside `sync_config()` (which emits), `stop()` (which clears
  `running_` and joins, one receiver after the other) or `start()`. `start()` is
  one step: a worker that starts later is a worker that is slow.
* A sensor thread is inside `update_dead_reckoning_in()`: `StoreFirst` and `StoreRest` under
  `dr_in_mutex_`, then `SensorEmit` and the controller's slot `SlotGet`, `SlotRead`,
  `SlotSend`.
* `OnDataUpdated` is the application's slot as the README's example has it: it copies
  the buffer that was announced. It is external.

An emission whose slots only copy a buffer is one step with its slots: nobody else
can be inside the signal's mutex, and the slots take no other mutex that is held
across steps. So `sig` is only ever held by a sensor thread. A buffer that a commit has
no data for is skipped without a step. The mask of updated messages is left out
because nothing reads it, and a field once valid stays valid because nothing
calls `reset()`.

### EventLoop

Every thread that posts owns one event: it makes it (`Make` stamps it), enqueues it under
the mutex (`Enqueue`) and notifies afterwards (`Notify`). The looper's program counter
follows `looper()` and `poll()`: `Top`, `Sleep` (no event), `Stopped`, `Pop` (the first by
stamp, of those with one stamp any), `Woken` or `TimedOut`, `Requeue` (put back if it is
not due, with the mutex taken afresh), `Execute`. A controller's `stop()` is `StopSection`
and `Join`, its `resume()` `ResumeSection` and `Spawn`. Any number of threads may be controllers,
as `libevent.h:630` and `:656` say, and since the second halves run without the mutex they meet
in any order: a join may find the thread of another `resume()`, or none, which throws
(`JoinThrows`, remembered in `thrown`), and a `Spawn` may find a thread that is not joined yet,
which ends the program (`aborted`). The clock ticks finer than a
millisecond because the stamps do and the wait does not. What an event calls is left out.

### Ports

`kind` is the class of the port object; `Replace` destroys it and makes another. `os` is
the kernel's table of open descriptors with their offsets, `disk` the recording (the bytes
are numbered as they were written), `waiting` what a device holds. `mutex` is the port's:
every call takes it for its whole length, so a call that asks the kernel once is one step. A
read, and a write to a file, is as many steps as there are `read(2)` or `write(2)`
calls, with the mutex held in between (`ReadBegins`, then `ReadDevice`, `ReadFile`, `EndOfFile` or
`ReadThrows`; `WriteBegins`, then `WriteFile` or `WriteThrows`). `OpenLocked` is
`open_locked()` of all three: it succeeds, fails, or is refused its settings, which leaves
`config_` changed in `uart_port` and unchanged in `i2c_port`, as in the code. `expect` and
`faithful` are history: which byte the reader of a replay must get next, and whether it has
got each in its turn. EINTR is no step, as `file_port` asks again.

### Framing

Real bytes and the two state machines, one operator per state (`UbxByte`, `NmeaByte`). A
step reads a chunk and hands it to one parser after the other, or restarts the receiver,
which makes new parsers. `FramesIn` is the reference: the frames of a sequence of bytes
by their definition, resynchronising after the byte at which a frame is discarded.

### UbxCodec, UbxMessages and UbxTables

A decoder is the list of widths it reads, with the lengths it checks before and the limit of
its table; `Decode` runs it over the bounds-checked reader. `UbxMessages` has the same
messages as the structs of their headers declare them, so that the two can disagree. Where
the library writes frames itself (VALSET, ESF-MEAS) the bytes are real, and `DecodeValget` and
`DecodeEsfMeas` read them back. `UbxTables` gives every field of the flat store its offset
(`FieldAt`, `EntryAt`), `Handle` is what a message's handler writes, `Part` what a commit
copies into the members of a buffer. A value is where it came from: message, field and
entry, so that a value in the wrong place shows.

### CfgKeys, ConfigFile and Datum

`CfgKeys` is the header's table of keys, group by group, each with its size code, and the
registry in its order; a name is its row. In `ConfigFile` a line of a file is its sort and a
value is a number with the sort of text it was written as, since the code decides by the
looks of the text what it is: `ParseLine`, `AsInt`, `Provide` and `LoadDefaultConfig` follow
`load()` to the entries, or to the exception that leaves it. `PollConfig` catches that and fails,
`ForceSyncConfig` lets it out. `Configured` then sends the entries to
a chip, polls it and compares, with real VALSET and VALGET payloads.

`Datum` gives scripts of commands to a service and a chip that have `DatumKeys` in common:
`SetDatum`, `ResetToDefault`, `StartDatumPoll` and the answers to polls by other commands, which
`OnValgetResponse` is given as well.

### The libraries: ThreadPool, Timer, LatestValue, FdEvents, Signals

One module per class, with the mutex sections as steps and a wait on a condition variable as
a place where a thread sits until it is notified or its time is up. The notifications are
steps apart where the code notifies without the mutex. `Timer` has its expirations on threads
of their own, as `SIGEV_THREAD` has them; `FdEvents` keeps the table and the array that
`poll()` gets, which is made anew only if the table was changed; `Signals` keeps the two sides
of a connection, each behind its own mutex, and assumes of its callers what the code does (see
the module's head).

### ChipControl

A caller reads a line, `control_adapter` finds the command, and the command sends a request
or drives the pin. The commands hold `cmd_mutex_` and are one step; `hardware_reset()` is
`hardware_reset_command` and `Release` with the clock between them, in units of 50 ms, so that pulses
overlap. Either write may fail, by an error (`"open"`) or unnoticed (`"lost"`). The chip is
external: what it does on a CFG-RST or after 100 ms of a low RESET_N is what
`i_gnss_controller.h` says of the commands.

### NmeaPath

`Generate` is the generator: the mapper makes an input of the buffers (`to_gga` and its like)
and a builder the fields of a sentence (`Gga`), if it is enabled and the input is valid.
`GenerateTimed` is the overload that takes its ZDA from the time buffer.
`Chip` stands for a receiver that speaks for itself, with or without a fix. Sentences are
lost (`Lose`), the rest arrive: `GgaParser` and its like read fields by position, the
handlers write the store, `GsvUpdate` collects the parts of a set, `Commit` makes the
buffer. `said` and `whole` are history: what was last received of each sort. What the code
appends in a loop is `Picked` (the satellites of a constellation, those in use) or `Joined` (the
blocks of a sentence, the sets of a sky, the parts in the store). `Locations` and `Satellites` are
what a member of the shared buffers may be, for the proofs; the runs take a few of each.

<a name="runs"></a>
## Runs

| run | question | result |
|---|---|---|
| `receiver` | two control threads, two configurations, two descriptors, five retries: every safety property of the receiver, the refinement of `Lifecycle`, and that commands return and ports heal | holds |
| `receiver_read_error` | is a read error handled by reconfiguring? | violated |
| `transport` | three kinds of request, late, lost and repeated answers | holds |
| `transport_true_means_acked` | does `true` mean that *this* request was acknowledged? | violated |
| `config` | two INI files over two keys, one of the datum's, with every chip configuration | holds |
| `record_replay` | three receivers, five files | holds |
| `shared_buffers` | two receivers, a control thread, two sensor threads: epochs, missed changes, sensor data, blocked commands | holds |
| `ports` | ports of every kind, failing, replaced, with cut reads and writes: lost descriptors, lost or doubled bytes, a mutex kept for ever | holds |
| `parsers` | frames and sentences, whole, cut, corrupt, oversized, in chunks and over a restart; three epochs of NMEA with and without a fix and a lost sentence | holds |
| `ubx_data` | every message with every table length: layouts, columns, buffers; built frames; every key and every sort of line and text of an INI file; scripts of datum commands | holds |
| `libraries` | the six concurrent classes and the commands to the chip: lost, early or late events, what a looper that two threads stop and resume leaves pending, lost tasks, timer runs and values, a stop that hangs, stale descriptors, dangling connections, a pin that stays low | holds |
| `reset_pulses_overlap` | does a hardware reset that returns `true` give the chip its pulse? | violated |

### Bounds, and why they are enough

* *Receiver.* Two control threads: `cmd_mutex_` admits one, so a second one is
  what can wait for it. Two descriptors: the old one and the one a reopening
  hands out, which may be the same number, as on a real system. Two
  configurations: the stale one and the new one. `MaxRetries` is the code's 5.
  There is no other bound; the state space is finite.
* *AckTransport.* `MaxLine = 3` undecoded answers: one request produces at most
  two (the value and its ACK-ACK), so three hold a complete answer and one left
  over from an earlier request. Three kinds: one that is answered by an
  ACK-ACK, one by a value and an ACK-ACK, one by a message of its own.
* *ConfigSync.* Two keys and two values tell a partial answer from a complete one
  and a right from a wrong value; one file names both keys and the other one of
  them with the other value, so that the files disagree and differ in their
  domain. That one is the datum's: what a query reports concerns one file whole and the other in part. `MaxLine = 2` is one complete answer to a VALGET, the most that a single
  request produces.
* *RecordReplay.* Three receivers: one that has been visited, one that is, one
  that will be. `MaxPorts = 4` is more than one start_record's worth, so a list
  that an exception has left behind is met again; five files are enough for
  every holder of one. Files are interchangeable (`SYMMETRY`); no property of
  that run is a liveness property.

* *SharedBuffers.* Two receivers, because the mutexes admit one and the other waits.
  `MaxStamp = 2` messages and `MaxInput = 2` sensor inputs: two updates overlap in
  every way, on one worker or on two, and the threads of two inputs overlap likewise.
  The messages are one of each sort: one that commits each kind, and one that only
  feeds a buffer (the timing buffer, the one that may be assigned without being
  announced). The proofs need none of these bounds.
* *Libraries.* For the event loop `MaxTime = 4` ticks, two to the millisecond, and two events, one at
  once and one delayed by a millisecond: an event is put back for an earlier one, two are
  due together, a stop meets one in every place. In the part `contended` two threads stop and resume
  the looper (`Controllers`), which is enough for a join that finds no thread or another's, and for a
  spawn that finds one; what is asked there is safety, for every number of them proved. In the part
  `loop` it is one (`Owners`), because what is asked there is liveness, and several may keep each
  other from returning or end the program (see [below](#divergences)). One looper identity suffices, since a thread is joined before the next one starts.
  Two tasks of different priority for two workers, `MaxValue = 2` values for one that is new while
  the other is told, timers of none, two and endless repetitions (`Cap = 2` bounds the
  counters), two descriptors, and two signals and two slots wired so
  that a slot has two functions on one signal and a signal has two slots. Two callers and two
  failing writes for the chip: two pulses overlap, and either may be cut short by a failure. The parts
  share nothing, so their states add up; the fairness conditions of two parts are one where
  they can be, as only one part has steps.
* *Ports.* Two descriptors: the one that is closed and the one that is opened. Frames of two
  bytes, a recording of up to six and reads of up to four: a frame may be cut, a read may end
  before, at or after a frame, at the end of the file and behind it. Two UART modes, I2C, a
  recording, a replay that loops and one that does not. A UART opened to wait for ever for a
  byte (`read_timeout_ms = 0`) is left out of this run, see the fairness.
* *Framing.* Streams of three pieces out of 13 (whole, cut, corrupt, empty, largest and
  oversized frames and sentences, and noise that looks like their beginning), of which the
  last is whole. `MaxPayload = 4` stands for 4096, `BufferLen = 7` for 256. Reads of one or two bytes, one restart anywhere.
* *UbxTables.* Tables have 2 entries where the code has 64, 32, 64, 8 and 4; a message comes
  with none, one, two and four, cut by one byte and one byte too long. Three stored messages:
  a longer table, a shorter one, and another message between. Settings lists of up to two,
  sensor lists of up to three.
* *ConfigFile.* Every two neighbouring keys of the registry, so that every row is used and no two
  neighbours can be swapped; up to three lines out of nine sorts, enough for a section, a setting and what
  replaces it; and a key of each of the five sizes with each of 17 texts.
* *Datum.* Scripts of up to three out of 15 commands: a datum that replaces another, or a partial
  poll, and a query.
  The ellipsoids a user may set are a datum's, half a millimetre off (within every tolerance), 251 m
  off (outside of each), and two in between, of which the passing run asks nothing.
* *NmeaPath.* `PerMessage = 2` (4 in the code) and `SlotCap = 3` (64), so that a sky of two to
  four satellites fills one or two sentences and exceeds the slots. Three epochs, one lost
  sentence. Fixes on both hemispheres, at the equator, with zero DOPs, and none.

Deadlock is checked in every run but `shared_buffers`, `libraries`, `parsers`, `ubx_data` and
the violations of their modules, whose inputs are finitely many; in the first two a blocked call
violates `CommandsReturn` or `StopsReturn`. Elsewhere the lifecycle of the receivers has no final
state, and an aborted process is a stutter (`Aborted`).

### Fairness

* `Receiver!FairSpec`: weak fairness of the worker and of each control thread *inside*
  a command: the operating system runs every thread that can run. A mutex
  is only awaited by a thread that is about to enter a command, and nobody is
  obliged to issue one, nor the mutex to be fair. There is no
  fairness on the device, or between the alternatives of a step: `poll()` may time
  out for ever, and the device may come back or not.
* `AckTransport!FairSpec`: weak fairness of the control thread, whose timer
  expires. None of the worker: `SendReturns` must hold, and does, when the worker
  is stuck or gone.
* `SharedBuffers!FairSpec`: weak fairness of every thread that is inside a command, an
  update or an emission. It suffices although mutexes are waited for, as
  the messages and inputs that may take a mutex ahead of a command are finitely
  many in an instance; with endlessly many, the code relies on mutexes that starve nobody.
* `EventLoop!FairSpec`: weak fairness of the clock, of the looper, and of threads inside an
  operation (`Proceed`). Nobody has to post, stop or resume. `LatestValue`, `Timer` and `ThreadPool` likewise; the
  kernel delivers the expiration of a timer that is armed.
* `Ports!FairSpec`: weak fairness of a read and of a write in progress; the kernel does not
  interrupt a call for ever. The presets of `uart_config.h`, `gnss_default()` among them, wait 100 ms for a
  byte. A UART with `read_timeout_ms = 0`, as a `uart_config` has it that is made by hand, in blocking
  mode may wait for a byte with the port's mutex held, which `NobodyKeepsThePort` rightly would not survive: `init()` flushes
  the line between the worker's `available()` and its read, and the read then lasts until
  the device speaks again.

`CommandsReturn` says that a command that has been entered ends, so no
command is blocked for ever by the join in `stop()`. It says nothing of
a caller that waits for `cmd_mutex_`. `SharedBuffers` has a property of the same name
for what `Receiver` leaves out: emissions under `cmd_mutex_`, and workers that cannot
end before they have the signal's mutex.

<a name="proofs"></a>
## Proofs

The theorems hold for every set of threads, receivers, configurations,
descriptors, kinds, events and answers, for every `MaxRetries >= 1`, for any keys, values and INI files, any signals, slots and functions,
for reads, frames and recordings of any length, and for any positions and satellites; the assumptions
are `ReceiverAssumption`, `TransportAssumption`, `ConfigAssumption`, `LineAssumption`, `RecordAssumption`,
`LoopAssumption`, `PortsAssumption`, `FdAssumption`, `SignalsAssumption`, in `SharedBuffers`
`KindsAssumption`, `BoundsAssumption` and `ThreadsAssumption`, in `Framing` `FramingAssumption` and
`StreamsAssumption`, and in `NmeaPath` `PathAssumption` and `NoneAssumption`. They say that the
constants are what they are named for, that `None` or `NoOne` is none of them, and
that a thread is of one sort, or a signal no slot. TLC evaluates each of them in a run. The type invariants are stated where the proofs need them
and proved; the runs do not repeat them.

**ReceiverProofs.** The inductive invariant `IInv` is `TypeOK`, `IdleIsReleased` and,
in named parts:

* `CommandsSerialised`, `LockInv`: only the owner of `cmd_mutex_` is inside a
  command, and `state_mutex_` is held between steps exactly by an `init()` that
  has reopened the port and not yet assigned `config_`;
* `ThreadInv`: the parser exists exactly in RUNNING, a worker thread and
  `running_` only there, and in RUNNING without a thread some `stop()` has joined it
  and is about to finish;
* `CallerInv`: what a control thread at `join`, `finish` or `close` still knows of
  the receiver when it takes its next step;
* `RetryInv`: the retry counter in the loop and at each way out of it.

No safety property is inductive alone. `ParserOutlivesFeed`, for instance,
needs that a thread at `finish` is the only one in a command, and that the worker was
joined and nobody could start it again since. From `IInv` follow

* `TypeCorrect` (`TypeOK`), `ParserSafe` (`ParserOutlivesFeed`), `RunningSafe`
  (`RunningIsTruthful`), `IdleSafe` (`IdleIsReleased`), `GivesUpSafe`
  (`GivesUpOnlyWhenExhausted`);
* the action property `TerminateSafe` (`TerminateIdles`: a `terminate()` ends in IDLE), which no run repeats;
* `ReceiverRefines`: the initial state is one of `Lifecycle`, and every step of
  the receiver is a step of `Lifecycle` or leaves its variables alone.

**AckTransportProofs.** `IInv` is `TypeOK` with `OwnInv` (an answer to the current
request is under way only once that was written), `FrameInv` (the worker's
state and the frame in its hands), `IdsInv` (the stored identifiers are the
current request's from before the write), `CleanInv` and `HandledInv`. A
command that begins with nothing under way has only its own answers on the
line until it ends, which gives `CreditSafe` (`CreditIsOwn`); a positive answer of
its own that was handled did match, because the identifiers were stored first, and
did trigger a toggle that nobody resets before the command ends, which
gives `NoAnswerMissed` (`NoAnswerIsMissed`). `TypeCorrect` is `TypeOK`.

**SharedBuffersProofs.** `IInv` is `TypeOK` with `ViewsInv`, `LockInv` (`rw_mutex_` is held
by the one worker inside `apply_update()`), `MessageInv` (the handler of the message a
worker has in hand was written, by whichever worker), `ValidInv` (what a snapshot
had, the database still has, and a buffer without valid data is empty) and
`CommitInv` (during a commit only the buffers it has yet to do may be out of date;
otherwise none is). The heart is the step that starts a commit: a buffer that the
commit will skip must already be as the new snapshot would make it, which holds
because fields never become invalid. `EpochSafe` (`BuffersShareAnEpoch`) and `SubscriberSafe`
(`SubscriberIsCurrent`) follow. `LastInputSafe` (`LastInputIsSent`) has an invariant of
its own, `SensorLocks` and `SensorInv`: unless some thread has yet to read
`dead_reckoning_in_`, the slot that is running has read its first half as it is now. A
slot may well send a mixture of two inputs, but then a later one sends the whole.
`TypeCorrect` is `TypeOK`.

**PortsProofs.** `IInv` is `TypeOK` with `DescriptorInv` (the kernel has the port's descriptor
open, with its configuration, and no other), `JobInv` (who holds the mutex between two steps
and for what), `DiskInv` (a recording holds the bytes of the finished writes and of the one in
progress, in order), `OffsetInv`, and `TurnInv`: the offset of a replay is the expected byte's
place plus what the reader already has in its hands, or the end of a looping file at which the first
byte is expected. `DescriptorsSafe` (`DescriptorsAreKept`) follows from the first,
`ReplaySafe` (`ReplayIsTheRecording`) from the others; the step that reads shows that no call
delivers bytes from both sides of a loop's seam. `TypeCorrect` is `TypeOK`.

**ConfigSyncProofs.** `IInv` is `TypeOK` (with the transport's, whose variables the module shares)
with `FrameInv`, `PollInv`, `UpdateInv` and `CleanInv`. `PollInv` is the heart: as long as the last
poll counts (`polled`), *every* answer under way, on the line or in the worker's hands, says of each key
nothing but what the chip had then, or of a datum key what it has now (`Trusted`), and since that poll the
chip was changed only into its defaults. So it does not matter which answer is stored when, nor whether a
poll or a datum query asked for it, which gives
`RepositorySafe` (`RepositoryIsCurrent`); a key that does not differ from its default in the repository
does not in the chip either, `SkipSafe` (`SkipIsSafe`). `UpdateInv` says it of the keys that a
command does not send, `CleanInv` that a command which began with nothing under way finds its
toggle set only by the answer to a request that the chip has taken over; together
they are `SuccessSafe`, the action property `SuccessTakesEffect`. `TypeCorrect` is `TypeOK`.

The module then shows that `ConfigSync`, which builds its steps from the transport's actions but adds
some of its own, still keeps to the protocol: `ImplementsTransport` is `Spec => Protocol!Spec`, where
`Protocol` is `AckTransport` with the two kinds of request and the answers of the chip to each, and
the mapping leaves of an answer only whether it reports values (`Tag`). So `Store(k)`, which
takes a value out of the answer in hand, stutters, and `OtherCommand` is a `SendAsync`. It needs
`RoleInv`: the request on its way is of the kind of the command in progress, so that the
answers given to it are those the protocol allows. The theorems of `AckTransportProofs`
carry over, its assumption about the constants being discharged (`ProtocolAssumption`):
`ConfigCommandsSafe` says that `CreditIsOwn` and `NoAnswerIsMissed` hold of the configuration
commands. The refinement is proved step by step and is no property of a run.

**RecordReplayProofs.** `IInv` is `TypeOK` with `ReceiverInv` (between two calls each receiver is
`Sound`: a living worker has the current callback, an initialized receiver a configuration of its
port's kind), `CommandInv` (the modes exclude each other), `FileInv`, `CallbackInv`,
`RecordInv` and `ReplayInv`. A file that an exception has left behind displaces the files of
`record_ports_`, so that `stop_record()` closes another file than the one it means to; that no worker
writes to a closed file rests on the conjunct of `CallbackInv` that files are displaced *towards the
end* only: the file at place k belongs to a receiver i <= k, whose callback has been taken away when
place k is closed. `RecordingSafe` (`RecordingFollowsTheMode`), `ConfigSafe`
(`ConfigFitsPort`) and the action property `StopReplaySafe` (`StopReplayRestores`) follow, for any
number of receivers; `TypeCorrect` is `TypeOK`.

**LibraryProofs.** An invariant for each of four classes.

* `LoopIInv` is `EventLoop`'s `TypeOK` with `CtlInv`, `ThreadInv` (a looper thread exists exactly if it is
  the handle's), `HandInv` (an event in hand is in the hands of a thread that holds one), `QuietInv` (the
  queue of a stopped looper is empty) and `DueInv` (a looper waits no longer than until its event is due,
  less a millisecond). However many controllers meet, the order of their joins and spawns is anybody's, so
  no single one can know what it will find; `CtlInv` is the balance of their accounts: the thread there
  is, the one whose spawn has ended the program, and the spawns to come are as many as the joins to come,
  and one more while the looper runs. An exception takes a join off the account, hence `~thrown`.
  When nobody is inside a call and the looper is stopped, both sides are zero, and there is no thread:
  `QuietSafe` (`StoppedIsQuiet`). `TypeCorrect`, `LoopInvariant` and `PunctualSafe`
  (`NeverAMillisecondEarly`) hold likewise for any controllers.
* `FdInv`: the array that need not be made anew is the table (`ArrayInv`), and outside of `poll()`
  and `process_events()` nothing is left of a report (`ReportInv`). `PollSafe` (`PollIsCurrent`).
* `SignalsInv`. A pair of signal and slot is disconnected in two steps under two mutexes, so the
  count of the slot and the connections of the signal differ in between, by what a thread
  still has to do. `Counted` says by how much: a thread with connections to erase has
  cleared the count; one that has still to count down by n finds n too many, unless the slot left
  by itself meanwhile. `Alone` says that nobody else has work on the pair, and nobody on a
  destroyed object; `Severed`, of an object that is being destroyed, that what others still have of it is
  what its destructor has on its list, and of a destroyed one that there is nothing; `DyingInv`
  that nobody destroys it twice; `LeftInv` that an emission will only call what is connected, which holds as
  the emission keeps the signal's mutex. `SignalsSafe` (`NothingDangles`) follows.
* `ChipInv`: RESET_N is low for a reason (`LineInv`), and a pulse that met no other has lasted as
  long as its call sleeps (`AloneInv`). `ChipSafe` (`ChipIsAsCommanded`).

`Composition` shows that `LibSpec`, the specification of the run, implies that of each of its seven
classes, so these theorems are about what the run checks; `LibrariesSafe` states it for the three
properties of `libraries`, `LoopSafe` for the two of the event loop.

**ParserProofs.** `feed()` is a fold over the bytes of a chunk, a checksum one over those of a
message, and the frames of a stream are a function that is recursive over it. A theorem of induction
that takes the property as an operator cannot be used here, but one over a *set* can: `NatSet`
follows from the well-foundedness of `<`, and the property becomes the set of the numbers that have
it. With it the module shows that a fold is defined (`FoldDefined`) and is a `Run`, which takes one step
more for one element more (`RunAppend`), and that the recursive function has a solution (`FromDefined`)
and satisfies its equation (`FramesFromIs`). Then each parser has an invariant about the bytes it was fed.

* `UbxHas` of `ubx_parser`: there is a place `k`, of which the context says what stands between it and the
  end (`UbxAt`), such that *whatever bytes follow*, the frames of the whole are those dispatched and
  those from `k` on (`Splits`). The continuation is what makes it inductive: what
  `FramesFrom` finds depends on bytes that have not come yet, and a byte that completes, discards or
  gives up a frame moves `k` to where the definition goes on. One lemma per group of states
  (`EarlyByte`, `LengthByte`, `DataByte`, `LastByte`), one lemma per way the definition goes on
  (`AheadNoise`, `AheadTooLong`, `AheadUnfinished`, `AheadFrame`). `FramesTheorem` (`FramesAreThoseOfTheStream`).
* `NmeaHas` of `nmea_parser`: its buffer, its running sum and its digits are what stands behind
  some '$' of the stream (`NmeaAt`), so every sentence dispatched stands there (`AllThere`); and of *every*
  intact sentence that the stream has begun, the context is at the stage it should be at (`Stage`),
  or it has been dispatched (`WholesFound`). `SentencesTheorem` (`SentencesAreThoseOfTheStream`).

These hold for every stream, every cut into chunks and every `MaxPayload` and `BufferLen`.

For `NmeaPath` the invariant is `PathIInv`, about all locations and skies that the types admit:

* `PathTypes`: the line holds sentences that the generator or a chip can make of some location and sky
  (`AllSentences`), and the store what the handlers can have made of one. The lemmas under it go through
  the generator and the parsers once: each parser reads in a sentence of its builder what the
  location says (`GgaRead`, `RmcRead`, `GsaReads`, `VtgRead`), where an angle survives because
  degrees and minutes are taken apart as they were put together, in each hemisphere (`AngleRead`); of a
  sentence without a fix it reads nothing, or what a location without a fix says (`GgaArrived` and its like).
* `RmcStored`, `GsaStored`, `VtgStored`: what the store has is what the last sentence of its type
  said, so that the commit of a later GGA can be compared with it. The magnetic course is the exception: a
  sentence without one leaves the older one, so the property says nothing of it then.
* `PartsKept`: while a set arrives part after part, the parts in the handler are all its parts
  so far, in their order, and `expected` is their number. That a set is whole is decided by `msg = expected`
  alone, so without this nothing is known of what is in between.
* `SetStored`: the slots have the set that came whole last, up to the room there is, and its number. It needs that a
  set is divided without gap or overlap, the last sentence not empty (`SetDivided`, `PartCount`), that the
  blocks lie where the parser looks, with the signal of a chip behind them (`BlocksJoined`), and that the
  satellites of the parts, one after the other, are those of the set (`JoinedCuts`, `PartsJoined`).

From it follow `BufferTheorem` (`BufferIsWhatWasSent`) and `WholeSetTheorem` (`WholeSetIsShown`), for
every `PerMessage` and `SlotCap`, every choice of enabled sentences, and whatever is lost. A behaviour of
the run is one of both modules, of which one stutters, so all four theorems are about it.

**Only model-checked.** `CommandsReturn` (of both modules), `PortHeals`, `SendReturns`, `WorkIsDone`,
`StopsReturn` and `NobodyKeepsThePort` are liveness
properties, which need fairness and `ENABLED` and so are beyond the
prover; with them go `ThreadPool`, `Timer` and `LatestValue`, of which nothing else is claimed.
`DecodersKeepTheFormat`, `BuiltFramesReadBack`, `SettingsReachTheChip` and `DatumIsTheChips`
are about what payloads, files and scripts are turned into and back, by definitions in `UbxCodec` that are
recursive operators, which the prover cannot use. `ColumnsStayApart` and
`BuffersShowTheirMessages` (in `UbxTables`) rest on where a field lies in such a layout. The violations
are model-checked by nature.

<a name="divergences"></a>
## Where the code and its documentation part

The three runs that end in a violation show a disagreement, each recorded under
"findings" with the line that says otherwise:

* A `read_bytes()` error ends the process: the exception leaves the thread function
  (`README.md` says that the worker reconfigures).
* `send_sync()` may return true because of the answer to an earlier request, of whatever kind:
  `handle_ack()` compares and triggers in two steps, and when the request times out in between,
  the trigger meets the next one.
* `hardware_reset()` does not take `cmd_mutex_`: a pulse cut short by the end of another one
  is reported as delivered.

More were met while modelling and have no run of their own. The first four bear on what a
property can demand:

* `resume()` between the two halves of another thread's `stop()` assigns to a thread that is about to be
  joined, which ends the program (`libevent.h:673` against 645-648; `:630` and `:656` say that both
  may be called from any thread). A `stop()` between the halves of a `resume()` finds no thread to join
  and throws, or joins the one before; the new thread may then be left for the next one.
* `num_sats_in_view` and the satellites of an NMEA commit are those of the talker whose set came
  last; `nmea_data_buffer.h:65` says "GSV talkers combined". `WholeSetIsShown`
  demands of the number only that it is no smaller than that of the set, and of the slots that the
  set is there.
* An INI value that is a word, or has more than 32 bits, is no `config_error` but an exception of
  `std::stoi`: it leaves `load()`, so that `poll_config()`, which catches it (`gnss_controller.cpp:432`),
  fails and `force_sync_config()` throws, where the comment says "Log error and skip invalid entry"
  (`ini_config_provider_impl.cpp:55`). The chip gets none of the file. `SettingsReachTheChip` allows both, and
  demands that a success means every readable setting and a failure none.
* A user datum half a metre off WGS-84 is `user_defined`; `ubx_datum.h:85` gives tolerances of
  a metre and a thousandth, with which the code, whose tolerances are 1e-3 and 1e-7, could not tell PZ-90 from
  WGS-84. `DatumIsTheChips` demands nothing of parameters between the two.

*Receivers and commands*

* After giving up, `start()` refuses because `state_` is still RUNNING
  (`global_constants.h` says it allows a fresh `start()`); a `stop()` first helps.
* `init()` of a running receiver may report success while the worker reopens the
  port with the old `config_` (`gnss_receiver.cpp:294` reads it without the mutex).
* The worker gives up after five attempts; `README.md:12` speaks of automatic
  recovery without a limit.
* A poll timeout does not reconfigure the port (`gnss_receiver.cpp:374-377`);
  the error table, `README.md:548`, says it does.
* An ACK-NAK does not unblock the waiting command (`gnss_controller.cpp:204-208`),
  against the comment at line 161: a refused command runs into its timeout.
* `sync_config()` right after `poll_config()` may send keys that do not differ.
* `set_reset_pin()` during a pulse would race with it; its contract asks for one call before.
* `gpio_pin_impl::write_value()` asks `good()` before the stream's buffer is flushed: a write that
  the driver refuses returns true (`i_gpio_pin.h`: "false if the underlying I/O fails").
* `backup()` returns true whatever the UPD-SOS answer says; its comment speaks of battery RAM,
  the request saves to flash.
* `ubx_cfg_rst_builder.h` explains resetMode 0x00 and 0x01, the code sends 0x08, 0x09 and 0x02;
  `i_gnss_controller.h` says that a hot reset resets the receiver's hardware, 0x02 resets GNSS only.
* `set_datum` casts its number to a byte (257 is 1, "-1" is 255) and lets the exception of
  `stoul` out of `execute_command()`.
* A lambda of the controller is connected for the controller's life and never disconnected.
* `start_replay()` that throws leaves receivers on their files: `file_port::open()` throws
  (`file_port.cpp:395-400`), `replay_active_` stays false, so `stop_replay()` refuses and
  the loop that restores the ports never runs.
* The constructor for a single configuration (`gnss_controller.cpp:71-75`) delegates to
  the general one and then disconnects every callable, the ESF-MEAS slot included.
* When the second GPIO write of a hardware reset fails, RESET_N stays asserted
  (`gnss_controller.cpp:108`).
* `user_defined` is returned where `datum_id` documents `unknown` (`ubx_datum.h:51`); an answer to some of the keys announces the
  datum of before; `set_datum` and `reset_datum` do not wait for an acknowledgement; the
  answer is stored without a lock while `query_datum()` resets the flags.
* The datum service announces a result that nobody can read: the callback only emits
  (`gnss_controller.cpp:485-489`). `ubx_datum_service.h:108` says the callback needs all ten
  keys; three are processed and it fires on any of them. `i_gnss_controller.h:109-110` names
  "GRS-80", which is not in the table, and a completion that may come after the return.

*INI files and keys*

* "0x10" is 0, "12abc" is 12, "true ; comment" and an empty value throw, a fraction is cut.
* A number that does not fit its key of one or two bytes, a negative one there too, is sent with every
  `sync_config()`; a negative one of eight bytes loses its sign.
* `msgout_nmea_nav2_id_vtg_uart2` is 0x20910649, between keys that are numbered otherwise.
* Nothing uses `lookup_by_id`, or `safecast`, which does not compile.

*Ports*

* `i2c_port::get_fd()` is -1, so a receiver on I2C never polls successfully.
* The UART timeout `(cc_t)((ms + 99) / 100)` wraps at 25.6 s.
* `config_` is replaced although termios refused the settings; `i_io_port.h` calls it the
  last one successfully applied.
* The non-blocking presets of `uart_config.h` promise an immediate return; `read_bytes()`
  throws on EAGAIN.
* Reading an empty looping file never returns and keeps the port's mutex
  (`file_port.cpp`, `read_locked`).
* A writable looping file that is read to its end seeks to 0: the next write overwrites
  the recording.
* An error of `read(2)` after some bytes of the same call loses those bytes.
* `file_port::write` throws `file_open_error` when the port is closed; `reconnect()` of a
  closed UART returns false while I2C and files try; `flush` and `drain` of a closed I2C
  port return true.

*Event loop*

* `post_repeated_event` of a free function (811-818) moves the function away with the first
  repetition.
* `stop()` from an event on the looper's thread joins itself; a second `stop()` returns
  while the first still joins; an event may run up to 1 ms early.
* `threadpool` orders its tasks by `Task::operator<`, higher first; the header says lower first.

*Libraries*

* `signal`: connecting a pair twice leaves a count too many; two threads that disconnect one pair
  race; `~base_slot` runs after the derived destructor; `std::forward` moves the arguments into the
  first slot; a slot that uses the signal it is called by blocks for ever, although `README.md:532` calls it thread-safe.
* `timer`: callbacks run under `m_mutex` and may come after a `stop()`; the late expiration of an
  earlier run stops the next one; a periodic timer may call once more than asked.
* `once_at_least` spins when its interval is 0, `stop()` waits for a callback, and `resume()` may
  assign to a thread that is joinable.
* `fd_event_manager`: an event of a descriptor that was removed and added again goes to the new
  callback; callbacks run under the mutex; `wait(-1)` blocks everyone who changes the table;
  `last_error_` is not protected.
* `once_per_interval` reads the clock before it takes the lock; the counter of `once_per_n_times`
  wraps; `notifier.loop()` sets `running_` again; the maps of `watch_manager` go stale.

*Framing*

* The dispatcher calls the raw callback for every frame (`ubx_dispatcher.cpp:45-62`),
  the comments (`ubx_parser.h:99`, `i_gnss_receiver.h:73`) say for frames without a decoder.
* The NMEA parser dispatches lines without a checksum, and loses a sentence whose `$` stands
  where a checksum digit is expected (`nmea_parser.h:16-19`).
* It is said to skip UBX frames silently (`README.md:306`); a `$` or `*` byte
  inside a frame can swallow the sentence that follows.

*Databases and buffers*

* With several receivers on one database a message may be replaced, in part or as a
  whole, by another receiver's before it is stored: the handlers are shared too
  (`ubx_database.cpp:36`; `README.md:540` speaks of "last writer wins").
* The getters of the buffers return references after unlocking
  (`ubx_database_wrapper.cpp:87-147`), against `README.md:458` and `:536`: the caller
  reads while a commit may write.
* The wrapper registers a MON-SPAN handler (`ubx_database_wrapper.cpp:58`) but the adapter's
  switch has no case for it, so `monitor_data::span_valid` is never set.
* The comments of `monitor_data_buffer.h:33-35` on MON-TXBUF and what
  `db_mon_txbuf_handler.cpp:28-52` and `ubx_database_wrapper.cpp:518-535` copy disagree.
* An ESF-MEAS of 32 measurements is built with numMeas 0 (`ubx_esf_meas_builder.cpp:53`).
* `db_esf_meas_handler` scales by 2e-10 where 2^-10 is meant (the handler is not wired).
* The DOP buffer's `ndop`, `edop` and `i_tow_ms` and the raw `doppler_hz` are never filled;
  `doppler_ms` is scaled by 0.04 though documented as raw.
* `default_update_policy.h:9` says RMC commits with high priority; only GGA does.
* `db_gsv_handler.h:7-8` says it fires with the last part of a *complete* set; a set with a
  lost part fires too.
* GGA and RMC without a position are rejected as malformed, so the loss of the fix is
  never shown; RMC has status 'A' for a fix of the time only.
* An empty SNR, -1, becomes 255 (`nmea_data_buffer.h:22` says 0 if not tracked);
  `course_mag` stays from an older VTG; the HDOP 0 of a GSA overrides GGA's.
* `format_latitude` may print 60.00000 minutes.
* The `received_*` flags are cleared without a lock.

<a name="left-out"></a>
## What is not modelled

* Bytes and fields of what has no state and no handler: the INF decoder, which only logs,
  `build_poll()`, the NMEA parsers without a handler (DTM, GBS, GLL, GNS, GST, ZDA), the decimals
  of the numbers, the characters of INI files and of the adapter's commands beyond what sort of
  text they are, saving INI files, termios settings, the character variants of the ports
  and their throttling.
* Of the datum service `get_datum_data()`, which nothing calls, and the check of parameters.
* Slots of an application that do more than read a buffer: one that calls a command from the
  worker's thread blocks for ever.
* `once_per_interval`, `once_per_n_times`, `signal_event` and `fs_event` of `libevent.h`, which nothing
  in the repository uses, and `casting`, `cpu`, `geomath`, `timing`.
* Logging.

<a name="plan"></a>
## Plan

Done, in this order: `Receiver` with `Lifecycle` and its proofs; `AckTransport` and
its proofs; `ConfigSync`; `RecordReplay`; `SharedBuffers` and its proofs; `EventLoop` and its
proofs; `Framing`; `UbxCodec` and `UbxTables`; `NmeaPath`; `Ports` and its proofs; `CfgKeys`,
`ConfigFile`, `UbxMessages` and `Datum`; `ThreadPool`, `Timer`, `LatestValue`, `FdEvents`, `Signals`;
`ChipControl`; `Libraries`;
the proofs of `RecordReplay`, of `ConfigSync` with its refinement of `AckTransport`, and of
`FdEvents`, `Signals` and `ChipControl` with their composition; and those of `Framing`, of
`EventLoop` in that composition, and of `NmeaPath`.

Left: the properties of `UbxTables`. Their proof would need `UbxCodec` without recursive operators, as
`Framing` and `NmeaPath` are now, and after that a lemma for each of the layouts of messages, files and
keys; the run takes every layout as it is in the code, so only lengths and values are bounded there.
