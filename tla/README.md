# spdlog: a TLA+ verification project

This directory models spdlog with the fmt library it bundles, checks the models
with TLC and proves with TLAPS what matters most about its asynchronous core, its
registry, its logger, its file sinks and its formatter's caches. Module, action and variable names follow the source; paths below are
relative to `src/include/spdlog/` unless they start with `docs/`.
`PROJECT.json` maps every definition to the lines it translates, lists what can
go wrong in this code that a test would hardly reach (`hazards`), and names the
property that covers each.

## 1. Inventory

| Part | State | Operations | Works with | Hard behaviour |
|---|---|---|---|---|
| `details/circular_q.h` | vector of max_items_ slots, head_, tail_, overrun_counter_ | push_back, pop_front, front, at, size, empty, full, copy, move | owned by the queue, the backtracer, ringbuffer_sink, daily/hourly sinks | wrap-around, capacity 0, moved-from queues |
| `details/mpmc_blocking_q.h` | circular_q under queue_mutex_, push_cv_, pop_cv_, atomic discard_counter_ | enqueue, enqueue_nowait, enqueue_if_have_room, dequeue, dequeue_for, counters | logging threads and workers | lost wakeups, stolen notifications, timeouts, counters outside the lock |
| `details/thread_pool` | queue, threads_ | post_log, post_flush, worker loop, constructor, destructor | async_logger posts; workers call back into the logger's sinks | destruction while calls are running, drain, termination |
| `async_logger`, `async.h` | weak_ptr to the pool, overflow policy, sinks | sink_it_, flush_, backend_sink_it_, backend_flush_, create | pool, sinks, registry | pool gone, throwing sinks, order, meaning of flush |
| `details/registry`, `periodic_worker`, `spdlog-inl.h` | logger map, default logger, global settings, levels, pool, flusher thread | register, drop, set_*, initialize_logger, flush_all, flush_every, shutdown | everything | nested mutexes, create against shutdown, the join of the flusher |
| `cfg` | - | levels from `SPDLOG_LEVEL`, environment or command line | registry | repeated, blank and misspelt entries |
| `logger`, `details/backtracer` | level, flush level, sinks, error handler, traced messages | log, sink_it_, flush, dump_backtrace, enable/disable | sinks, registry | checks before the lock, sinks that throw in the middle of a dump |
| `sinks/tcp_sink.h`, `details/tcp_client.h` | socket_ | connect, send | network | partial sends, reconnection |
| `details/file_helper` | fd_, filename_, stdio buffer | open, reopen, close, flush, write, size | file sinks, file system | failed opens, lost buffers, sizes that ignore the buffer |
| `sinks/rotating_file_sink` | current_size_, max_size_, max_files_ | sink_it_, rotate_now, set_max_size, set_max_files, rotate_ | file_helper | crash or failure between renames, stale size estimate |
| `sinks/daily_file_sink.h`, `hourly_file_sink.h` | rotation_tp_, filenames_q_, remove_init_file_ | sink_it_, delete_old_, init_filenames_q_ | file_helper, circular_q, clock | late messages, periods that end within a call, one name used twice |
| `docs/.../daily_rotating_file_sink.h` | rotation_tp_, current_size_ | sink_it_, rotate_ | file_helper, clock | two clocks (message and now), ignored errors |
| `pattern_formatter`, `mdc` | compiled flags, cached_tm_, zone cache, last message's time, thread's context | compile_pattern_, format, set_pattern, clone, put/remove | every sink | stale caches, a grammar read by hand |
| `fmt/bundled` | output buffers, parse contexts | parse, check, compile, write | loggers, pattern_formatter | boundaries: int limits, rounding, UTF-8, calendar, full buffers |
| `fmt/bin_to_hex.h` | - | parse, format | loggers | last line, line sizes |
| `docs/.../robo_log` | static logger_ | init, shutdown, set_level, flush, logging | registry, pool | methods that race with shutdown |
| console, platform and service sinks, udp, basic_file_sink, stopwatch, log_msg_buffer | - | output | - | pure I/O or values |

What makes them correct: the ring is a bounded FIFO that drops and counts its
oldest item; the queue loses no wakeup and every message has one fate; the pool
drains its queue before it dies and always dies; registered loggers follow the
global settings whatever the threads do; no lock order hangs; a logger loses no
traced message and accounts for every skipped one; file sinks keep their files in
order, within their limits, and delete only what the configuration says; caches
never show; formatted text is what a definition independent of the algorithm
says.

## 2. Modules

    FifoOps            the bounded FIFO with overrun as a value
    BoundedFifo        abstract specification: what circular_q promises
    CircularQ          the ring;  implements BoundedFifo
    MpmcQueue          the blocking queue, step by step
      MpmcQueue_proofs
    AsyncLogging       thread_pool + async_logger + sinks      (MCAsyncLogging)
      AsyncLogging_proofs
    Cfg                SPDLOG_LEVEL as a value
    Registry           registry + factories + flusher + pool   (MCRegistry)
      Registry_proofs
    DupFilterSink      dup_filter over dist over ringbuffer and callback
    TcpSink            tcp_sink + tcp_client + peer
    Logger             logger + backtracer + the two sinks above (MCLogger)
      Logger_proofs
    FileHelper         file_helper, stdio and the file system
    RotatingFileSink   extends FileHelper
      RotatingFileSink_proofs
    RotationClock      clock, period of a time, next_rotation_tp_
    DailyFileSink      daily and hourly sinks                  (MCDailyFileSink)
      DailyFileSink_proofs
    DailyRotatingFileSink                                      (MCDailyRotatingFileSink)
      DailyRotatingFileSink_proofs
    Text               text as sequences of symbols
    PatternFormatter   patterns, flags, caches, mdc            (MCPatternFormatter)
      Sequential_proofs  of CircularQ and PatternFormatter, which one thread
                         uses at a time
    FmtParse           format strings: parser, checker, formatter, FMT_COMPILE
    FmtWrite           integers, strings, pointers, UTF
    FmtFloat           floating point: Dragonbox, Dragon4, fields
    FmtChrono          format strings of times, calendar, durations
    FmtBuffer          the output buffers
    FmtPrintf          fmt::printf, over FmtParse, FmtWrite and FmtFloat
    FmtRanges          ranges, tuples, joins, colors; spdlog's hex dump
    MCFmt              one call of the library, or a buffer being filled
    RoboLog            the wrapper of the porting exercise

**CircularQ.** `obj[o]` is the record of members of one `circular_q`; the value
operators `push_back`, `pop_front`, `size`, `at`, `full`, ... are the member
functions, the actions apply them to an object, copy one object to another or
move it. `copy_moveable` leaves the source disabled. The refinement mapping
reads the ring from head to tail through `size` and `at`.

**MpmcQueue.** One step is one critical section of `queue_mutex_`, one
`notify_one`, or one atomic increment. `wait(lock, pred)` tests and sleeps in one
step; sleepers wake by a notification, spuriously, or by their timeout. The
queue's content is a sequence used through `FifoOps`, which `CircularQ` justifies.
The MinGW variants, which notify before the unlock, are the interleavings of this
model in which the notification follows the push at once.

**AsyncLogging.** The queue is used through its interface: one enqueue or dequeue
is one step and a call that would wait is a step not yet enabled (`MpmcQueue`
shows that waiting calls do get woken). The set of threads that own a
`shared_ptr` to the pool is explicit; the last one to let go runs `~thread_pool`
in its own thread. Workers go through the sinks one at a time, each of which may
throw.

**Registry.** An operation that is one critical section of `logger_map_mutex_` is
one step. What nests locks or waits is split: async `create` (`tp_mutex_`, and the
map's mutex within), `flush_every` (the new worker starts before the old one is
joined), `shutdown` (flusher, loggers, pool, each under its own lock), `flush_all`
(the map's mutex while each logger flushes; an async logger may wait for room in
the pool's queue). `ApiCall` chooses among the functions of `spdlog-inl.h`.
`Cfg` reads the level specification as words, blanks, `=` and `,`.

**Logger.** `level_` and `tracer_.enabled_` are atomics read one after the other;
each sink is called under its own mutex, the tracer's mutex is held for a push
and for all of `foreach_pop`. A std exception of a sink goes to `err_handler_`, with its
once-a-second report, and the loop goes on; an unknown one leaves the call.
`DupFilterSink` is one step per message because `base_sink` holds the mutex;
the histories `shown` and `duplicates` say what it is to keep back. In `TcpSink` a `::send` may fail or return 0 after any unit of a message; `torn`
remembers what cut off an unfinished message that the connection in use carries.

**FileHelper.** A file is a sequence of messages; `buf` is what stdio holds back.
Every system call may fail (`Fault`); `close` hides the failure as `fclose`'s
result is ignored, `write` on a closed file returns at once. A removed file that
is still open swallows what is written to it. The three file sinks extend this
module and share these steps.

**RotatingFileSink.** Calls hold the sink's mutex, so one call runs at a time; it
is split at each rename and at the write because the process may crash between.
`Construct` starts a new sink, with other limits, on whatever files are left.

**DailyFileSink** models both classes: they differ in the period, the rotation
offset and `remove_init_file_`. Messages are stamped by `Log` and reach the sink
later in any order; each use of the clock is a step and `Tick` may come between.
**DailyRotatingFileSink** adds the rotation by size, whose `rotate_` takes the day
from the clock and ignores failing renames.

**PatternFormatter.** `compile_pattern_` turns a sequence of characters into flag
formatters, `format` runs them with the cached calendar time, `%z`'s ten-second
cache and the elapsed-time flags' last message. Text is symbolic: `Text` writes a
field as that many symbols, so that widths and cuts are real and wording is not.
`localtime` and `gmtime` are constants; `CompiledByGrammar` compares the compiled
list with a declarative reading of the pattern.

**The fmt modules** are functions of their arguments; `MCFmt` chooses a call in
one step and its invariants compare what the algorithm returns with a reference
that does not share its method: a field is *some* padding of the digits, the
shortest float is the shortest decimal in the rounding interval, a week number
comes from counting days. Machine types are scaled, their relations kept: `int`
ends at 25 with one safe digit (`INT_MAX` and `digits10`), integers have 8 bits,
floats 8 significant bits, bigits 4, a buffer 3 places. Times have widths of their
own: the largest count, the largest number of seconds (`MaxSeconds`), the type a cast
computes in (`MaxCommon`) and the largest `int` (`MaxField`), in that relation to each
other in which the real ones are. `FmtBuffer` is a state
machine of its own: `MCFmt` fills each kind of buffer by every way of writing.

**RoboLog.** Every method tests the static `shared_ptr` and then reads it again to
call through it: two steps, between which the steps of another thread's `shutdown`
may come.

## 3. Runs

| Run | Bounds | Shows |
|---|---|---|
| circular_q | 2 rings, capacities 0-2, 2 values, 1 counted overrun each | `NoUnwrittenSlotVisible`, `SizeEmptyFullAgree`, and that the ring implements `BoundedFifo` (`ImplementsFifo`) |
| mpmc_queue | 2 producers, 2 consumers, capacity 2, 4 calls | `TypeOK`, `NoMissedPush`, `NoMissedPop`, `OneFatePerMessage`, `CountersExact`; `EnqueueReturns`, `EveryMessageSettled` |
| async_logging | 2 clients, up to 2 workers, 3 policies, 2 sinks, 2 levels, capacity 2, 1 throw, 2 calls; 3 calls, or 4 of one client, with 1 worker and no throw (`Load`) | `NoTerminateLost`, `DrainedOnDestruction`, `OrderPerClient`, `FlushCoversEarlierCalls`; `CallsReturn`, `PoolEventuallyGone` |
| registry | 2 threads, 4 calls, default and one more name, 2 flushers, 4 level specifications | `RegisteredFollowGlobals`, `OnePool`, `NoStrayFlusher`; `CallsReturn` |
| logger | 2 threads (symmetric; no liveness is asked), 3 messages, 2 levels, trace of 1, ring of 1, 1 error, 2 changes, messages of 2 units, 2 addresses | `BacktraceKept`, `SkippedAccounted`, `StreamsWhole` |
| rotating_file | 4 messages of size 1-2, max_size 2-3, max_files 0-2, 1 fault | `Chronological`, `WriteWithinLimit`, `OnlyOldestDeleted` |
| daily_file | 3 messages, 3 periods of 2 ticks, 6 configurations, 1 fault | `RetentionBound`, `NeverBackInTime`, `OnlyOldFilesDeleted` |
| daily_deletes_open_file (violation) | 2 messages, 2 periods, no fault | `CurrentFileKept` |
| daily_rotating | 4 messages, 2 days of 2 ticks, 3 configurations, 1 fault | `WriteWithinLimit`, `DeletesOldestOrStale` |
| pattern | all patterns of up to 4 of 6 characters and every flag with 7 paddings, 3 replacements, 6 messages, 3 formats | `TimeCacheInvisible`, `FieldsFit`, `CompiledByGrammar` |
| fmt | scaled types as above; format strings of up to 6 characters with 7 argument lists; integers, texts, byte sequences, floats, days, durations, ranges, styles and dumps around their edges; buffers filled with up to 9 units | `AcceptedFormats`, `CompiledSame`, `FieldsWellWritten`, `FloatsExact`, `TimesExact`, `BuffersKeepText` |
| robolog (violation) | 2 threads, 1 init, 3 calls, initialised first and shut down by one thread (`OrdinaryUse`) | `MethodsThreadSafe` |

Why the bounds are enough. A ring of capacity 2 has three slots and wraps; two
rings suffice for copies and moves, and the proofs cover every capacity. Two
sleepers and four calls are what it takes for a wakeup to be stolen and a second
one to be missed; again the proofs cover any number of threads. In AsyncLogging two
calls fill the queue of two places before the terminate messages of two workers come,
so that these have to wait. Order needs one more message than the worker and the queue
can hold: then the fourth call of a client overruns or is discarded, messages are lost
between two that are delivered, and a queue that gave its newest message first would
be found. More than one worker or a sink that throws do not bear on order, so the third
and the fourth call are made without them (`Load` in `MCAsyncLogging`). In Registry
four calls are a flush_every, a create, a second flush_every or shutdown, and a
setter between them; three mutexes can be held by two threads and a flusher, which
is every cycle there could be. A trace and a ring of one place overrun at the
second message. Three files and two rotations show every order of renames; one
fault per behaviour hits every system call once, a second one (rename and reopen)
being part of the same call. Two ticks per period put a rotation time inside the
period, three periods let `filenames_q_` of two places fill up and overflow. The
messages of `pattern` lie in one second, in neighbouring seconds, ten seconds
apart, across a change of the zone's offset and before each other. In `fmt` the
inputs surround every threshold the algorithms have at the scaled widths, durations of
more days or seconds than can be written and fractions of nine digits included. The
shortest output is tried for every float of 20 exponents, subnormal ones included,
but the smallest normal one: there Dragonbox takes a shorter interval than the
number has, and its comment (`format-inl.h`) says that the result is the same for
the real formats, which does not carry over to a scaled one. What scaling cannot show
is that the tables of cached powers and the multiplications that replace divisions are
precise enough at the real widths.

Deadlock is checked in every run but three. In Logger threads are free to stop
between calls, once the messages are used up; in Fmt a behaviour is one call; in
RoboLog a thread that dereferenced a null pointer has no next step. `Finished` is
where AsyncLogging and Registry may end: every call has returned, and in AsyncLogging
the pool is gone.

Every property has a mutant: a definition of the same module, named after the
slip it makes, under which TLC finds the property violated.

### Fairness

`MpmcQueue!Fairness`: weak fairness for each producer and each consumer inside a
call, timeouts included, and for consumers coming back, which is what
`worker_loop_` does. No fairness for callers, spurious wakeups or counter resets.
`AsyncLogging!Fairness`: the scheduler runs every thread that can take a step and
the program resets its pool at some point (`registry::shutdown`); nobody is
obliged to log. Sinks are assumed to return.
`Registry!Fairness`: weak fairness for the pool's worker; strong fairness for
every call under way and every flusher, because a step that takes a mutex is
enabled again and again rather than always: the flusher releases its mutex for
the whole of its interval, and mutexes in use here are not held for ever.

### What the violations show

* **daily_deletes_open_file.** `max_files = 1`, a sink constructed before its
  rotation time: the rotation yields the same file name, and `delete_old_` removes
  the file that is being written. With `truncate` set the same collision truncates
  it. `OnlyOldFilesDeleted` holds for the configurations without this collision
  (`NoCollision`).
* **robolog.** After `init` one thread shuts down while the other logs: the method finds
  `logger_` set, `shutdown` resets it, and the method calls through a null pointer or
  inside a logger that is freed. The class comment says that all public methods are
  thread-safe.

### Other behaviour the models show

The models follow the code here; the properties are stated so that these are
the only exceptions.

File sinks
: When the reopen at the end of a rotation fails, `fd_` stays null; a later message
  that fits the stale `current_size_` is dropped by `file_helper::write` without an
  exception, until the estimate passes the limit and `size()` throws, or somebody
  calls `rotate_now`. `rotate_now` itself leaves `current_size_` stale.
: `daily_rotating_file_sink::rotate_` renames the files of the day the clock shows
  and then truncates the open file, which may bear the day before; failing renames
  go unnoticed. `DeletesOldestOrStale` says that these are the only ways to lose
  more than the oldest part.
: The result of `fclose` is ignored: what stdio could not write is lost silently.
: A period that ends within a constructor leaves the first file out of
  `filenames_q_`, which then keeps one file too many.
: `init_filenames_q_` queues the files of earlier executions, period by period back to
  the first that is missing, and `delete_old_` deletes them in their turn: a sink with
  `max_files = 2` that finds yesterday's file deletes it at its first rotation. The
  comments of both classes (`daily_file_sink.h:65`, `hourly_file_sink.h:42`) say that
  old log files from previous executions will not be deleted. `RetentionBound` follows
  the code: it counts the files found as the sink's.
: When the write of the message that rotates throws, `delete_old_` is skipped: nothing
  is deleted, and the new file does not enter `filenames_q_`. A sink that is to retain
  one file then has two (`daily_file_sink.h:64`), and never deletes the one that was not
  queued. `RetentionBound` excepts such files by name (`forgotten`).

Duplicate filter
: A duplicate exactly `max_skip_duration` younger than the message shown is skipped,
  where the header (`dup_filter_sink.h:16`) says "less than".
: A report counts the messages that were kept back: 2 for a text logged three times.
  The header's example (`dup_filter_sink.h:34`) shows "Skipped 3 duplicate messages..".
  `SkippedAccounted` follows the code in both.

Connections
: A `::send` that returns 0 ends `tcp_client::send` as if it had sent the rest: the
  connection stays open and the next message follows the unfinished one. The comment
  says "Send exactly n_bytes of the given data" (`tcp_client.h:177`), the branch that it
  probably should not happen. `StreamsWhole` excepts what it leaves, and nothing else.

Levels
: `"debug, "` ends in a blank entry whose key is the empty one too, and loses the
  global level; `"n=debug,n=junk"` ignores `n`. An unrecognized level is ignored,
  where `cfg/env.h:12` speaks of falling back to info.

Patterns
: An unknown flag after a truncating specification becomes the function name's
  formatter. `%c` and `%E` announce a fixed width, which is not always the one
  they write, so padding can be off. The ten-second cache of `%z` is not refreshed when the clock
  goes back by less. Midnight is hour 0 of the 12-hour clock.

Format strings
: Names mixed with automatic numbers pass the compile-time check and fail at run
  time; so do a bool or a char as a dynamic width, and dynamic widths with names
  that do not exist. `AcceptedFormats` excepts these. FMT_COMPILE takes `"}x"` and
  `"{0:{}}"`, which the formatter rejects, and rejects `"{a}{0}"`.

Fields
: A debug character counts as one column whatever its escape takes; a grouped
  number with numeric alignment has its zeros before the sign; an empty debug string
  with a width or a precision loses its closing quote; a time point before the epoch
  with a fraction writes the fraction as a large unsigned number.
: printf shows `+` and a blank for unsigned conversions, one digit for a zero with
  precision 0, and `0x0` for a value that only the length modifier makes zero; a
  negative `*` precision counts as 0; a null cstring with a precision is read.
: The specifications of a map's elements (`"{::d}"`) are never accepted, because
  the parser returns where they began; a joined tuple does not parse its elements,
  so strings inside a nested range are not quoted there.

## 4. Proofs

A theorem holds for every value of the constants that satisfies the `ASSUME`s of
the module: bounds and sizes are naturals, capacities and limits that the code
divides or waits by are positive, sets of threads are finite and contain none of
the markers for "nobody". Some of them say something of the code: a pool has room
for at least one message (`PoolAssumption`); the hourly sink has no rotation
offset (`ConfigsAssumption`; `hourly_file_sink` rotates on the hour); and a message's
time is one that the log clock can tell, whose calendar time has its members in the
ranges the C library promises and an offset of at most a day (`MessagesAssumption`,
`TimesAssumption`). Runs evaluate all of them.

Each proof has the same shape: an inductive invariant `Inv`, checked by TLC on the
run of its module before it was proved; one lemma per action (`...Keeps`), under it
the parts of `Inv` that the action can disturb; `Invariance`; and the theorems that
follow from it. An action property is proved from `Inv` and one step.

`Sequential_proofs`, the ring
: `RingTypeCorrect` (`TypeOK`): indices stay inside the vector. The invariant is
  inductive as it stands.
: `RingImplementsFifo` (`ImplementsFifo`): by cases on the action, each step of the
  ring maps to the FIFO step of the same name. Rests on lemmas about indices
  modulo `max_items` and on one lemma per member function that relates `contents`
  before and after.
: `AccessorsAgree` (`SizeEmptyFullAgree`): follows from the type invariant.
: `OnlyPushedItemsVisible` (`NoUnwrittenSlotVisible`): with the strengthening that
  every slot between head and tail holds an item.

`Sequential_proofs`, the pattern formatter, `CacheInv`
: `CachesInvisible` (`TimeCacheInvisible`): `CacheInv` says of each cache what makes it
  right. `CacheOK`: the calendar time is that of `last_log_secs_`; `FullOK`: the text
  `%+` keeps is the date and time of the second it keeps; `ZoneOK`: the offset `%z`
  keeps was right for the second it keeps; each but for second 0 when no other was
  seen. `TimeKept`: flags that show a time are only there when `format` refreshes it.
  `Compiled`: the formatters are those the pattern compiles to, up to their states.
  The property compares two runs over the list of formatters; they agree by a least
  position at which they would not (`ReadsAsFresh`), flag by flag (`SameText`).
: The functions `compile_pattern_`, `Width` and `Run` are recursive over finite
  domains. That functions with these equations exist, which a definition by `CHOOSE`
  needs, is shown by extending them one place at a time (`ParsesExist`, `ValuesExist`,
  `AccsExist`).

`Sequential_proofs`, the grammar of patterns, `CacheInv`
: `PatternsMeanWhatTheySay` (`CompiledByGrammar`): the compiled formatters, run by run
  of text, taken apart into single characters are what the grammar splits the pattern
  into. `CacheInv` is needed for `Compiled`: messages change the formatters' states and
  nothing else of them (`SameSingles`). The scan of `compile_pattern_` and the reading
  by the grammar then agree on every end of the pattern (`MeansCompiled`), by the
  shortest end on which they would not. A run of text is worth its characters
  (`LiteralPart`), because taking apart distributes over concatenation
  (`FlattenConcat`, `SinglesConcat`); a flag is read as it is spelled, since a spelling
  fixes where `handle_padspec_` stops (`SpelledIsRead`) and where it stops is a
  spelling (`ReadIsSpelled`), so that `CHOOSE` in the grammar has exactly one choice
  or, for a flag cut short by the end, none.

`Sequential_proofs`, the fields of a pattern, `FitInv`
: `FieldsAlwaysFit` (`FieldsFit`): every flag announces to the padder the number of
  characters it writes, so that the padder, which cuts the end of the buffer by the
  difference, only ever cuts the field (`PaddedFits`). The announced sizes are
  constants (`Out(8, ...)` for `%T`), lengths, and `count_digits` of a number that is
  then written by other code; that the two agree is `DigitsCounted`: `count_digits`,
  which takes four digits at a time, is the number of digits that `append_int` writes,
  for every natural number. The constants are right because hours, years and fractions
  of a second are in range (`FieldAnnounced`, one lemma per group of flags); the two
  flags that announce a constant too large, `%c` before the tenth of a month and `%E`
  before September 2001, are what `Misannounced` excepts. `%z`, `%+` and the elapsed times write what they
  remember, and `format` writes with the time it has cached: `FitInv` adds to
  `CacheInv` that these are in range too, and that `mdc` holds texts. A run over the
  formatters goes on from the buffer it is given (`FlagGoesOn`, `RunGoesOn`), and so
  does the end of the colour range (`RangeGoesOn`). Without `FitInv` a step could be
  taken from a cached month of 40, or an offset that needs three digits of hours.
: The functions over all naturals, `Dec` and `count_digits_fallback`, are shown to
  exist by `RecursionExists`: a function is determined below each number
  (`FollowersAgree`), and what follows from smaller arguments is defined on all.

`MpmcQueue_proofs`
: `TypeCorrect` (`TypeOK`).
: `PushNeverMissed` (`NoMissedPush`) and `PopNeverMissed` (`NoMissedPop`): no lost
  wakeup, for any number of producers, consumers and any capacity. The invariant
  counts: while anybody sleeps, there are at least as many threads headed for the
  queue (about to notify, or about to test it) as there are messages, or free
  places. Counting is what makes it inductive: with only "somebody is headed for
  it" two pushes and one notification would be a counterexample to induction.
  An action moves one thread, which changes a count by at most one
  (`CountAfterGoto`), or hands a thread's place over to the one it wakes
  (`CountAfterHandover`).
: `OneFate` (`OneFatePerMessage`): `Fates` says that the messages in calls, in the
  queue and settled are different ones, and that every call's message is in one of
  these places; the property alone does not know that two producers hold different
  messages.
: `CountersAreExact` (`CountersExact`): the number of lost messages is what the
  counters show, what resets took away, and the threads that are about to add one
  to `discard_counter_`, which happens after the lock is released.

`AsyncLogging_proofs`, `Inv == TypeOK /\ Life /\ Flow`
: `TypeCorrect`, `TerminatesKept` (`NoTerminateLost`), `DestructionDrains`
  (`DrainedOnDestruction`): `Life` is the pool's life. A pool that has a holder has
  no terminate message; the destructor runs in one thread, after every call; from
  then on terminate messages are posted by blocking calls only, they come after all
  others, and those in the queue and the stopped workers add up to those posted.
: `OneWorkerKeepsOrder` (`OrderPerClient`), `FlushCovers`
  (`FlushCoversEarlierCalls`): `Flow` says where a posted message is: overrun,
  discarded, refused, in the queue, with a worker, or at the sinks; and, for one
  worker, that what a sink has is older than what the worker holds, and that older
  than what is queued, client by client.

`Registry_proofs`, `Inv == MapInv /\ RestInv`
: `TypeCorrect`, `LoggersFollowGlobals` (`RegisteredFollowGlobals`), `PoolIsShared`
  (`OnePool`), `FlusherNeverStray` (`NoStrayFlusher`). `LocksHeld` ties each mutex to
  the position of its holder, for threads and flushers alike; `FlushersKnown` says
  that a running flusher is the current one or the one the holder of
  `flusher_mutex_` is stopping; `PoolCurrent` that an async create between its look-up
  and its registration has the current pool.

`Logger_proofs`
: `BacktraceIsKept` (`BacktraceKept`): with `CallsOK` (a dump in progress holds the
  tracer's mutex and the front of the trace; the messages on their way to the trace
  are different ones and not in it) and `ItemsOK` (no message is in it twice).
: `SkippedIsAccounted` (`SkippedAccounted`) and `StreamsAreWhole` (`StreamsWhole`)
  are inductive with their types and, for the filter, with what it remembers being
  what was shown last (`Remembered`); the work is in `dup_sink_it` and `tcp_sink_it`,
  whose every error path is a case. `StreamsWhole` names the one it excepts: the
  message left unfinished by a `::send` that returned 0.

`RotatingFileSink_proofs`, `Inv == TypeOK /\ RotationOK /\ StoreOK`
: `FilesChronological` (`Chronological`): `StoreOK` orders the files and the buffer
  pairwise and bounds their messages by the id of the next one to be written.
: `OldestDeletedOnly` (`OnlyOldestDeleted`, an action property): `RotationOK` says
  that the place `rotate_` fills next is empty, unless it is the last.
: `LimitKept` (`WriteWithinLimit`, an action property): `SizeOK` says that
  `current_size_` is at least the size of the open file, torn messages not counted,
  and that a call at its write has either found room below `max_size_` or an empty
  file. It rests on lemmas about sums (`TotalOfParts`, `TotalBounded`), whose
  induction is by a least counterexample (`LeastElement`, from the well-foundedness
  of `<` on the naturals): the library's induction theorems cannot be instantiated
  by the provers, its theorem on minimal elements can.

`DailyFileSink_proofs`
: `NeverBack` (`NeverBackInTime`): `TimesOK` says that no file of the sink is later
  than the period in which the next rotation is due, which is what late messages
  would need to go back.
: `RetentionIsBounded` (`RetentionBound`): every file of the sink that exists is in
  `filenames_q_`, is the one being opened, or was forgotten for one of the named
  reasons (`RetentionOK`); the queue has at most `max_files_` places.
: `OldFilesDeletedOnly` (`OnlyOldFilesDeleted`, an action property): from `QueueOK`
  the front of a queue of two or more is earlier than the open file even when one
  period's file is opened twice; from `DiskOK` a file later than all the sink's files
  is empty, so that truncating it, or removing the hourly sink's unused first file,
  deletes nothing.

`DailyRotatingFileSink_proofs`, `Inv == TypeOK /\ RotationOK`
: `OldestOrStaleDeleted` (`DeletesOldestOrStale`, an action property): as long as no
  rename failed each rename goes to a free name, and after the last one the main
  file of the day that was rotated is gone, so that `reopen(true)` truncates
  something only if the open file bears another day.
: `DailyLimitKept` (`WriteWithinLimit`, an action property): `SizeOK` is that of the
  rotating sink for whichever file is open, and needs that the file opened when
  `current_size_` is set to 0 is empty. `DayOK` says why it is, for a sink that
  rotates at midnight: `rotation_tp_` lies in a later day than any main file that
  exists and than the file in use, so a message past it opens a new file. `DayOK` and
  `SizeOK` are inductive together with `Inv` only: the day of the file in use must be
  known through the stages of `rotate_`, where no file is open. The lemmas on sums are
  repeated from `RotatingFileSink_proofs`.

Only model-checked:

* Liveness (`EnqueueReturns`, `EveryMessageSettled`, `CallsReturn`,
  `PoolEventuallyGone`): fairness and `ENABLED` are outside the prover's reach.
* The fmt modules: what they compute is recursive over their inputs, and they use
  `RECURSIVE` operators.

## 5. Not modelled

* Memory model: a mutex's critical section is one step and atomics are
  sequentially consistent.
* Callbacks: `on_thread_start`, `on_thread_stop`, file event handlers, custom error
  handlers, sinks that log themselves; exceptions that are not std::exception and
  terminate a worker.
* A pool with `q_max_items = 0`: it is always full and its destructor waits for
  ever; `PoolAssumption` excludes it. More than one worker gives up
  `OrderPerClient` and `FlushCoversEarlierCalls` by design.
* `get_default_raw` while the default logger is replaced: `registry.h` forbids it.
* Changes of the time zone's offset in the daily sinks, user-defined daily file
  name formats, files changed by other processes.
* In fmt: locales, wide characters and upper-case presentations, long double and
  128-bit integers, floating-point durations, lookups in the time-zone database,
  dynamic widths inside ranges, user-defined formatters, colors made from a bare
  `uint32_t` without a discriminator, and the adapters spdlog does not use
  (`std.h`, `args.h`, `os.h`, `ostream.h`, `xchar.h`): formatters of library types
  in terms of the modelled ones, files and streams.
* Console, platform, service and udp sinks (output under a mutex),
  `basic_file_sink` (one call of `file_helper` each), stopwatch and
  log_msg_buffer (values).

## 6. Plan

Modelled and checked: the asynchronous core, the registry, the logger with its
backtrace and small sinks, the file sinks, patterns, fmt and RoboLog. Proved: every
safety property of the runs except those of fmt (section 4). Nothing of the plan is
left that the prover can reach.
