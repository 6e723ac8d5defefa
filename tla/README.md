# auto_rec_mini in TLA+

auto_rec_mini records ISDB-T broadcasts: it reserves programmes, tunes one of up
to four tuners, parses the stream's tables, writes the stream to disk, caches the
programme guide and serves viewers.  This directory models the parts of it whose
correctness depends on the order of concurrent steps, and the pure algorithms these
parts rest on; it checks the models with TLC, and proves the most important results
with TLAPS for every value of the constants.  Source paths below are relative to the
repository (`src/src/...` in `PROJECT.json`).

## 1. The system

Everything runs in one process.  A *module* is one thread with an inbox and a set
of cooperative fibers, provided by the C library `third_party/coseq`.  A fiber runs
one *sequence* (a handler such as `on_tune`) until it waits for a reply or a timer.
Modules talk only through `request` (wait for the reply), `send` (no reply) and
`notify` (to registered listeners), with three exceptions that share memory: the
tune thread calls stream handlers of other modules directly, `tuner_control` and
`tune_thread` read each other's flags, and the HTTP and console threads call in
through one mailbox.

| component | state | operations | hard behaviour | modules |
|---|---|---|---|---|
| coseq scheduler (`coseq.c`) | inbox, deferred events, lock, fibers, table of awaited replies | post, one turn of the loop, the requests and waits, lock, unlock, reply | events deferred by the lock change places; late replies; fibers freed | Coseq, CoseqModule |
| external mailbox (`coseq.c`, `client_if.h`) | one slot for one awaited reply | `_request_sync`, `_request_async`, `ext_deliver` | several threads, one slot; signals and spurious wakeups | ExtMailbox |
| tuner_service | table of tuners (owner, tuned), round-robin index | open, close, tune, tune_with_retry, tune_stop | lock held across waits; sends that overtake each other | TunerService, TunerPool |
| tuner_control + tune_thread (one pair per tuner) | freq_, state_, is_req_stop_; the thread's state_ and child process | tune, tune_start, tune_stop; tune, force_kill | two threads without a lock; a thread that a stream occupies; time limits | TunerControl |
| psisi_manager (one per tuner) | tables, the infos cached from them, readiness | stabilisation after tuning, table notices, check loop, queries | several stabilisation fibers at once; tables of two channels; infos built from several tables | Psisi, Programs, Events |
| parsers (`ts_parser`, `section_parser`) | inner buffer; pool and list of sections | piece in, packets out; packet in, section out | pool and fifo limits, lost packets, pieces cut anywhere | TsParser, SectionParser |
| tables and descriptors (`parser/psisi`, `ts_arib_common`) | lists of tables with versions | parse a section, convert values | nested lengths, bit fields, versions that wrap, dates | PsiTables, PsiDescriptors, PsiEncoding, Conversions |
| rec_manager, rec_instance | reserves_[50], recordings_[4], results_[20], progress of each recording, the files of reserves and results | add / remove reserve, check loop, start, stop, notices | check loop against requests; progress shared by two threads; leaks; restart | RecTable, Recording |
| viewing_manager, stream_handler | viewings_[4], child process, progress | start, stop, check loop, notices | progress shared by two threads | Viewing |
| the data path (`buffered_process.h`, `rec_arib_b25.h`, `arib_b25_process.h`) | blocks before the decoder and before the file | put, finalize, flush | pieces of any size, errors and short writes half way | BufferedProcess, Buffers |
| event_schedule_manager | reserves_, executing_reserve_, flags, the container | check loop, exec, force, stop, lookups | shared flags of overlapping requests, late reserves | EventSchedule, Guide |
| event_search | keyword lists, histories | keyword searches | remove and add are two requests | Guide |
| channel_manager | channels_ and its file | scan, lookups | scan holds its lock for minutes | Guide |
| command_server (console) | session, line buffer, stack of command tables | accept, receive, cut lines, obey, close | lines cut anywhere; a call that waits for a module that has stopped | Console |
| http_server | | HTTP requests | callers of the mailbox from a pool of threads | as callers of ExtMailbox, its end in Console |
| main, module table | shutdown flag | start-up, shutdown | joining threads that do not look | Console (shutdown) |

`PROJECT.json` lists every component with its status, and under "hazards" what
can go wrong in each and is hard to reach with a test.

What makes each part correct:

* coseq: the lock excludes; no reply is lost, counted twice or delivered to a fiber
  that has ended; the module never waits for an event it has set aside itself.
* mailbox: a caller gets the reply to its own request, and gets one.
* console: every line a client sent whole is obeyed once, in order; the thread comes back
  to look for the end, except when what it waits for has stopped or clients never pause.
* tuner_service: at most one client uses a tuner, what it opened stays its own until
  it closes it, a tuner it was told is tuned runs, a free tuner is silent, every tune
  is answered.
* tuner_control: the thread is free when it is asked to tune; a request to stop ends
  with the stream it was for; callers are answered.
* psisi_manager: ready means that what it caches is of the channel tuned last, and
  complete; once the tables have come, what it tells is what is on air; the loss of
  the PAT and the beginning of a programme are announced.
* parsers: an intact stream's packets all come out; a section that arrived whole is
  delivered once; the pool stays packed; each field is read from its place.
* rec_manager: a reserve ends in exactly one way, the file says what the table says,
  no tuner is left open, a recording has its tuner and its writer and comes to an end.
* viewing_manager: a viewing in the table has its tuner and ends once; no ffmpeg is
  left behind; a stop takes effect; the handler is idle when the next one begins.
* data path: a file and a viewing's data are whole and in order.
* event_schedule_manager: a run gives back what it took; a started series ends and is
  announced; who forces or stops a run is answered.
* guide: what a complete reception stores is what was on air; a search renews reserves
  and loses none; a scan holds nobody up for good.

## 2. Modules

```
Coseq              the queues and the lock of one coseq module (no Init/Next of its own)
  CoseqModule        + arbitrary fibers and the table of awaited replies
    CoseqModuleProofs  proofs about it, ExtMailbox and Console: the calls through coseq.c
  CoseqProofs        lemmas about Coseq
  TunerService       + the fibers and the table of tuner_service, its clients and peers
    MCTunerService     instance for TLC
    TunerServiceProofs
  TunerControl       + the fibers of tuner_control, tune_thread, the callers
    TunerControlProofs
  Viewing            + the fibers of viewing_manager, the stream handler on two
                       threads, ffmpeg, tuner_service and psisi_manager as seen from it
    ViewingProofs
TunerPool          what tuner_service promises (abstract)
ExtMailbox         the mailbox of external threads
  Console            + command_server's thread, its client, main's shutdown
    MCConsole
RecTable           rec_manager's arrays as functions
  Recording          + rec_manager's fibers, rec_instance on two threads, the files
    MCRecording        instance, with the data path
    RecordingProofs
  Guide              + the guide: EIT schedule, its container, event_search,
                       channel_manager's scan, rec_manager's adding of reserves
    MCGuide
BufferedProcess    a buffer before whatever works on its blocks
Buffers            the data of a recording and of a viewing (three BufferedProcesses)
EventSchedule      event_schedule_manager's reserves, runs and requests
  MCEventSchedule
  EventScheduleProofs
Psisi              psisi_manager: readiness and the PAT
  MCPsisi            instance, with Programs, Events and Conversions
  PsisiProofs
Programs           PAT and PMTs, and what is told of programs and streams
Events             services, present and following events
Conversions        dates, times, channels, check sums, logos
SectionParser      sections out of packets
  MCSectionParser    instance, with TsParser and PsiEncoding
TsParser           packets out of pieces
PsiTables          the tables' parsers
  PsiDescriptors     the descriptors' parsers
    PsiEncoding        their reference: an encoder
```

**Coseq** is `sched_loop` without its fibers: `BeginTurn` is the top of the loop
(deferred events are put back in front when the lock is free, the thread sleeps
until there is something it may act on, the whole inbox is taken), `ResumeTimer` and
`SkipTimer` the timer pass, `Defer` and `Take` the event pass.  A component EXTENDS it
and conjoins these with what its fiber does until it waits again, so one action is
one uninterrupted run of a fiber, exactly the unit in which other fibers of the
module can see its effects.  Time is abstract: the set of timers that have expired
when a turn begins is an input.

**CoseqModule** adds fibers that make any call of the API.  They keep the two
conventions every sequence of the program keeps: `lock` is the first thing a sequence
does, and a sequence collects the replies to its asynchronous requests before it
returns.  (The first is visible in the five users of `lock`; the second holds because
no sequence uses `request_async` today.)  The payload of messages, allocation
failures and the end of the program (`stop_modules`) are left out, which is why the
component is "partly" modelled; `coseq_reg_notify` is only used at start-up.

**ExtMailbox**: `RequestSync` is `_request_sync` up to the wait, `WaitAgain` and `Returns`
what follows it, `ExtRequestAsync` is `_request_async`, `ExtDeliver` is `ext_deliver`; a reply is represented by the request
it answers.  `SpuriousWakeup` is POSIX's.

**Console** is command_server's thread on top of the mailbox: `at` is where it is, `buf`,
`carried`, `save` are the line buffer, what is carried over to the next read and what
`strtok_r_impl` has still to cut, `table` and `stack` the menu.  Bytes are symbols.  A read
that just fills the buffer leaves no zero at its end, so the string runs on into whatever
follows it in memory: that is undefined, and the model goes on with `Beyond`, nothing or
some garbage.  A read of more than the free room closes the connection
(utils.cpp:235).  The flag that a close was asked for survives its session.  The console
is taken to be the only caller of the mailbox; ExtMailbox has what happens otherwise, and
an HTTP request is here only one that main waits for (`HttpDown`, `Served`).  What a command
prints is left out.

The end of the process has three enemies.  The server's loop and the session look at the
flag only when select() has waited a second for nothing, so a client that always sends
(`Chatter`, `Finishes`) or clients that always come (`Calls`) put it off: `pressing`.
stop_modules joins every module's thread, and a tune_thread in its loop looks at the request
to stop but not at the flag (tune_thread.cpp:161-248): `streaming`, which ends when the
tuner's process ends.  And the module a command waits for may be one that has stopped:
`Stranded`.  `ConsoleComesBack` excepts these three, and nothing else.

**TunerService**: the table is `owner`, `tuned`, `next_tuner`; the fiber that holds the
lock is `op`, whose `pc` says for which reply it waits; a client's `tune_with_retry`
fiber is `retry[c]`.  `on_open` and `on_close` are one action each, `on_tune` is cut at
its waits (`OnTune`, `TuneAnswered`, `PollTimer`, `PollAnswered`, `CleanupAnswered`), and so
are the others.  The clients follow the order in which rec_manager, viewing_manager,
event_schedule_manager and channel_manager make their requests.  The answers of
tuner_control and psisi_manager are inputs.  Left out: priorities (stored, never
read), `dump_allocates`, and the console's own open, close and tune, which a user
may give in any order and for anybody's tuner.  A client that opens always closes:
the paths of rec_manager that do not are Recording's matter.

**TunerPool** is the promise: a tuner is free, a client's, or lost.  `TunerService`
implements it under the mapping `PoolState`.  *Lost* is needed: a client gives its
tuner back with send(tune_stop), send(close) (channel_manager.cpp:207); if the module
is locked when tune_stop is looked at, it is deferred, and if the reply that ends the
lock comes before close in the same batch, close is handled first and refused, because
the tuner is still tuned (tuner_service.cpp:362).  Nobody sends close again.

**TunerControl**: `freq`, `state`, `is_req_stop` are the members of `tuner_control`,
`tune`, `start`, `stop` its fibers (several `on_tune_stop` fibers can exist, because a
failed `on_tune` sends one and does not wait), `tt` and `ttq` are the thread's state and
inbox.  A running stream occupies the thread, so requests stay in `ttq` until it is
`closed`.  tuner_service is represented by what it may ask, given what it last heard
(`svc`).  `raced` is a history: first data came between the two reads of the thread's
state in `on_tune_stop` (:188), which then takes the running stream for none.  Then a
tune request reaches an occupied thread.  `tune_thread::on_tune` means to refuse it,
but its check runs only when the thread is free again, and meanwhile `on_tune_start`
holds tuner_control's lock.  The same happens without a missed look when the console tunes
the tuner which tuner_service is tuning: between the tune_stop and the tune_start of one
`on_tune` (:89-111) those of the other go through, and the second tune_start finds the
first one's stream.  That, too, is `raced`, and both are in the runs; a console that tunes
at another time, or stops while tuner_service tunes, does no harm.  `freq_` survives a stream that ends by itself (:79): the next
tune of that frequency reports success and starts nothing, which is why no property
says that success means a stream.

**Viewing** is one tuner (one `group_id`) with the entry of `viewings_` (`used`, `auto`), its
ffmpeg (`child`), the `on_start_viewing` fiber (`start`, of which the lock allows one) and
the handler's `progress`.  `on_ts_received` is three steps on either thread, because
`progress_` is read at the switch (`Enter`), read again for the notice, after the flush and
before it is sent (`Notify`), and written (`Leave`); `Set` is `set_next_progress` from
viewing_manager's thread.  An unprotected `progress_` is a data race; the model takes
reads and writes of the int as atomic and lets them interleave.  `OnPatLost` sets
`progress` and then runs the handler on viewing_manager's thread, whose scheduler
waits meanwhile.  tuner_service serves its queue `svcq` in order with the refusals that
matter here (tune needs an untuned tuner of one's own, close an untuned one).  A
failing tune_stop, the retries inside tune_with_retry, `on_event_changed` (programme
data), `process_end_error` (which nobody sets here) and more than one loss of the PAT
per tune are left out.  `Troubles` says which disturbances are included.  `races` is a
history variable: progress_ was written between the tune thread's read and write
(`torn`) or after the end was announced (`late`), both threads were in the handler
(`both`), or the PAT was lost while a start was under way, which the code ignores
(`early`).  It guards no action; properties use it to say *only a race breaks this*.
What such a race does: a stop that comes after the handler has announced the end and
before viewing_manager has handled the notice writes progress_ again
(viewing_manager.cpp:563), the next start on the tuner finds it not `init` (:494) and
is refused, or the new viewing's data runs the old end.

**RecTable** and **Recording**: the reserves are an array kept in order of their times,
`recordings` one entry a tuner, `results` a number.  `disk` is the two files: a sequence of
what they hold now and after each save that the running step still has to make.  A step of
rec_manager appends its saves in the order of the code (remove_reserve: results :1511, the
repeat :1454, reserves :1531; check_reserves: results and repeat for each reserve that has
passed, then one save for each that refresh_reserves takes out, :1726), `Saves` makes the next
one, and no fiber goes on before all are made (`Scheduling`).  A `Crash` meanwhile leaves the
files as they were before the save, or one of them empty or in part (`<<>>`), since
save_reserves truncates before it writes (:2158); load_reserves does not catch what cereal
throws then, so there is no `Restart`.  `cut` marks a crash between the saves of a step: the
results may have a reserve that the file of reserves still lists, which `Accounted` excepts;
the table that is loaded is packed, in order and without doubles all the same.  The four fibers
are rec_manager's loops and `on_start_recording`; each action is one stretch between two
waits, and what is read before a wait may be stale after it, since no fiber takes the
module's lock.  `h` is `on_ts_received` of rec_instance on the tune thread and, after a
lost PAT, on rec_manager's own.  A crash loses everything but the files.  `odd` records
what the code does wrong or leaves open, and the properties except exactly that:

* `leak`: a tuner that `on_check_loop` opened and cannot use is not closed
  (rec_manager.cpp:308, :320).
* `raced`: the two threads met in the handler or overwrote rec_progress_.
* `early`: the PAT was lost, or the recording stopped, before the first data; the notice
  of a loss during a start is not repeated, so the recording may not end, and a flush
  goes to a b25 writer that is not there.
* `moved`: the schedule's new times are neither sorted anew nor saved with the reserve,
  and the index they are written to may be another reserve's by then.
* `stale`: that index is no longer in use (rec_manager.cpp:398).  The blank slot has a time
  then, and the next reserve that starts earlier is inserted there, behind whatever blanks
  are before it.  The table has a gap, though the comment at :1551 relies on there being
  none; and since it counts as not full, an insertion can shift the reserve in the last
  slot out, and it is lost.  With `"stale" \notin odd =>` taken out of TableIsKept TLC finds
  the gap with three requests (`Troubles = {"epg"}`, `EventTries = 0`), and without it in
  Accounted the loss with four.

Further observations: a repeating reserve never comes back, because the one it repeats
is still recording when it is added (:1401 refuses it as a duplicate); the re-adding of
a delayed programme is always refused (:955, `is_rescheduled` never becomes true); a
failed `get_physical_channel` leaves recordings_ in use for good (:657); recordings in
progress are lost at a restart.

**BufferedProcess** and **Buffers** are functions: a piece goes through `buffered_process`
into the decoder and the splitter, and from there through a second buffer into a file or
into ffmpeg's pipe.  Data are numbered, so a missing, doubled or misplaced byte shows.
What the code does with errors is kept: after a failed block the block stays and is given
to the decoder again while the piece is lost; a full disk never lets the tune thread out
of the loop around fwrite (file_buffered_writer.h:49); if the disk has room again after an
fwrite that took a part, the loop writes the block's beginning once more in place of its
end, since it does not advance its pointer (:50); a recording whose file could not be
opened reports success (rec_arib_b25.h:162); a block that ffmpeg takes in three writes is
garbled, because the rest is taken from the end of the last write (viewing_manager.cpp:524);
what the decoder holds at the end is not flushed; if the decoder cannot be set up the data
pass undecoded.  `DataIsWhole` says that the file, or what ffmpeg gets, is right *exactly
unless* one of the two garblings happened (`marks` has that they did): both occur among
its inputs.  An error behind a part of a block, or with a decoder that keeps something,
repeats the block and is excepted.

**EventSchedule**: `reserves`, `executing_reserve`, `retry_reserves`, `state`, `is_need_stop` and
`force_cache_group_id` are the members; `run` is the fiber of `on_exec_cache_schedule`,
`force[f]` and `stop[s]` those of the requests.  Times are in steps of a series.  In the code
two reserves with the same flags and group are duplicates if their times agree to the
nanosecond; in the model two of different origin (`of`: the day, the request or the forced
run that added them) never are, although their times in steps may agree.  `odd` has
`overlap` (two force requests: the one that ends first resets force_cache_group_id_ under
the other, :715, whose run then addresses a module that does not exist and waits for ever)
and `late` (a reserve more than an hour late is deleted even if it is the one that ends the
series, :1389, which then stays busy).  Observed besides: with the setting
event_schedule_cache_is_enable off a force request never returns (:728), so the run has it
on; force reports success when its run failed or was dropped; the end time of a run is the
previous one's until its first section (:535).

**Guide** composes what lies between the broadcaster and a reserve: sections of EIT
schedule whose programmes move while they are received, the parser with its version
numbers, the container and its file, the two keyword searches, `on_add_reserve_event` of
rec_manager with its two requests, and channel_manager, which answers nobody while it
scans.  Runs are taken as given (EventSchedule has their timing) and a recording only
occupies its place (Recording has its course).  `cut` marks a guide from a reception that a
pause of 10 s ended early: it replaces a complete one.  Further observations: a search
turns a repeating reserve into one without repeats and adds again what the user had
removed; a crash between remove and add loses the reserve; the last keyword is never
written to the history; sections that are no longer broadcast stay until the tables are
cleared; a failed scan empties channels_ but not its file, and a run planned before then
gets a reply without message and makes a std::string of NULL (`down`, RunHasItsName); so
does every run of a stream whose NIT had no name when it was scanned
(channel_manager.cpp:354);
`get_physical_channel_by_remote_control_key_id` ignores two of its three arguments;
pointers into the container are used after a wait (event_search.cpp:191,
rec_manager.cpp:1011), which is undefined if the container was written meanwhile: the
model takes the value that was found.

**Psisi**: the tables are lists of sections, a section known by the channel whose stream
brought it; `fiber[f]` is the stabilisation after tune f, which nothing ends before its
time.  Notices are handled at once, since nobody who sends one looks at psisi_manager.
`tuner_is_tuned_` is TRUE exactly while `state_` is ready, so there is one variable.  `odd`:
ready was announced by the fiber of an earlier tune.  Assumed: 200 ms waits expire in
order, and a stream that delivers repeats its tables within 30 s.  Observed: a stop of a
stream that had closed sends no notice, so the state stays ready; if the PAT never came in
a tune its loss is never announced.

**Programs** and **Events** are step functions over what may happen to one psisi_manager
(what is on air changes, a table comes, a clear, a tune, the check loop), iterated over
all orders up to a length.  `Heard` is the reference: what has come of what is on air.
Observations: between a new PAT and the last PMT programs have the streams of others;
after a stop without clear a repeated PAT does not bring the infos back; a programme of
undefined duration is never present; services are never forgotten, so that after 64 of
them those of a new channel are left out; the beginning of a programme that has come
late is announced every other second until 15 s have passed.

**SectionParser**: `mem` is sect_list_, pool_ and the working section; `call` the loop of
`check_section_first`; `sender` the broadcaster.  A unit of data says of which section it
is which part, so misplaced data show, and a section's CRC is right exactly if its units
are all there and in their places.  The histories `sync`, `must`, `known`,
`delivered` say what had to come out.  Observations (all modelled): a packet with a
pointer_field whose first part is unusable is dropped with the section that begins in it;
a header split after three to seven bytes ends the process (`down`); the result of a
packet with a pointer_field can hide a delivery or invent one; a section is copied with
its packet before it is cut, so that one near the pool's size cannot be received; a
section that was replaced stays in the list, so its return is taken for a repetition.

**TsParser** is a function of the stream and of how it is cut; a byte is whether it looks
like a sync byte and its place.  `beyond` is the byte after the data that
`get_sync_top_addr` reads.  Observed: without a unit size the whole buffer is given up; a
piece larger than the room left after a parse is dropped; a packet spliced at a gap is
handed over (its CRC tells).  With an adaptation field `p_payload` is moved on from the
packet before, or from nullptr (ts_parser.cpp:255), against the comment beside it:
`PayloadOf` does the same, and `PacketsGetThrough` holds the pointer only for packets
without a field.  Not modelled: the bit rate.

**PsiTables**, **PsiDescriptors**: each parser as a function from bytes to rows, with the
code's length checks.  **PsiEncoding** is written from the layouts, not from the parsers, and
says for each instance what must be read; where the code deviates, the reference says so
and what is read instead: a table with an empty descriptor is refused whole, and so is one
whose only row has no descriptors; the audio descriptor's quality and sampling rate are
taken a bit beside their places (so that another rate is named than was sent); the
terrestrial area code is byte-swapped and the guard interval taken from the wrong byte;
the satellite modulation has `| 0x1f`; frequency and symbol rate are byte-swapped.

**Conversions** has the arithmetic of dates (`EpochDay` against a calendar, for every date of
16 bits from 1900), times and their sums, channels, the check sums of
sections and of PNG files, and the palette that is put into a logo.

## 3. Runs

| run | module, cfg | checks |
|---|---|---|
| console | MCConsole, Console.cfg | ReplyIsOwn, BlockedIsExpected, LinesAreObeyed, ConsoleComesBack |
| mailbox_many | ExtMailbox, `_many` | ReplyIsOwn: **violated** |
| coseq | CoseqModule | PendingIsSound, LockIsSound |
| tuner_service | MCTunerService, TunerService.cfg | ExclusiveUse, HolderIsOwner, TableIsTrue, PoolSpec, TuneIsAnswered |
| tuner_control | TunerControl | TunerIsUsable (ThreadFreeForTune, NoStaleStop), ServiceIsAnswered |
| viewing | Viewing | ViewingIsWhole, EndIsClean, EndsAndAnswers |
| recording | MCRecording, Recording.cfg | Accounted, TableIsKept, TunerAccounted, RecordingIsWhole |
| recording_live | MCRecording, Recording_live.cfg | ReservesEnd, DataIsWhole |
| event_schedule | MCEventSchedule, EventSchedule.cfg | LeavesNothing, StopNotLost, BusyHasEnd, CallersNotStuck |
| guide | MCGuide, Guide.cfg | GuideIsWhole, RunHasItsName, SearchRenews, AddIsAnswered |
| psisi | MCPsisi, Psisi.cfg | ReadyIsCurrent, GetsReady, LossIsAnnounced, InfosAreCurrent, ValuesAreRead |
| section_parser | MCSectionParser, SectionParser.cfg | PoolIsSound, WholeIsDelivered, ReportIsTrue, PacketsGetThrough, SectionsAreRead |

What each shows is in `PROJECT.json`.  *mailbox_many*: `client_if.h` takes external calls
to be sequential; HTTP handlers run on a pool of threads.  The second caller replaces the
registration of the first.

Several properties are conjunctions of named parts, each with its own comment.  The
properties of functions (`DataIsWhole`, `InfosAreCurrent`, `ValuesAreRead`,
`PacketsGetThrough`, `SectionsAreRead`) are stated of the initial state of the component
they belong to: they quantify over all bounded inputs of the function and have nothing
to do with the states that follow.

`ViewingIsWhole` holds in spite of the races on progress_: a second notice can end the
viewing that follows, but it ends it completely (table, ffmpeg, tuner), and one that
comes during a start makes that start fail.  `EndIsClean` and the end of a stopped
viewing hold only without them.

### Bounds

* *mailbox_many*: four request ids with two callers.
* *console*: a buffer of 8 symbols, two groups of commands below the root as in
  command_tables.cpp (whose tables are no deeper, so a stack of 2 is never full, as in the
  program), two sessions, four request ids; three scripts that go down and up the tables,
  run each kind of command, ask for the close and go on, with arguments, empty lines and
  unknown words.  A script is longer than the buffer and comes in pieces cut anywhere.
* *coseq*: three fibers (a lock holder, a fiber that waits, a notification), two
  requests per behaviour: enough for a reply, a second one out of order, and a time-out.
  `Room` keeps the number of sequences that run or wait to be started within the fibers.
* *tuner_service*: two clients of one module (so `pre_check` cannot tell them apart), one
  a scan; two tuners, one of which may fail to stop; one retry and two polls instead of
  three and 76, because each further round repeats the last one.
* *tuner_control*: a frequency for each caller, two `on_tune_stop` fibers (`Load` keeps the requests
  within them), two looks for data instead of 41.  The 300 looks of `on_tune_stop` are a
  flag (`half`, after which force_kill has been sent).
* *viewing*: one user and two requests: a start and a stop or a second start.  The
  other users of the tuner are OtherOpens/Tunes/Closes.  One retry for the present event
  instead of ten, one automatic stop in flight at a time.
* *recording*: one tuner, two slots for reserves and one for results (so both tables get
  full), two programmes that overlap, one of them repeating, two requests to reserve,
  times 1 to 3; one retry for the present event; one crash, at any state between steps or saves.
  *recording_live*: times 1 to 4, one request, no retry, no removals (a removal only takes a
  reserve out sooner) and a crash only where the code dereferences a writer that is not there.  The data path: blocks of 3 to 6, pieces of 1 to 9, three of them,
  a decoder that keeps 0 to 2, up to two blocks before the splitter selects, disks with
  room for 0, 3 or everything or for 2 or 5 and again for more; one or two short or failing
  writes, one after the other, among the first four.
* *event_schedule*: two requests to force and two to stop (symmetric), one tuner, a series
  of two channels, times 0 to 2, two requests in all.
* *guide*: one service of two programmes in two sections, versions modulo 3 starting at 2,
  so that they wrap; two physical channels (one a relay); one run, change, request, scan.
* *psisi*: two channels, two tunes: a fiber of the first meets the second.  Programs: four
  states of what is broadcast and every order of 10 steps; Events: 7 or 8 steps.
* *section_parser*: sections of one, two and three packets and one that is unwanted, a
  pool of two packets and a fifo of two, which both overflow; at most two sections begin
  in a packet.  ts_parser: 14 packets in pieces of 1 to 8, every set of false sync bytes
  of period 7, a gap of 1 to 4 bytes anywhere around one packet.  Tables: up to two rows
  with up to two descriptors, some so long that lengths need their high bits.

Deadlock checking is off: with bounded requests a behaviour ends, and a module without
events sleeps; in section_parser and guide the process may end.

### Fairness

* console: its thread and main run, modules answer until they are stopped, a signalled
  thread gets the mutex, a second without data passes, and HTTP requests are finished before
  the modules are stopped.  A client owes nothing: it may stay, send nothing and never close,
  and not even the pauses, nor a stream its end, are fairness: they are `LeftAlone`, a
  hypothesis of `ConsoleComesBack`.  Nobody has to send the signal to end.
* tuner_service: its thread runs and its timers expire (`Scheduler`), its peers answer,
  and a client goes on from its answer.  No client has to open a tuner.
* tuner_control: both threads run; every timer expires in the end and stays expired until
  a turn that begins without somebody else's lock (strong, because a turn can begin only
  between two turns: coseq looks at each sleeping fiber in each turn); `on_tune_stop` counts its looks, so it
  does not look for ever; `StopSeen`: select() has a time-out of one second.  First data
  is not fair: a tuner command may never produce any.
* viewing: both threads run, peers answer, timers expire (strong, as above).  A stream
  that is on brings data again and again, and far more often than the automatic stop is
  asked for; the handler gets through it: ffmpeg reads its pipe, or dies and the write
  fails.  psisi_manager looks at the PAT every other second, so a stream without data
  ends in a lost PAT.
* recording: the threads run, other modules answer, the saves of a step are made, time goes
  on, and the process is started again after a crash (the fibers strongly: a request of a user
  or a save only comes in between).  A stream that is on brings data.
* guide: a scan goes on, and whom it held up gets its answer before the next one.
* psisi: the thread runs, timers expire, a stream that delivers repeats its tables.

`CallersNotStuck` is liveness stated as safety: who waits for a run waits for a fiber that
exists and has an answer to come; EventSchedule has no fairness.

## 4. Proofs

All proofs are checked by TLAPS for every value of the constants, under the named
ASSUMEs of the modules and the one hypothesis named below (one external caller).

* **CoseqProofs**: lemmas on sequences (what Append, Tail and concatenation keep, what is
  in a queue at most once, what comes before what) and on the scheduler's actions: what is
  in flight before and after each, stated once and used by the proofs of components.
* **CoseqModuleProofs**: inside a module `TypeCorrect`, `RepliesFindTheirFibers` (PendingIsSound), `LockHolds`
  (LockIsSound).  PendingIsSound is not inductive: a new request could have the id of one whose reply
  is still to come, and its reply be counted for another fiber.  The invariant adds that
  whatever carries an id (an event, an entry of the table, an open request) carries one
  that has been issued (`Numbered`, and the queues' type in `Shape`), that an id is registered
  once, and what a fiber's record says in each of its states (`SteadyAt`): it names a request
  only while it waits for its reply, and a new one has called nothing yet.
  Outside the modules, of the mailbox alone, for one caller, `ReplyIsOwn` and `BlockedIsExpected`
  (`OneCallerGetsItsReply`, `OneCallerIsExpected`).  The inductive invariant ties the mailbox
  to the phase of the only caller: `ext_wait_rid` is its request while it waits and
  nobody's otherwise, a full slot holds that request, and every open request is older
  than `ext_id`.  The console is that caller (`ConsoleGetsItsReply`): its steps are steps of
  the mailbox or leave it alone.  `SessionIsItsText` is `LinesAreObeyed`, for any buffer, tables
  and texts.  It is stated for the moments between two reads; the invariant says it for
  every moment: k lines of what was read have been obeyed one after the other, and what is
  still to be cut (`save`, then `buf`) is what lies behind the k-th delimiter, `Unread(read, k)`.
  A read adds to the rest and changes no line before it (`LongerLine`, `LongerObeyed`,
  `LongerUnread`), a cut takes the next line (`NextLine`), and a rest without a delimiter is what
  must be carried over (`LastLine`).  That a delimiter is two bytes shows
  twice: a CR that ends a read stays in the rest, and no delimiter begins on the last byte
  of another (`EndRanks`).  The rest is shorter than the buffer, which is why `CarryOver`, a
  bounded copy, loses nothing.  Words
  are shown not to depend on the blanks around a line (`Trimmed`), by counting positions: the
  n-th word begins at the same place, moved by what was cut off.
* **TunerServiceProofs**: `StateIsTyped`, `TunersAreExclusive`, `HoldersKeepTheirEntry`, and on top of them
  `TheTableIsTrue` and `ServiceIsAPool`.  ExclusiveUse is
  not inductive: a close in flight frees the entry whoever owns it.  The invariant
  therefore counts *claims* (a client that holds the tuner, or a close for it in inbox,
  batch or deferred) and says that there is at most one; with HolderIsOwner and the typing
  invariant this is inductive, because only `OnOpen` creates a claim, on a cleared entry,
  which by HolderIsOwner nobody holds and for which no close is under way, and `SendClose`
  turns one into the other.
  TableIsTrue rests on the order of the
  queues (`Order`): in what is in flight, a tune_stop that the previous holder sent stands
  before the tune that a retry fiber posts for the next one, because that fiber starts only
  when the lock is free.  The rest of the invariant is the protocol: a client has one
  request, as an event or with the fiber that holds the lock (`OneRequest`), and that fiber
  one question to a peer (`OpProtocol`, `Streaming`).  A
  scan tunes by a direct request (channel_manager.cpp:113), to which this does not apply:
  with three clients and three tuners TLC finds a tune_stop that a third client's lock held
  back, was overtaken by its close, and stops the next scan's tuner.  So the property and
  the theorem are about the clients that are not scans.  The refinement maps an entry to
  its claims: `OnOpen` is Grant, a close that is handled Return or Lose, `SendClose` moves the
  claim from the client to the message, which the pool does not see, and all other steps
  stutter.
* **TunerControlProofs**: `TypeCorrect`, `StaysUsable` (TunerIsUsable) and `StopNotStale`.  The invariant
  (`IInv`) has a part that holds always (`Base`: types, queues, NoStaleStop) and one that
  holds until something has `raced` (`Sound`): each caller's request is in one place at a
  time (an event on its way, an `on_tune_stop` that waits, the `on_tune_start`), which tells
  what its `on_tune` waits for; while a tune_start is on its way the thread has no stream; one
  caller tunes at a time; and the tune request to the thread is in one place too.  There is
  no hypothesis on the console: its commands are a CONSTANT of which nothing is assumed.
* **EventScheduleProofs**: `TypeCorrect`, `RunsLeaveNothing` (LeavesNothing), `StopHolds` (StopNotLost),
  `BusyEnds` (BusyHasEnd) and `CallersGetOn` (CallersNotStuck), for any channels, groups, times
  and numbers of requests.  BusyHasEnd is the one that takes work: the reserve that ends a
  series can be moved, inserted before, dropped as a duplicate or run too early.  The
  invariant says that the list is sorted (`InOrder`), that flags have the shapes a series
  gives them (`Shapes`, `RunShape`), which reserve came from where and that new ones are new
  (`Origin`, `Fresh`), and that what opens a series is closed by something behind it
  (`Brackets`).  The insertion `Sorted` is shown to put a reserve behind all that are not
  later and to move nothing else; the recursive function of `AllAdded` exists and its values
  are characterised by induction over the natural numbers, phrased over sets (a set of
  numbers that has 0 and is closed under + 1 is Nat), since the library's theorem with an
  operator as parameter cannot be instantiated.  The proof corrected the model: at first the
  reserves of all days had the same origin, and then two retries of different days could
  be duplicates of each other and one be dropped with its end; TLC confirmed it on a larger
  instance.  In the program the times of two days differ.
* **RecordingProofs**: `TypesHold`, `TableKept` (TableIsKept), `ReservesAccounted` (Accounted), `TunersAccounted`
  (TunerAccounted) and `RecordingsWhole` (RecordingIsWhole), for any number of slots, results,
  tuners and programmes.  The inductive invariant `IInv` has two halves.  `Base` holds whatever
  happens: types sharp enough to tell which flags a reserve and a recording can have; the
  table and its files (`TableInv`: besides TableIsKept, that a slot not in use has neither a
  time, unless `stale`, nor a period, without which a repeat could be inserted from it; and
  that each content the files have on the way through the saves of a step is such a table,
  since a crash may leave any of them to be loaded);
  Accounted, which needs the table, because only an insertion into a packed one loses
  nothing; and that the check loop and a start have one request each under way (`Control`).
  `Sound` holds as long as the two threads have not raced on rec_progress_, and has three
  parts that need each other.  `Handled`: rec_progress_ is the case that a thread is in, one
  thread at most is in it, and the notice of the end is under way once, exactly when a
  recording is over.  `Owned`: a tuner that is rec_manager's is held by the answer to open, by
  a start or by a recording, and by one of them only, or one close for it is under way.
  `Paired`: every close follows its stop at once, so nothing is closed that still has a
  stream.  check_reserves and refresh_reserves go over the table in a loop; `Checked` and
  `Refreshed` are recursive functions, and what they keep is shown by induction over the
  slots (as in EventScheduleProofs: over the set of those up to which it holds).  Two things
  came out of the proof: TableIsKept did not hold for `moved` alone, since an answer for a
  slot no longer in use makes a gap, which the bounds of the runs did not reach (hence
  `stale`); and Accounted fails with such a gap.
* **ViewingProofs**: `ViewingTypes`, `ViewingHasAll` (ViewingIsWhole) and `EndsOnceWithoutRaces`
  (EndIsClean), for any users and retries.  ViewingIsWhole is not inductive: what keeps a viewing's
  tuner from being closed is that no close is under way when it begins.  `Base` therefore says
  what waits at tuner_service in each place of a start (`Queue`): stops and closes of earlier
  viewings while the start has not asked it for anything, the `open` behind them, which is
  answered when they are done, and then only its own request; that the start has one answer
  under way, or its question (`Waits`); whose the tuner is then (`Holding`); and that
  viewing_manager's thread is in the handler only for a viewing in the table.  Nothing of this
  looks at progress_, which is why it holds whatever races.  `Sound`, as long as nothing has raced:
  one thread at most is in the handler, and progress_ is its case (`Alone`); the notice of an end
  is under way once, for the viewing that is still in the table, and the thread that sends it
  was in the end when it looked (`Announcing`); and between the end of a viewing and the stop of
  its stream the tune thread can only be leaving, with the stop first in tuner_service's queue
  (`GoneBack`), so that the next start finds the handler idle.
* **PsisiProofs**: `TypeCorrect` and `ReadyMeansCurrent` (ReadyIsCurrent), for any channels and number
  of tunes.  The invariant looks back to the clear (`Cleared`): since the fiber of the last
  tune has cleared the tables no other fiber is before its clear, because all wait equally
  long; so whatever is listed is of this channel and recognised, a flag tells only of what
  is listed, and what is listed is cached (`Held`, `Cached`).

What is only model-checked: liveness, which TLAPS cannot reach (`ConsoleComesBack`, `TuneIsAnswered`,
`ServiceIsAnswered`, `EndsAndAnswers`, `ReservesEnd`, `SearchRenews`, `AddIsAnswered`, `GetsReady`,
`LossIsAnnounced`); what the parsers, the conversions and the data path compute (`DataIsWhole`,
`InfosAreCurrent`, `ValuesAreRead`, `PacketsGetThrough`, `SectionsAreRead`), some of them written
with RECURSIVE operators or bitwise ones; and the invariants of Guide and
SectionParser, for which no proof has been written.

## 5. What is left

1. Proofs of `PoolIsSound` of SectionParser and `RunHasItsName` of Guide.
2. Recording on two tuners, viewing with three requests, at bounds that still finish.

### Not modelled, and why

* What console commands print, and the HTTP routes: text in and out; what they call is an
  input of the modules above.
* modules, settings and main's start-up: a fixed order.  The shutdown is in Console: the
  console, the HTTP server's requests, a tune thread that streams.
* The running status table, which nothing uses, dsmcc, which only the test tool uses, dumps,
  logging, the ARIB character set, file formats (cereal), and third-party code.
* A damaged byte inside a packet (the CRC covers it), and sections in the short format.
* A header that is split across packets is modelled in SectionParser, where it ends the
  process; no property is about it, because the code has no behaviour to promise there.
