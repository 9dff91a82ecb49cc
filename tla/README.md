# A TLA+ development of Network_enricher

Network_enricher reads network flows from a Kafka topic, drops repetitions,
tags each flow with geography, tenant, threat, device, user and host name, and
writes it to ClickHouse.  This directory holds TLA+ modules translated from its
Go source, the TLC configurations that check them on small instances, and
theorems about them checked by TLAPS for every value of the constants.

1. Inventory - 2. Modules and their code - 3. Runs - 4. Bounds - 5. Fairness -
6. Where code and comments disagree - 7. Proofs - 8. Only model-checked -
9. Not modelled - 10. Plan

## 1. Inventory

| part | source | state | operations | hard behaviour |
|---|---|---|---|---|
| ingest and worker pool | `main.go` | offsets of the consumer group, `rawChan`, wait groups | read, commit, hand over, unmarshal, drop, enrich, write; signal and shutdown | several readers and workers, asynchronous commit, close of a shared channel, crash |
| deduplication | `dedup.go` | 16 expiring LRU sets of flow keys | `IsDuplicate` = Get, then Add | two critical sections for one decision; key recorded before the flow is stored |
| flow writer | `batchwriter.go` | `buffer`, `retryAfter` under one mutex, two counters | `Add`, `flush`, `drain(force)`, `FinalDrain`, flush timer | drains overlap freely, a failure at any chunk, back-off, cap, shutdown |
| identity store | `identity.go` | `ipState`, `macState` with tombstones and deadlines | `Lookup`, `applyDHCP`, `applyRADIUS`, `evictExpired`, `scan` | events out of order, replay after a restart, equal time stamps, eviction |
| DNS store | `dnsstore.go` | `entries` with deadlines, hard entry cap | `Lookup`, `applyDNS`, `selectEvictions`, `evictExpired`, `scan` | selection under a read lock, deletion later under the write lock; ties |
| event writers | `identity.go`, `dnsstore.go` | buffers of events | `add`, `flush`, `FinalFlush`, `capTail` | main's last flush races the poller's last scan |
| file poller | `filepoller.go` | offset per file | `scanAppendedDir`, `readAppendedFile` | partial lines, rotation, truncation, bounded reads, panics in a handler |
| parsers | `npslog.go`, `dhcplog.go`, `dnslog.go`, `tcpdumplog.go`, `dnstaplog.go` | pending header or block (the last two) | one line at a time | state kept across lines, scans and truncations |
| forensic trace | `cmd/trace` | the candidates of one run | three queries, `dhcpBindingAt`, `radiusBindingAt` over what they return | answer independent of row order, ambiguity, evidence cut off by the window, tables that grow meanwhile |
| reference data | `geoip.go`, `tenant.go`, `threat.go` | tables behind an RWMutex | `Lookup`, `Refresh`/`load`/`refresh` | swap and close under readers, reloads that fail half-way or read rubbish |
| others | `pseudonym.go`, `identity_config.go`, `logtz.go`, `metrics.go`, `logging.go`, `cmd/dnsscan`, `cmd/loadgen`, SQL | none | start-up and I/O | none that a model would reach |

**Interaction.**  Reader goroutines block on `rawChan`; workers take from it,
consult the dedup store, call `Lookup` on the four stores and call
`BatchWriter.Add`.  The flush timer calls `flush` once per `maxAge`.  Two poller
goroutines tail log directories, fold events into the identity and DNS stores
and append them to the event writers.  On a signal the readers return, main
closes `rawChan`, waits for the workers, runs `FinalDrain` and then the two
`FinalFlush`.  Neither the timer nor the pollers are waited for.

**What makes each part correct.**

* Flow writer: a row is in one place at a time; a row is given up only as the
  last resort; each loss is counted once; rows settle when ClickHouse is back;
  the shutdown ends and forgets no row of a worker.
* Ingest and dedup: nothing is sent on the closed channel; a dropped flow always
  repeats an earlier one; a graceful stop leaves no committed flow unprocessed;
  a crash loses committed flows only while they are unsettled.
* Identity and DNS stores: the live answer never comes from an older event than
  one already applied; a closed lease does not come back; the answer does not
  depend on the order of arrival; the cap holds; a selection of victims is still
  valid when it is carried out.
* Event writers and poller: each complete line is handled once, in order; the
  last flush leaves nothing behind.
* Parsers: an event carries the time, the client and the addresses of its own
  packet or block, never those of a neighbour, another day or another file.
* Trace: one answer per set of events, whatever their order, and the one the
  whole evidence gives, though only a window of it is read; ambiguity is
  reported, never resolved silently; the live store says the same but for
  events of one second.
* Reference data: nobody reads a closed database, no database stays open for
  nothing, every look-up returns, and tables follow their sources again after
  any failure.

## 2. Modules and their code

A module has one action per critical section or per blocking call of the code,
since other goroutines run between two of those and not within one.  A
definition marked "faulty" is a wrong variant of the one after it: it is used by
no specification, and replacing the right one with it violates a property.

| module | what it is |
|---|---|
| `FlowSink` | what a life of the process expects of the flow writer: a row is pending, then stored or dropped, once |
| `BatchWriter` | `batchwriter.go` with the goroutines that drive it; refines `FlowSink` |
| `Ingest` | `main.go` and `dedup.go`; uses `FlowSink` in place of the writer |
| `IdentityStore` | the live maps of `identity.go` |
| `DNSStore` | the live map of `dnsstore.go` |
| `FilePoller` | the tailing of log files in `filepoller.go`, and the programs that write them |
| `LogFeed` | `FilePoller` with the event writers of `identity.go` and `dnsstore.go` and the part of `main` that flushes them last |
| `TcpdumpParser` | the stateful parser of `tcpdumplog.go`, between midnights, jitter and rotations |
| `DnstapParser` | the stateful parser of `dnstaplog.go`, between documents, sections and copies |
| `Trace` | the who mode of `cmd/trace`: three queries over growing tables and the two folds |
| `TraceAndLive` | `Trace` beside `IdentityStore`, told the same events |
| `Enrichment` | the reloading of `geoip.go`, `tenant.go` and `threat.go` under the workers' look-ups |
| `BatchWriterProofs`, `IngestProofs`, `DNSStoreProofs`, `TcpdumpParserProofs`, `DnstapParserProofs`, `TraceProofs`, `EnrichmentProofs` | the theorems about the module of that name, in `TraceProofs` about `TraceAndLive` too |
| `IdentityProofs` | the theorems about `IdentityStore`, `FilePoller` and `LogFeed`: the view of `identity.go`, and the logs that feed it |
| `MC...` | values of the constants for TLC |

`Ingest` and `BatchWriter` compose through `FlowSink`: the first may do to
`status` only what `FlowSink` allows (`WritesOnce`), the second is shown to
implement it (`ImplementsSink`), so neither has to carry the other's state.
`LogFeed` extends `FilePoller`: each of its poller actions is one of that module
with what the writer does in the same step.  `TraceAndLive` takes the operators
of `IdentityStore` (`Opened`, `Ended`, `Lookup`) with its own state and clock, so
the comparison is with the very definitions the run `identity` checks.

### BatchWriter

| in the model | in `batchwriter.go` and `main.go` |
|---|---|
| `buffer`, `backoff` | `w.buffer`; `time.Now().Before(w.retryAfter)` |
| `pc[t]`, `batch[t]` | where a goroutine is in `Add`, `drain` or `FinalDrain`; its local `rows[i:]` |
| `attempt`, `lost` | the loop variable and the result of `FinalDrain` |
| `rowsWritten`, `rowsDropped` | `chRowsWritten`, `chRowsDropped` |
| `accepted`, `acked`, `dropped` | history: the rows passed to `Add`, acknowledged, given up |
| `reachable`, `outages`, `cancelled` | ClickHouse answers; the context |
| `Add` | `Add` up to its unlock; the flush that follows is a `Drain` of the worker |
| `SkipDrain`, `TakeBuffer` | the first critical section of `drain` |
| `SendOk`, `PrepareFails`, `SendFails` | one round of the chunk loop, `sendToClickHouse` included |
| `Requeue` | the critical section after a failure, with the trim to `maxBuffer` |
| `WorkerExit`, `TimerExit` | a worker's range ends; the timer's select takes `ctx.Done()` |
| `StartFinalDrain`, `FinalDrainRetries`, `FinalDrainReturns`, `Exit` | `wg.Wait()`, the loop of `FinalDrain`, the end of `main` |

Rows are numbered in the order of `Add`, so age is a comparison of numbers.
Which rows `batch.Append` takes is any sequence that satisfies `IsAppended`.

### Ingest

| in the model | in `main.go` and `dedup.go` |
|---|---|
| `position`, `committed` | what `ReadMessage` has returned; the group's offset in Kafka |
| `readerPc`, `workerPc`, `hand` | where each goroutine is; the message a worker holds |
| `channel`, `closed` | `rawChan` |
| `seen`, `forgotten`, `duplicates` | the keys in the 16 LRU shards; history of evictions and of drops |
| `mainPc`, `cancelled` | `readerWg.Wait`, `wg.Wait`, `FinalDrain`; the context |
| `life`, `crashes`, `before`, `status` | which process this is; what earlier ones finished; the writer |
| `Read`, `ReadFails`, `Send`, `StopReading`, `Commit` | the reader's loop, an error it retries, its blocking send, its return; the commit interval |
| `Receive` | receive and unmarshal, with the early `continue` |
| `DropDuplicate`, `FirstSight`, `RecordKey` | `IsDuplicate`: `Get`, then `Add`, two critical sections of the LRU |
| `Write` | `batchWriter.Add` |
| `Forget` | an LRU eviction or a TTL |
| `CloseChannel`, `StartFinalDrain`, `Exit` | the end of `main` |
| `Crash`, `Restart` | the process dies at any point; a new one starts at the committed offsets |

### IdentityStore

`ipState` and `macState` obey the same rules and are one function from keys to
bindings.  `Open` and `Close` are `applyDHCP` and `applyRADIUS` with the lock
held; `TooLate` and `Ends` are their comparisons; `Swept` is `evictExpired`'s.
`Lookup` is an operator on the state.  `newest` and `shut` are history: what was
obeyed, and which closings are in effect.  The poller may apply any event at any
time and again: that covers every order in which log files are read, truncation
and replay.

### DNSStore

`applyDNS` is four actions, one per critical section: `Ingest` (room?),
`Select` (`selectEvictions` under the read lock), `Delete` and `Put`.  The clock
moves between them; nothing else writes, and that nothing else does is proved to
be what the deletion relies on.  `selectEvictions` is described by its result,
`Selection`: for any order of Go's map iteration the bounded heap ends up with as
many fresh entries of earliest deadline (`EarliestOf`), in an array that is a
max-heap (`IsHeap`), and the victims are the expired entries and a prefix of that
array.  `cut` is the clock `Select` read; `greatest` is history.

### FilePoller

| in the model | in `filepoller.go` |
|---|---|
| `content`, `last`, `rotations` | the log files, and how far their writers have come |
| `offsets` | the map `offsets` |
| `at`, `file`, `off`, `todo` | where the poller is in `scanAppendedDir` and `readAppendedFile`; the local offset; the data read and not handled yet |
| `since`, `handled`, `torn`, `abandoned`, `missed` | history: which incarnation the offset is about, the lines handed over, those handed over in part, those lost to a panic, whether a rotation went unnoticed |
| `WritePiece`, `Rotate` | the log program (external) |
| `StartScan`, `Stat`, `Read`, `SkipFile` | the loop over the files; the size test; seek, bounded read, cut at the last newline, offset stored; a file operation fails |
| `HandleLine`, `PanicInLine` | the loop over the lines; the handler panics and `scan` recovers |
| `EndScan`, `StopPolling` | the rest of `scan`; `ctx.Done()` |

Sizes count pieces of lines, not bytes: what matters is whether a read or a
rotation falls inside a line.  The file may change between `Stat` and `Read`.

### LogFeed

| in the model | in `identity.go`, `dnsstore.go`, `main.go` |
|---|---|
| `buffers` | `w.dhcp` and `w.radius`, or the buffer of `chDNSWriter` |
| `stored`, `shed` | history: the events inserted, and those `capTail` dropped |
| `main`, `attempt` | where `main` is in `FinalFlush`, and its loop variable |
| `Flush`, in `FlushAfterScan` and `FinalFlush` | `flush`, which keeps the mutex over its inserts: one step |
| `Handle` | `HandleLine`, then `add` |
| `FinalFlushReturns`, `FinalFlushRetries` | the test under the lock after each attempt |

With two kinds the module is the identity store's writer, with one the DNS
store's.

### TcpdumpParser

| in the model | in `tcpdumplog.go` and `dnsstore.go` |
|---|---|
| `baseDate`, `havePrev`, `prevTOD`, `pending`, `pendingTime` | the fields of the parser |
| `out` | what `feed` returned for the last line |
| `stamp`, `newest`, `header`, `asker`, `excuses` | history: the packet whose lines are being read, the latest one, the last header read, who asked, and what came that the text does not show |
| `Header`, `Payload`, `Banner` | the three branches of `feed`: a line with a time of day, an indented line, any other line |
| `ParsePayload` | `parsePayload` with the query and reply parsers it calls; an answer with addresses is `tags` |
| `LoseLines` | a panic in a handler, recovered by `scan`: the poller goes on later in the file |
| `Rotate` | `onTruncate` discards the parser and `ingestDNS` makes a new one from the same `baseDate` |

A time is a pair of a day and the time since that day's midnight.  `TOD` is what
tcpdump prints of it: the same, until the zone puts its clocks forward or back
that day, and off by that change from then to midnight.  `Add` is
`p.baseDate.Add(tod)`, which counts from midnight and knows of no change.  The
clock of tcpdump is taken to be in the zone the parser is told
(`DNS_LOG_TZ`, `LOG_TZ`).  The lines come in the order and
with the gaps that `FilePoller` allows.  A packet of another protocol, an ICMP
header with an embedded message and a second indented line are all covered: a
header may be of no UDP packet, and any packet's indented line may come at any
time.

### DnstapParser

| in the model | in `dnstaplog.go` and `dnsstore.go` |
|---|---|
| `inBlock`, `inLiteral`, `kind`, `section`, `eventTime`, `clientIP`, `qname`, `answers` | the fields of the parser; a value is the number of the document it was read from |
| `out` | what `feed` returned for the last line |
| `doc`, `text`, `pos`, `heard`, `lost` | the stream and history: the document being read, its lines, how many were read; whether this parser saw its `type:`, and whether lines are missing |
| `FeedType`, `FeedEnd` | `feed` on a `type:` of the first column, and on `---` |
| `FeedLine` with `Label`, `Item`, `Field` | `feed` on any other line: of the first column, a list item, anything else indented |
| `Flushed`, `Cleared` | `flush`; `begin` and `reset` |
| `LoseLines`, `Rotate` | a panic, or a rotation the poller did not notice: the parser goes on further down; a noticed rotation: a new parser |

The stream is cut into documents by its own markers; `dnstap-read` may die inside
one, so that a `type:` comes where a `---` was due.  `Meaning` is the reference
definition: what the first lines of a document say, as quantifiers over lines and
without the parser's state.  The lines of the dig copy are class `other`, but
`Texts` may put any line after a literal header, and `Meaning` skips it.

### Trace

| in the model | in `cmd/trace` |
|---|---|
| `resolutions`, `leases`, `sessions` | `dns_events`, `identity_dhcp_events`, `identity_radius_events`, read with `FINAL`: sets |
| `pc`, `report` | where `runWho` is; `cands`, without the counts |
| `fetched`, `todo`, `subject` | the slice `dhcp` or `rad`; the loop over the candidates |
| `f`, `i`, `cands`, `deadline` | the local variables of the fold |
| `StoreResolution`, `StoreLease`, `StoreSession` | the enricher's inserts |
| `QueryResolutions`, `QueryLeases`, `QuerySessions`, `QueryFails` | the three queries with the loops over their rows; their error paths |
| `BeginFold` with `Relevant`, `Sorted` | the filter and the stable sort, which leaves rows of one second in any order |
| `FoldBatch` with `IsBatch`, `Opens`, `Closes`, `NewDeadline` | one round of the outer loop |
| `EndFold` with `Verdict` | the switch at the end, and what the caller does with it |

One set of actions is both folds: a lease is opened and closed under its MAC
token, which is also what it names; a session is closed under its ID and names
the user.  A row counts if it is stored when its table is queried; rows stored
later are of no consequence, so each table fills up just before its query.

The reference definition knows no batches, deadline or window: `Holders` of the
whole evidence are what was opened last and not closed in that second or after
it, `Covered` asks for an opening within the horizon, `Reading` for one holder.

### Enrichment

| in the model | in `geoip.go`, `tenant.go`, `threat.go`, `main.go` |
|---|---|
| `content` | what a file or the feed holds: a release, `Broken` (loading fails) or `Odd` (loads, and is no release) |
| `present`, `table`, `installed` | which stores `main` has; `s.ranger` and `s.ips`; `g.cityDB` and `g.asnDB` |
| `open`, `release`, `mine` | the mapped files, what each was read from, and the pair local to `Refresh` |
| `pc["geo"]`, `readers` | where `Refresh` is; who is inside `g.mu.RLock` |
| `LoadTenants`, `RefreshThreats` | `load` and `refresh` at a tick: built aside and swapped in |
| `OpenCity`, `OpenASN`, `Swap`, `CloseOld` | the four stages of `Refresh` |
| `StartLookup`, `RLock`, `ReadASN`, `RUnlock` | `Lookup` of the geo store, as `enrich` calls it |
| `Cancel`, `Stopped` | the signal; the process ends |

The tenant and threat tables are values in memory: a look-up under `RLock` reads
one of them, whichever, and nothing is closed.  A geo database is a mapped file,
and closing it under a reader is the danger; its lock is modelled with Go's rule
that a waiting writer keeps later readers out.  Files are taken to be replaced,
not overwritten while mapped.

## 3. Runs

| run | question | properties |
|---|---|---|
| `batchwriter` | do overlapping drains, an outage, the cap, a malformed row and a shutdown ever misplace, double or silently lose a row; does everything settle and end | `ExactlyOnePlace` `DropCounterExact` `HealthyBufferBound` `OnlyTimerOutlivesWait` `LossIsLastResort` `ImplementsSink` `RowsSettle` `ShutdownCompletes` `FinalDrainForces` |
| `ingest` | two readers, two workers, two lives, with signals, crashes and commits at any point: what may be lost, what may be dropped | `NoSendAfterClose` `NoMessageForgotten` `DuplicatesAreCovered` `ShutdownDrains` `WritesOnce` |
| `ingest_live` | more flows of one 7-tuple than workers: how many pass the dedup race; does every message get through, does a signal end the process with the channel full | `RaceIsBounded` `ShutdownCompletes` `AllProcessed` |
| `identity` | leases and sessions in any order, repeated, expiring, swept, restarted: does the view fall back | `NewestWins` `ClosedStaysClosed` `HandoverConverges` |
| `dns` | five keys for a map of four: does the cap hold, who is shed, which name wins | `CapHolds` `LookupIsGreatest` `VictimsStay` `ShedsAmongOldest` |
| `log_feed` | partial lines, bounded reads, a rotation, a panic, an outage, an event ClickHouse refuses, and the last flush against the last scan: which lines and events are skipped, doubled, torn, stuck or lost | `FeedTypeOK` `HandledInOrder` `NoLineSkipped` `EventsInOnePlace` `ShedIsBackstop` `LinesRead` `EventsSettle` |
| `tcpdump` | packets over three days, on two of which the clocks change, late by up to the jitter, banners, lost lines, a rotation: does an event carry its own packet's time and date, and the host that asked | `StampIsTrue` `ClientAsked` |
| `dnstap` | three documents, closed or cut short anywhere, with lines lost and the file rotated: are a document's events those its own lines mean | `EventsAreMeant` |
| `trace` | any leases, sessions and resolutions, rows of a second in every order, a window that cuts the evidence: is the report what the evidence says, and what the live store would have said | `BindingsAreEvidence` `LiveStoreAgrees` |
| `enrichment` | two workers look up while sources change, break and are loaded again, and the process stops: are databases closed once and never under a reader, does every look-up return, do tables catch up | `NoUseAfterClose` `NothingLeaks` `LookupsReturn` `TablesCatchUp` |
| `loss_is_reported`, `oldest_go_first` | see section 6; each is expected to be violated | one each |

The type invariant of each module is a theorem (section 7); only that of
`LogFeed` is also an invariant of a run.

Deadlock is checked in every run: `Terminated` and `Ended` are the only places
where a system may stop, and both are explicit.  `StampIsTrue` excuses four
things the parser cannot know: a packet printed after one of the next day, half a
day of silence around a midnight, a first packet of another day than the anchor,
and lines lost; section 6 says what the first and the third do.  A packet that
comes after a change of the clocks on the same day is no excuse but a case of its
own: its event is off by that change, exactly, and the next day's are right.
`EventsAreMeant` excuses one: lines lost since the last marker.
`LiveStoreAgrees` excuses two events of one second, the case `identity_join.go:37`
names.  `TablesCatchUp` asks that the sources are releases for good in the end.

## 4. Bounds

* `batchwriter`: two workers, the timer and main, so up to four drains overlap.
  Four rows with `MaxSize` 2 and `MaxBuffer` 3 give drains of two chunks, a
  chunk that is not full, and a re-queue that overflows by one; row 2 is
  malformed, so a chunk can hold a good and a bad row, fail, and be retried.
  One outage, that may begin and end anywhere, and two final attempts.  `loss_is_reported` has
  five rows and two outages.
* `ingest`: `ChanCap` 1, so that readers block; three messages of two keys on
  two partitions, one key on both, so that two workers can hold the same key;
  two lives, so that one can crash or stop and the next starts over.  `ingest_live`:
  four messages, three of one key for two workers and one that is no flow; one
  life, as liveness is about one process.  Symmetry of workers is used only in
  the run without liveness.
* `identity`: one address, two devices on it; on one device two sessions.  Three
  event times give before, same second and after, twice over; leases of up to 2,
  sessions of 1 and a clock that goes to 6, so that everything can expire and be
  swept with events still coming.
* `dns`: `MaxSize` 4 and `Fraction` 2 (the code's 16) shed two entries, the
  smallest number for which the root of the heap differs from its other element.
  Five keys reach the cap.  TTLs 0 and 3 lie below the floor and above the cap.
  Keys are symmetric; the run has safety properties only.
* `log_feed`: one file with lines of one, two and one pieces and a read of at
  most two, so that a read ends inside a line and inside a file; it is rotated
  once, before or after the poller has looked, and the new content may be
  shorter than the offset or not.  A second file for the other kind of event.
  One line that gives no event, one event that is refused, a buffer of one, so
  that the next event forces something out; one outage, one file operation that
  fails, any number of panics, two final attempts.
* `tcpdump`: a day of four units, so that half a day is more than the jitter of
  one; three days, so that two midnights pass and the date can be a day ahead at
  the second; one rotation on any of them.  The clocks go back by a unit on the
  first day and forward on the second, at its middle, so that an hour comes twice,
  an hour is left out, both nights begin off by the change, and the third day is
  as any other.  Seven kinds of packets: questions and
  answers of a client, the resolver's own, both ports 53, a truncated question,
  an answer without addresses, and UDP that is no DNS.
* `dnstap`: three documents, so that what the first leaves could show in the
  second or, past a cut one, in the third.  Five shapes: a question; a response
  with an alias, two addresses, an address of another section and a copy; one
  without answers; an upstream leg; one whose time cannot be read.

* `trace`: five rows are the smallest number for a resolution, a lease and a
  session with one more event for each of the last two: replaced, closed, closed
  in the same second, renewed, or opened twice in one second.  Two devices share
  an address and one of them has a second one; one session has two users, and the
  device a second session.  Horizons of one second and a window of two begin
  after the first second, so that rows are cut off on both sides and every
  deadline passes within the window.
* `enrichment`: two workers, so that one waits while the other reads; two
  changes, so that a source can break and be repaired, or both databases be
  replaced.  Any subset of the stores is there.

## 5. Fairness

* Every goroutine that can go on does (`WF`): Go's scheduler.  A blocked send on
  `rawChan` gets its turn (`SF` on `Send`): the runtime queues blocked senders
  first in, first out.
* Every call of the ClickHouse driver returns, with success or failure.  The code
  passes `context.Background()` without a deadline, so this is an assumption on
  the driver's read timeout; a call that never returned would stall the shutdown.
* The back-off window passes and the ticker ticks: real time.
* The log poller and `main` go on (`WF` on their steps): a tick comes, a file
  operation returns, and an insert ends by its timeout (`eventWriteTimeout`).  A
  panic or a failed file operation is such a step too.
* The refreshers of the reference data go on (`WF`): tickers tick, opening a file
  returns, and so does a download, within its 30 seconds.  A look-up inside the
  lock goes on (`WF`), and one that waits for the lock gets it (`SF`): Go's
  `Unlock` lets the waiting readers in before the next writer.  Workers need not
  begin a look-up, and sources need not change.
* `IdentityStore`, `DNSStore`, `TcpdumpParser`, `DnstapParser` and `Trace` have no
  liveness property and no fairness.
* No fairness on log programs, signals, crashes, restarts, commits, events, arrival of rows, or
  ClickHouse.  `RowsSettle` asks of ClickHouse only that it stays up in the end.

## 6. Where code and comments disagree

| run | what the code does | what is said of it |
|---|---|---|
| `loss_is_reported` | `FinalDrain` counts the buffer; the rows of a timer drain still in flight are lost and not counted | "returns the number of rows still buffered - unavoidably lost" (`batchwriter.go:427`) |
| `oldest_go_first` | when expired entries free some of the slots, the top-up begins at the root of the max-heap, the latest deadline kept | "the oldest (earliest-deadline) non-expired entries" (`dnsstore.go:235`) |

`OnlyTimerOutlivesWait` and `ShedsAmongOldest` say what does hold next to each
of these.

The times of `tcpdumplog.go` go wrong in three ways, which `StampIsTrue` names.
The date advances at each fall of the time of day by more than half a day and
never goes back: with 23:59:59, 00:00:00, 23:59:59 printed late and 00:00:01 it
advances twice, and stays a day ahead, where `tcpdumplog.go:107` says that "seconds
to minutes of backward jitter - never corrupt baseDate".  And the parser made
after a rotation starts from the date captured when the process began, so on a
later day all its events are dated back, where `tcpdumplog.go:31` says "baseDate is
midnight (in loc) of the day the next packet belongs to".  And an event is stamped
with midnight plus its time of day (`tcpdumplog.go:126`), as an elapsed time: in a
zone that changes its clocks, every event between the change and the next midnight
is an hour late in spring and early in autumn, and in spring the last hour of the
day falls on the next one.  `logtz.go:27-29` expects "up to a one-hour skew for
timestamps inside the fold" only, which is true of the parsers that hand the whole
date to `time.ParseInLocation`; `Asia/Bangkok`, the zone of the deployment, has no
such change.

The trace evaluates a binding once for each client and name, at `last_seen`
(`cmd/trace/main.go:573`), where `main.go:21` speaks of "each binding as-of the
resolution time" and `README.md:427` of "each event's timestamp": an address that
changed hands within the window is attributed to its later holder for all the
resolutions counted.  `README.md:425` also calls the fold "a behaviorally-identical
re-expression" of the live store, while `identity_join.go:9-11` says that it
"deliberately DIVERGES"; `LiveStoreAgrees` is how far they agree.

Four more follow from the modules and have no run of their own.  `Add` never
looks at `maxBuffer`, so between two failed drains the buffer exceeds the "hard
cap" of `batchwriter.go:124`.  Overlapping drains re-queue in any order, so the
trim may drop rows younger than some it keeps, where `batchwriter.go:413` speaks of
dropping the oldest; `LossIsLastResort` says when rows are dropped and not which.
A release read before its older assign leaves no tombstone, and the assign then
opens a released lease: `identity.go:136` says that "applying files out of order
can't roll state backward", while `identity_test.go:422` pins the behaviour;
`NewestWins` is about events that were obeyed.
And nothing waits for the pollers: a scan still running when `FinalFlush` has
counted adds events that are lost at the exit and not reported, where `main.go:539`
takes the poller to have stopped (unless the file is rotated away they are read
again after a restart, which starts at offset 0).

## 7. Proofs

TLAPS checks every step.  The assumptions are the named `ASSUME`s of the modules
(goroutines distinct, sets of goroutines and keys finite, sizes positive,
`MaxBuffer >= MaxSize`, placeholder values outside their sets, addresses and
device tokens apart, one kind line in a dnstap document, clocks changed at most
once a day, not at midnight, and by less than half a day with the jitter), which TLC evaluates on
every run.  `DrainForces` has a hypothesis of its own, `Attempts > 1`: `main.go:533`
asks for five rounds, and with one the timer's late re-queue could come after the
only drain and before the test.

| theorem | states, for every value of the constants |
|---|---|
| `BatchWriterProofs!TypeCorrect` | `TypeOK` |
| `RowsConserved` | `ExactlyOnePlace` |
| `DropsCountedOnce` | `DropCounterExact` |
| `NoLossBelowCap` | `LossIsLastResort` |
| `HealthyBufferIsSmall` | `HealthyBufferBound` |
| `OnlyTimerIsUnwaited` | `OnlyTimerOutlivesWait` |
| `DrainForces` | `FinalDrainForces`, for `Attempts > 1` |
| `WriterImplementsSink` | `BatchWriter` implements `FlowSink` |
| `IngestProofs!TypeCorrect`, `NoSendOnClosed`, `GracefulDrain`, `NothingForgotten` | `TypeOK`, `NoSendAfterClose`, `ShutdownDrains`, `NoMessageForgotten` |
| `EachWrittenOnce`, `DropsAreRepetitions`, `PassesAreBounded` | `WritesOnce`, `DuplicatesAreCovered`, `RaceIsBounded` |
| `IdentityProofs!TypeCorrect`, `NewestEventWins`, `NoResurrection`, `HandoverEitherOrder` | `TypeOK`, `NewestWins`, `ClosedStaysClosed`, `HandoverConverges` of `IdentityStore` |
| `FeedTypeCorrect`, `LinesAreHandledInOrder`, `OffsetSkipsNoLine` | `FeedTypeOK`, `HandledInOrder`, `NoLineSkipped` |
| `EventsStayInOnePlace`, `DroppingIsBackstop` | `EventsInOnePlace`, `ShedIsBackstop` |
| `DNSStoreProofs!TypeCorrect`, `CapIsHard`, `SoleMutator`, `NameIsOrderIndependent`, `FewAndOldAreShed` | `TypeOK`, `CapHolds`, `VictimsStay`, `LookupIsGreatest`, `ShedsAmongOldest` |
| `TcpdumpParserProofs!TypeCorrect`, `StampsAreTrue`, `EventsAreOfAskers` | `TypeOK`, `StampIsTrue`, `ClientAsked` |
| `DnstapParserProofs!TypeCorrect`, `DocumentsAreUnderstood` | `TypeOK`, `EventsAreMeant` |
| `TraceProofs!TypeCorrect`, `ReportIsEvidence`, `TraceAgreesWithLive` | `TypeOK`, `BindingsAreEvidence`, `LiveStoreAgrees` |
| `EnrichmentProofs!TypeCorrect`, `ReadersAreSafe`, `EveryPairIsClosed` | `TypeOK`, `NoUseAfterClose`, `NothingLeaks` |

**Why the invariants are what they are.**

* `Places == TypeOK /\ HandsEmpty /\ ExactlyOnePlace`.  `TakeBuffer` overwrites
  `batch[t]`; conservation therefore needs that a thread outside a drain holds
  nothing.  Every step then is a move of rows between the buffer, one thread's
  hands and the two final places (`MoveKeepsPlaces`), or changes none of them.
  The counter, the refinement and the shutdown follow from it.
* `Healthy`: until the first outage, rows above `MaxSize - 1` are each owed to a
  worker that stands before its flush; the bound of `HealthyBufferBound` alone
  is not inductive.
* `Forcing`, from the first round of `FinalDrain` for as long as ClickHouse answers:
  nothing enters `requeue` any more, so rows come back to the buffer at most once,
  from the timer, and in the first round only.  If that is before the test of the
  round, the test sees them and there is another round; otherwise the buffer was
  empty at the test.  The temporal step is propositional: `Forcing` holds at the
  start and each step taken with ClickHouse up keeps it.
* `InOrder`: closed only after the readers, a worker done only when the channel
  is closed and empty.  `Kept` adds `NoMessageForgotten` and that a crash has
  been counted; `Restart` is the difficult step, since memory is lost and the
  position moves back to the committed offset.
* `Once`: in one life a message is ahead of its reader, or in the channel once, or
  in one hand, or finished, and those not finished are untouched; so a worker that
  writes has a `new` message (`EachWrittenOnce`).  `KeysAreBacked`: a key in the
  dedup store, and that of each message dropped as a repetition, has a row at the
  writer or in the hand of a worker about to give it one.  `Races`: until a key is
  in the store no row of it was handed over, so those that will pass are workers
  between `Get` and the hand-over, one message each; once it is there nobody joins
  them.  The bound counts both, `Passed` and `Recording`.
* `Guarded`: the store keeps one binding per key, and eviction removes
  tombstones.  `Backed` says the binding is no older than everything obeyed, or
  the deadlines of all of that have passed, so that an older event that comes
  now is expired on arrival; `TombstoneKept` says that a closing of the very
  second of the binding is that binding's own tombstone, or is past too.
* `Room`: the vacancy promised by the first critical section of `applyDNS` still
  exists in the last one, as victims are non-empty and present until deleted.
  `Newest`: each entry is the greatest of the events of its key.  `Sheds`:
  `ShedsAmongOldest` is about a selection made earlier, and is kept since no
  entry changes between the selection (`SelectSheds`) and the deletion.
* `PollInv` orders each file: the lines handled, then those in hand, then the line
  ends beyond the offset; `FileInOrder` says it for what the offset has not
  passed, counting the offset only if the file has not been rotated since it was
  stored (`Checked`), and `ReadsFromOffset` that between `Stat` and `Read` nothing
  but a rotation makes the offset wrong.  `NoLineSkipped` without that order is not
  inductive, since `Read` hands over a part that ends in the last newline.
* `FeedInv`: the lines of one file stand in a buffer in the order of the file, at
  most once, and none of them is ahead of the poller; so a flush or a shed takes
  them from the front and an event is in one place.
* `Aligned`: without an excuse the parser's date and time are those of the last
  header; `Paired`: a pending time is that header's and the lines being read are
  of its packet.  The step is the lemma `RollsAtMidnight`: for a jitter and a change
  of the clocks that together are no more than half a day, the time of day falls by
  more than half a day exactly when the day turned.  `StampIsTrue` alone says nothing of the date between two events.
* `Understood`: unless lines were lost, the parser's fields are what the lines
  read so far mean (`Matches`): a field is set when one of them says so outside a
  literal, `section` is the header whose list is open, `answers` has as many
  members as lines under an answer header, all of this document.  `EventsAreMeant`
  speaks of the last line only and is not inductive.  One lemma per part says how
  the reference definition changes by one line (`SkippedNext`, `SaysNext`,
  `OpenNext`, `NamedNext`, `AnsweredNext`).

* `FoldInv`: after `i - 1` rows the candidates are the `Holders` of those rows and
  the deadline is that of their last opening (`FoldBatchInv` is the step of one
  batch); `EndFoldInv` turns that into the verdict.  `WindowIsEnough` is the other
  half: the window's rows give the `Reading` of all the rows, as an opening older
  than the widened start covers nothing at `last_seen`.  The report of an earlier candidate stays right because
  the tables it was read from no longer grow.
* `Leaves(R, b)`, for the live store told the events `R` one second at a time: `b` is
  absent without an opening, else of the entity opened last, and closed if a
  closing of it is later (`AppliedLeaves` is one event).  `AnswerIsReading` turns it
  into the `Reading` that `ReportIsEvidence` gives of the trace.  The sorted events
  and the recursive function that folds them are shown to exist (`SortedExists`,
  `FoldExists`).
* `GeoInv`, `ReaderInv` and `NothingLeaks`, together inductive: whoever reads is in
  `readers` and reads the installed pair; `Refresh` holds another pair, and may
  exchange the two only when nobody reads.  So readers use one slot, and a slot is
  free for the next load (`FreeSlotIsFree`).

Inductions over the naturals (prefixes of a file, of a fold, cardinalities) are
made by least counterexample: `LeastExists`, from the well-founded order of the
naturals, with a set in place of a predicate.

## 8. Only model-checked

Every invariant and every action property of a passing run is a theorem.  What is
left is liveness under fairness, which is outside the prover (it knows neither
`WF_` nor `ENABLED`): `RowsSettle`, `ShutdownCompletes` of `BatchWriter` and of `Ingest`,
`AllProcessed`, `LinesRead`, `EventsSettle`, `LookupsReturn`, `TablesCatchUp`.  A run that shows a violation
is a single behaviour and needs no proof.

## 9. Not modelled, and why

* A `Send` that fails after ClickHouse applied it: a retry stores rows twice; the
  code promises nothing about it and cannot tell.  The model takes a failed
  insert as not applied.
* Moves of partitions between readers: the broker's group protocol.
* The labels and the sampling expansion of an enriched flow: a function of the
  flow and of the stores' answers.  The longest-prefix match of a tenant and the
  parsing of a feed line: functions of one table.
* A store whose first load fails is left out for the life of the process, with no
  refresher (`main.go:243`): `present` says which ones there are.
* The flows mode of `cmd/trace` (one query, printed row by row), flags, rendering.
  The `LIMIT` of the first query drops candidates without a word; the model has
  none.  Columns that only the sort key needs are left out.
* Start-up, environment variables, schema changes, metrics, logging, rendering.
  `ENRICH_WORKERS=0` is accepted by the code and leaves a process that cannot
  stop; the model assumes at least one worker.
* The part of a line a torn read hands over is taken to give no event; the code
  counts it as malformed or skips it.  A restart of the process is a new
  behaviour over the same files, with every offset at 0.
* `LinesRead` leaves out a line longer than a read (8 MB): its file is stuck
  before it.  A panic loses the rest of the chunk it happened in, as the offset
  is stored before the lines are handled; `abandoned` records them.
* `chRowsWritten` counts whole chunks, malformed rows included; the model has it
  as the code does and nothing is claimed of it.
* A zone that changes its clocks at midnight, or twice a day: `time.Date` then has a
  choice of midnights, or none, and `AddDate` may stay on a day.
* `TcpdumpParser` leaves out the counts of parse errors, and one address stands
  for all those of an answer.  `DnstapParser` leaves out the port, the types of
  records and the TTL: they are read and cleared with the fields it has.  `cmd/dnsscan` has a copy of the same parser.
* The known same-second gap F1 of `REVIEW.md` (two entities, one tombstone) is in
  the model as the code has it; `ClosedStaysClosed` exempts it.
* Two things are deliberately not claimed because they do not hold.  Eviction in
  the identity store is not invisible: a release that comes after its open
  binding was swept leaves no tombstone, as in the last but one case of section 6.  And a DNS
  entry that has left the map is forgotten: an older answer with a longer TTL may
  come back, so `greatest` begins again when a key leaves.  The deadline kept for
  two answers of one second and one name depends on their order.

## 10. Plan

Most important first; all but the last are done.

1. `FlowSink`, `BatchWriter`, `BatchWriterProofs`.
2. `Ingest`, `IngestProofs`.
3. `IdentityStore` and its part of `IdentityProofs`.
4. `DNSStore`, `DNSStoreProofs`.
5. `FilePoller` and `LogFeed`.
6. `TcpdumpParser`, `TcpdumpParserProofs`.
7. `DnstapParser`, `DnstapParserProofs`.
8. `Trace`, `TraceAndLive`, `TraceProofs`.
9. `Enrichment`, `EnrichmentProofs`.
10. Proofs about `FilePoller` and `LogFeed`, in `IdentityProofs`.
11. Proofs of `DuplicatesAreCovered`, `WritesOnce`, `RaceIsBounded`,
   `ShedsAmongOldest`, `LiveStoreAgrees`, `FinalDrainForces`.
12. The safety half of the liveness properties, as theorems: that each step the
   fairness promises brings the end nearer (`Drain` of a row in hand, `Read` beyond
   the offset), which is what the fairness argument rests on.
