# A verification model of s3_event_consumer

`s3_event_consumer` reads S3 event notifications from one topic of a
Kafka-compatible event broker, prints them, and, when configured to, appends
them as rows to an Apache Iceberg table. It promises at-least-once delivery:
offsets are committed by hand, and only after the rows they stand for are in the
table. The modules here model that promise and the code it rests on, TLC checks
them on small instances, and TLAPS proves the main results for every value of
the constants.

    tlc -workers 2 -config consumer_safety.cfg MCConsumer
    tlc -workers 2 -config group.cfg MCGroup
    tlapm ConsumerProofs.tla

## The system

| Part | State it keeps | Operations | Correct when |
|---|---|---|---|
| Consumer process, `s3_event_consumer.py` | the poll loop's place, the read positions in librdkafka, the Ctrl-C flag, the exit code | start, poll, tick, decode, dispatch, commit, shut down | nothing read is dropped while it runs; exit 0 means all was written; Ctrl-C ends it |
| Iceberg sink, `s3events/sinks/iceberg.py` | the buffer, the highest buffered offset per partition, the failure counter, two deadlines, a table handle that may be out of date | `open`, `handle`, `tick`, `flush`, `close` | offsets are handed over only for durable rows; a failed batch is kept; retries are bounded, spaced, and not wasted |
| Consumer group: several of these processes on one topic and one table | what each holds of partitions it may have lost | rebalance, eviction, table creation | no rebalance skips a row or acknowledges one that is not written; offsets go back only where the code cannot help it |
| Dispatcher, `s3events/sinks/base.py` | the list of sinks | `open`, `dispatch`, `tick`, `close` | one sink's exception is not another's; a fatal one stops the process; every opened sink is closed |
| Flattening, `s3events/flatten.py` | none | `flatten_event` | a row per record whatever arrives; sizes, times and text fit their columns, but for the text a payload spoils itself |
| Configuration, `s3events/config.py` | none | `load_app_config` | what is accepted has what the consumer needs: whole counts in range, names, addresses, a group and a topic |
| Console sink, `s3events/sinks/console.py` | none | `handle` | a failure to print costs nothing else |
| Topic recreation, `scripts/demo_recreate_topic.py` | what it found and the topic it is going to create, in memory only | Admin and VMS deletion, creation, waits, watermark check, group deletion | settings survive; the group's position goes only with the messages it counts, and does not come back |
| Dashboard, `scripts/demo_watch.py` | a table handle, a pool of four threads and its queue; the synthetic pipeline | `sample`, the collectors, `step`, `close` | a dead layer does not take the others along; what is shown belongs together; it ends when told to |
| Shell scripts, containers, release workflow | none of their own | drive the parts above | |

The consumer process is single-threaded. It calls the broker (`poll`, `commit`) and the
catalog (`load_table`, `append`) synchronously; the dispatcher calls the sinks
in turn; the sink calls back into the process through the offset committer. The
concurrency is between this process and everything around it: producers,
other members of its group, another writer of the table, the signal handler,
the clock, and whoever kills and restarts it. The dashboard is the one part with
threads of its own. What is hard is therefore the order of two effects on two
services with a failure in between, bookkeeping that has to stay together over
failed attempts, timers read at one place and set at another, and a shutdown
path that runs after a fatal error. `PROJECT.json` lists these hazards line by
line.

## Modules

| Module | What it is |
|---|---|
| `Delivery` | the abstract contract: a partitioned log, a set of durable rows, the acknowledged offsets, and how they may change; `Spec` for one process, `SharedSpec` for several, which may also move an offset back |
| `Services` | the broker and the table as the code uses them: log, committed offsets, snapshots, a stale table handle, a budget of faults |
| `IcebergSink` | the sink's state, and the bodies of its methods as operators |
| `Consumer` | the process: the poll loop, start and shutdown, with the sink's operators called where the code calls them; `Init`, `Next`, `Spec` |
| `ConsumerProperties` | its type invariant, safety, action and liveness properties, the fairness, and the refinement mapping to `Delivery` |
| `MCConsumer` | definitions that give its constants values for TLC |
| `ConsumerProofs`, `DeliveryProofs` | the inductive invariant and the theorems; the refinement |
| `RetryProofs` | the theorems about failed attempts: offsets and rows, distance, giving up, duplicates |
| `Group` | several processes of one consumer group: start, the table's creation, rebalances, evictions, and the read, write, commit of each; `Services` is the broker and the table |
| `MCGroup` | its instance for TLC |
| `GroupProofs` | at-least-once over rebalances, when an offset may go back, how often a row can be written, and that the group implements `SharedSpec` |
| `Dispatcher` | the fan-out, for any number of sinks and any outcome of each call |
| `DispatcherProofs` | its four properties for any number of sinks and messages |
| `Config`, `Flatten` | the two pure readers, as operators |
| `MCInputs` | one state machine that feeds bounded inputs to both, and what they promise |
| `InputsProofs` | the same promises for every document and every payload |
| `TopicRecreate` | the topic script against two asynchronous services, next to a consumer |
| `TopicRecreateProofs` | its five properties for any number of runs and any settings |
| `LiveCluster` | the dashboard's `sample()`, the pool of threads, the collectors and the table handle they share |
| `IngestSimulator` | the dashboard's synthetic pipeline |
| `Watch`, `MCWatch` | the dashboard's `main()`, which composes the two; the instance for TLC |
| `WatchProofs` | its three invariants for any number of layers, threads and outages, and any batch size |

### How the consumer's model corresponds to the code

One action is one stretch of the process between two calls to a service, so a
kill can fall wherever the code can be caught with one service changed and the
other not. `flush()` is split in two by this rule: `FlushSucceeds` appends,
clears the buffer and puts the offsets into `inflight` (the argument of the
committer); `CommitReturns` or `CommitRaises` is the call of
`consumer.commit()`, after which the control returns to where `flush()` was
called from (`resume`): the loop, the handling of the polled message, or the
shutdown.

- `polled` is the message between `poll()` and `handle_message()`. The code
  calls `dispatcher.tick()` in between, so a flush there runs while a message
  that has been read is not buffered; the invariants speak of it as `InHand`.
- `position` is librdkafka's read position. It is not a Python variable, but
  `poll()` moves it and a restart resets it to the committed offset, to 0, or to
  the end of the log, by `auto.offset.reset`.
- `committed[p] = 0` is "no committed offset". The code never commits a 0.
- `buffer` and `pending` are `_buffer` and `_pending_offsets`. A row is its
  partition, offset and index within the message; the columns are `Flatten`'s
  business.
- `sinceFlush` and `backoffLeft` stand for `_last_flush` and `_retry_after`. The
  code only asks whether the interval has elapsed and whether the deadline has
  been reached, so the time since the one (capped at the interval) and the time
  until the other lose nothing. `Elapse` may happen at any point, also inside a
  call.
- `_append` reloads the table when `_needs_reload` is set, so a retry works on
  current metadata; `stale` says that the handle is behind the table.
- An append can return, be refused before any effect, be refused because of a
  stale handle, fail in PyArrow, or take effect and lose its answer. A commit
  that raises may have taken effect, for each partition of the request or for
  none (`PartlyAcknowledged`: the broker answers per partition, and nobody looks
  at the answers). A process may be killed between any two steps. These draw on the budget `faults`, by kind, except a conflict on a
  stale handle and a refused conversion, which follow from the state.
- A message is a payload kind: a record, an envelope of two, one that is not
  JSON, one that makes `flatten_event` raise, one whose row PyArrow refuses.

`close()` sets the failure counter to zero before its one attempt and
`_record_failure` then counts to one; the process ends in the same step, so the
model keeps only the outcome.

The consumer has one sink. The console sink comes first, keeps no state, and
`_safely` swallows what it raises; `Dispatcher` checks that claim for the
dispatcher itself with three sinks, each of whose calls may return, raise, or
raise `SinkFatalError`. One path is excluded there and named by the constant
`UnwindOutcomes`: a sink that raises `SinkFatalError` from `close()` while
`open()` unwinds would end the unwinding, since `_safely` re-raises it there. No
sink of the repository does: the Iceberg sink has nothing buffered at that time.

### How the other models correspond

`Group` keeps of the consumer what a rebalance can disturb: `buffer`, `pending`
and the offsets of a commit under way, for each member, with the same split of
`flush()` in two. The code subscribes without `on_assign` or `on_revoke` and the
sink never looks at what is assigned, so `Rebalance` changes nothing in a
member's memory, and `Flush` and the commits never ask who owns a partition.
Rebalances are the default eager ones: all partitions are taken away and
assigned again, to anybody, from the committed offsets. A member is evicted when
it has not called `poll()` for `max.poll.interval.ms`, rejoins at its next
`poll()` (never from within `flush()`), and its commit is refused meanwhile
unless the group is empty. `LoadTable` and `CreateTable` are two steps because
`create_table_if_not_exists` is called some time after `load_table` has raised.
An append whose answer is lost is `FlushAnswerLost`: the table has it, the sink
counts a failure and keeps its rows and offsets, and a later `flush()` writes
them again, perhaps after a rebalance. An append the catalog refuses changes
nothing that `Group` keeps. The distance between retries, their limit, timers and
the payloads that end a process are `Consumer`'s; a bounded buffer,
`MaxBuffered`, stands in their place. `unheard` is a history variable: the appends
whose answer was lost.

`LiveCluster` has one record for each thread: the job, whether it belongs to the
sample `sample()` is waiting for, how far the collector has come, the table
object it holds and what it has been answered. An abandoned future keeps its
thread, or its place in the queue, as in `ThreadPoolExecutor`. Table objects are
numbered because `refresh()` changes one in place while another thread may be
reading it. `TimeOut` is possible only for a layer that was down during the
sample, or whose job cannot get a thread because layers that are down hold them
all: the model's abstraction of time is that a service that is up answers well
within the timeout. `CallRaises` and `GroupOffsetsFail` are the exceptions of a
service that is down, which may as well say nothing. `IngestSimulator` is
`step()` with its `_commit` loop; the numbers it draws are existentials.

`Flatten` and `Config` keep the control of the functions (the order of the
keys, which value ends a scan, what is raised by what) and abstract a JSON
value to its kind and the number it needs. Of text, the kinds are what the code
or a column tells apart: blank, blank once `unquote_plus` has decoded it
(`Unquoted`, a key of plus signs), digits, which `fromisoformat` may read as a
date, and a lone surrogate, which PyArrow refuses. Of a setting's text, they are
a blank, a placeholder, one that is no name, a reference to each of these, and a
reference with blanks before it, which only `topic` and the names strip
(`Stripped`). `ParseKafka` resolves every setting for librdkafka, `option`
standing for those nobody looks at, and checks the section, the topic, the
brokers and the group. A size key stands for its spellings:
three of the four are listed. Numeric event times become text in
`_first_string` before `parse_timestamp` sees them, so its branch for numbers
does not appear. `MCInputs` takes the documents at most two settings away from a
good one, which is enough to meet every ordered pair of checks, and payloads of
at most two records; `InputsProofs` takes any value in every setting and any
number of records. The instants of the calendar are a set of integers, `Calendar`;
the date an integer's digits may spell is one of them (`FlattenAssumption`).

`TopicRecreate` holds a VMS record and a broker log, each of which may be
absent, being created, present or being deleted, and lets the services settle
at any time. A wait sees its predicate hold, or the run ends in an error: the
deadline is not modelled as a clock, because a wait that could have succeeded
may always also time out. `gap`, `blind` and `wanted` are history variables. The
`keepGroup` setting stands also for an environment without a group name. The
consumer next to it is reduced to what matters to the group's position: `held`
is `_pending_offsets`, which keeps the highest offset it has seen and so may keep
one of the log before; `Gone` turns every offset of a log into one of a log that
is no more when the broker has deleted it. A running consumer is a member, and
the broker does not delete a group that has members.

An Admin deletion answers "deleted" also while the log is already being deleted,
says that the topic is unknown, or raises. `outstanding` is a request that raised
and may yet be carried out: "sent" until then, "carriedOut" from then to the start of
the next run. `TopicStands` is excused only in that last state: a successful run
leaves the topic there whatever runs before it left half done, also when one of
them sent a request that is still pending, or when it was carried out before the
run began. Nothing in the script can hold a late request back, and the hazard
stands in the list without a property.

## What the runs check

| Run | Bounds | What it shows |
|---|---|---|
| `consumer_safety` | 2 partitions, 3 messages of 5 kinds, 2 faults of 8 kinds, batch of 2, limit 3, 2 attempts | at-least-once, nothing lost, offsets and rows kept together, whole messages, exit 0, offsets never go back, refinement of `Delivery` |
| `consumer_retries` | 1 partition, 4 messages, 4 faults, 3 attempts, limit 4, backoff 1 then 2 | giving up is final and earned, the backoff is honoured whoever calls `flush()`, no duplicates as long as faults are refused calls |
| `consumer_liveness` | 2 partitions, 2 messages, 2 faults, batch of 3 and `FlushInterval` 2 | every message is written in the end, Ctrl-C ends the process |
| `group` | 2 members, 2 partitions, 2 messages, 1 fault of 4 kinds, 2 rows per buffer | refinement of `Delivery`'s `SharedSpec`, hence at-least-once; nothing skipped, offsets of a partition nobody else holds never go back, copies bounded by the rebalances and the lost answers, everything written in the end |
| `dispatcher` | 3 sinks, 3 messages | isolation, fatal errors, closing, the exit code |
| `inputs` | see `MCInputs` | what an accepted configuration has; a row per record, test events, the first size that fits, values that fit their columns |
| `recreate_topic` | 2 runs, 2 partition counts, 1 new message | settings survive, no replay of an old log, no position of an old log comes back, the topic stands, a dry run changes nothing |
| `watch` | 2 layers and 2 threads, a queue of 3, 2 table versions, 1 outage; batches of 3, 7 objects | healthy layers are shown, rows and snapshots belong together, the synthetic counters add up; samples end, complete samples come back, a dashboard told to quit ends |

Two partitions let one partition's offsets be committed while the other has
none. Two faults let a lost answer be followed by a kill or by a failed retry.
A batch of two with an envelope of two rows makes a batch fill at its size and
beyond it; a limit of three is reached during a backoff. In the liveness run
the batch is larger than what two single records fill, so the interval has to
elapse for them.

In `group`, two members and one fault are enough for a partition to be moved
while its rows are buffered (joining is no fault: the second member's start
already does it), for a late commit, and for a member that is evicted, rejoins
and then commits. One lost answer is enough for one member to write a row twice
within one assignment. Without lost answers, the safety properties were also
checked on larger instances that are too slow to keep: two faults (1.4 million
states), one partition with three messages and two faults (1.3 million), two
partitions with three messages (7.7 million). They showed that a consumer that was evicted and has rejoined may
commit what it carried and so leave its own read position behind the committed
offset, from where later commits bring the offset down again. `settled` is
therefore taken at each rebalance, and `SettledNeverRegresses` says that offsets
of the partitions nobody held anything of at that time do not go back.

In `recreate_topic`, one of the two settings of a topic has a second value; both
go through the same lines, and the theorems hold for any values. With two values
for each the run also passes (6.4 million states), but is slow. Two runs allow
one to end between the deletion and the creation and the next to finish the job.

In `watch`, two threads for two layers are four for four: one hanging layer
leaves one thread for the other, and the left-overs of a sample can take both.
The two layers are those with an inner structure; the S3 listings are single
calls and share nothing. One outage suffices for a hang over several samples,
because it lasts as long as TLC likes. Without the exclusions in
`HealthyLayersShown` and `IcebergIsCurrent` (threads lost to earlier samples)
both fail: that is what a timed-out collector costs, and the run shows that it
costs no more.

Deadlock is checked in the consumer's runs (the consumer is
restarted for ever) and not in the others, which come to an end.

Four runs state something the repository says that the code does not keep:

- `giving_up_commits`: after `SinkFatalError` the shutdown path tries once more
  and, if the catalog is back, writes and commits. This loses nothing. It
  contradicts the module text of `base.py`.
- `latest_reset`: with `auto.offset.reset` set to `latest` and no offset
  committed yet, unwritten rows are not read again by the next run.
- `flatten_raises`: sizes that are not finite, and times outside the calendar.
- `config_nan_times`: a NaN passes "must be greater than zero". An infinity
  passes too and is greater than zero; the property allows it, and a backoff is
  capped in any case (`iceberg.py:469-472`).

### Fairness

`FairSpec` assumes that the process keeps taking steps (every call it makes
returns or raises; the timeouts of librdkafka and of the catalog client are what
justifies it), that time passes, that whoever runs the consumer starts it again
after it has ended, and, as strong fairness per partition, that `poll()` cannot
for ever return nothing from a partition that has a record to fetch: librdkafka
serves the partitions of an assignment in turn. Nothing is assumed of producers,
Ctrl-C or faults; the faults end because their budget does, which is the meaning
of "once the services have recovered". `EventuallyWritten` is checked without the two kinds of
poison payload: with them it does not hold, because such a message is neither
written nor skipped and every run ends at it. The hazards say so.

`Group` assumes that each process keeps taking steps and is started again after
it has stopped; `EventuallyWritten` then holds because rebalances need a fault or
a start, and their number ends. `Watch` assumes that the main thread and the
pool's threads run, and nothing of the services: `SampleEnds` holds while they
hang. `CompleteAgain` and `QuitEnds` say themselves from when on the services
answer. That `QuitEnds` needs this is the code's doing: `shutdown(wait=False)`
cancels the jobs that wait, but the interpreter joins the threads that run.

## What is proved

TLAPS checks the following for every set of partitions, payloads, members, sinks
and topic settings, every sequence of faults, every setting `SinkAssumption` allows, any number of
layers and threads of the dashboard, and every configuration and payload. For the consumer, apart from that assumption and `ServicesAssumption`, two of the theorems assume that
`auto.offset.reset` is `earliest`; where a property itself starts with that
condition, no assumption is made.

| Theorem | Property |
|---|---|
| `TypeCorrect` | `TypeOK` |
| `GivingUpStopsTheProcess` | `GivingUpStops` |
| `CommitsOnlyMoveForward` | `CommittedNeverRegresses` |
| `BufferedRowsAreReplayable` | `BufferedRowsReplayable` |
| `AtLeastOnce` | `AckedRowsDurable` |
| `NothingIsLost` | `NothingLost` |
| `CleanExitsAreComplete` | `CleanExitMeansWritten` |
| `WholeMessages` | `MessagesLandWhole` |
| `ConsumerImplementsDelivery` | `ImplementsDelivery` |
| `RetryProofs!PendingIsBuffered` | `PendingMatchesBuffer` |
| `RetryProofs!RetriesKeepTheirDistance` | `BackoffHonoured` |
| `RetryProofs!GivingUpHasReasons` | `GivingUpIsEarned` |
| `RetryProofs!RowsAreWrittenOnce` | `NoDuplicates` |
| `GroupProofs!AckedRowsAreDurable` | `Group!AckedRowsDurable` |
| `GroupProofs!NothingIsSkipped` | `OwnerHoldsTheRest` |
| `GroupProofs!SettledOffsetsStand` | `SettledNeverRegresses` |
| `GroupProofs!DuplicatesAreBounded` | `CopiesBounded` |
| `GroupProofs!GroupImplementsDelivery` | `ImplementsSharedDelivery` |
| `DispatcherProofs!SinksAreIsolated` | `SinksIsolated` |
| `DispatcherProofs!FatalErrorsStop` | `FatalStopsEverything` |
| `DispatcherProofs!OpenedAreClosed` | `OpenedSinksAreClosed` |
| `DispatcherProofs!ExitZeroMeansClean` | `ExitZeroIsClean` |
| `TopicRecreateProofs!SettingsAreKept` | `SettingsKept` |
| `TopicRecreateProofs!NoOldMessageIsReplayed` | `NoOldReplay` |
| `TopicRecreateProofs!TopicIsThere` | `TopicStands` |
| `TopicRecreateProofs!PositionsFitTheLog` | `PositionFitsLog` |
| `TopicRecreateProofs!DryRunsAreHarmless` | `DryRunHarmless` |
| `WatchProofs!HealthyLayersAreShown` | `HealthyLayersShown` |
| `WatchProofs!IcebergAlwaysCurrent` | `IcebergIsCurrent` |
| `WatchProofs!SyntheticCascadeHolds` | `SyntheticCascade` |
| `InputsProofs!AcceptedConfigurations` | `AcceptedSettingsWork` |
| `InputsProofs!RowsOfAnyPayload` | `OneRowPerRecord` |
| `InputsProofs!ValuesOfAnyPayloadFit` | `ValuesFitColumns` |
| `InputsProofs!TestEventsOfAnyPayload` | `TestEventsRecognised` |
| `InputsProofs!SizesOfAnyPayload` | `FirstFittingSize` |
| `InputsProofs!RaisesOnlyThere` | what `NeverRaises` leaves: `flatten_event` raises only on a size that is not finite or a time outside the calendar |

Each of the other theorems assumes only the named assumption of its model, with
three exceptions. `OpenedAreClosed` assumes that no sink raises `SinkFatalError`
from `close()` while `open()` unwinds; `GivingUpHasReasons` that PyArrow refuses
no row, because such a row fails every attempt without any fault;
`RowsAreWrittenOnce` that no process is killed, no append loses its answer and
no commit raises. The runs of these properties assume the same.

For the consumer, the argument goes in four layers, each an invariant that uses the ones before.

1. `TypeInv`: the types, every offset in the process is one of the log
   (`InsideLog`), and a process in the loop has attempts and room left
   (`Healthy`).
2. `OrderInv`: the buffered rows of a partition lie between the committed
   offset and the read position, the pending offset is the last of them or there
   is none, the message in hand is the one just below the position, and offsets
   on their way to the broker lie between what is committed and what is
   buffered. `CommittedNeverRegresses` and `BufferedRowsReplayable` follow.
3. `DurableInv`: `AckedRowsDurable`, `NothingLost`, `CleanExitMeansWritten`, and
   what makes them inductive, that the rows below an offset in flight are
   durable (`InFlightDurable`). `AckedRowsDurable` alone is not inductive: a
   commit step can only be justified by what was true when the append returned.
4. `WholeInv`: a buffer or a snapshot that has one row of a message has them
   all. `MessagesLandWhole` follows.

The refinement maps `durable` to the union of the snapshots and `acked` to the
committed offsets. A commit, whole or failed, is `Acknowledge` or a stutter, an
append is `Write`, a publication `Publish`, and every other step leaves the three
variables alone.

`RetryProofs` adds three invariants to the first two layers. `PendingIsHighest`:
no buffered row lies above its partition's pending offset, and a row stands at
it; the message in hand is above both (`InHandIsLast`), which keeps it so.
`FaultsPaid`: failures and the faults left do not exceed the budget, and a stale
handle that has not been noticed has cost one fault that no failure counts yet,
so the conflict it leads to is paid for. `OnceInv`: a row in the table is below
the committed offset or the one in flight, what is buffered is not, and neither
holds a row twice.

For the group, `AckedRowsDurable` and `OwnerHoldsTheRest` are not inductive by
themselves, because a commit may concern a partition the member lost long ago.
`MembersHoldTheRest` closes the gap: every row up to a pending offset of any
member is in the table or in that member's buffer, and every row below an offset
it is committing is in the table. A rebalance keeps this, since it changes no
memory and takes the positions from offsets that are already accounted for.
`SettledOffsetsStand` needs `SettledAt`: of a partition nobody held anything of
when it was assigned, only the owner does, and all of it lies between the
committed offset and the owner's position.

For the dispatcher, the invariant says at each place of the control which sinks
have been opened, given the current message, or shut; the theorems are what it
says at the end.

For the topic script, `SettingsInv` follows the settings through the time in
which only the script's memory has them, `ReplayInv` says that a log seen empty
holds no old message later, `StandsInv` and `CreatedInv` follow the created topic,
and `PositionInv` adds to `PositionFitsLog` that a position in the present log
means messages in it. An empty log therefore has none to leave behind, and this
is why reading the watermarks before deleting the group is enough.

For the group's other two theorems the buffers and the table are looked at
together. `CopiesBounded` has to tell two causes of duplicates apart: a rebalance,
after which a message is read again, and an append whose answer was lost, after
which the same member writes what it still holds once more, within one
assignment. The rows of the appends in `unheard` are therefore counted on their
own. `DuplicatesAreBounded` counts: every assignment of the partitions raises
`generation` by one, and within one assignment a message is read once, by its
owner. `CopiesInv` says that the copies of a row in the appends the sinks know of and in all buffers
number no more than the assignments so far, and fewer as long as the present
owner has not come to the message, so that reading it adds the one that is still
free. Bounding the table alone is not inductive: an old owner may write its copy
after any number of rebalances. `RepeatsInv` is the other half: an append nobody
heard of wrote what one member held, no more copies than there had been
assignments, and nothing changes it afterwards. `GroupImplementsDelivery` adds `BuffersOnTopic`
(what is buffered is on the topic) to `DurableInv`; a commit is `Cover`, which is
`Acknowledge` without its direction, because of the late commits
`SettledNeverRegresses` delimits.

For the dashboard, `SampleInv` accounts for the jobs: at most one of the current
sample for each layer, the older ones in front of them in the queue, and never
more older ones than there were when the sample began. A layer whose service is
up is abandoned only if its job has no thread and every thread is held by an older
job or by a layer that is down; those threads map one to one to older jobs and
such layers, so there are at least `MaxWorkers` of them, which is what
`HealthyLayersShown` excludes. `IcebergInv` speaks of the samples that begin
without an older job: there is one Iceberg collector, it is the one reader of the
table object, the object it installed or refreshed is of the version the service
had during the sample, and what it has counted is of that object. The synthetic
pipeline's `Cascade` is about a recursive function, the loop that drains the
buffer. The library's induction theorems cannot be used, but induction in its
first-order form can: a set of naturals that is not empty has a least element
(`LeastNatural`), and the least number of events for which the drain went wrong
would be a batch above one for which it does not.

For the readers there is little state, and no need of an invariant beyond `InputsInv`:
the result is that of the input. `AcceptedSettingsWork` says what validation
ensures and no more: it looks for placeholders in the brokers' and the catalog's
address and in credentials, not in the topic or the group, and a credential may be missing or
blank. `ValuesFitColumns` likewise names what may stand in a text column: an
object key of plus signs is a blank once decoded, and a lone surrogate reaches
the row and makes PyArrow refuse it, which is why `Consumer` has a payload of that kind
(`Unwritable`). `AnySpec` is `Spec` with any document or any payload as
input, and `BoundedInputs` shows that every behaviour of `Spec` is one of
`AnySpec`, so what TLC runs is an instance of what is proved. `AnyValue` asks one
thing of a value: a timestamp without an offset is an instant of the calendar,
because `fromisoformat` makes no other. `RaisesOnlyThere` turns the counterexample of
`flatten_raises` around: its two ways of raising are all there are.

Only model-checked: the liveness properties (`EventuallyWritten` of the consumer
and of the group, `InterruptStops`, `SampleEnds`, `CompleteAgain`, `QuitEnds`),
which with anything about ENABLED are out of the prover's reach. Every other
property of a passing run is the subject of a theorem. The four statements of
the documentation that fail are refuted by their runs.

## What is not modelled

- Cooperative rebalances and static membership: the repository's configuration
  asks for neither. Retention on the topic, the other librdkafka settings,
  column schemas and partitioning, argument parsing, `--check`, logging.
- A consumer that stalls, drops out of its group and lets the topic script
  delete the group it comes back to: `Group` has evictions, `TopicRecreate` has
  not. The script's help asks for the consumer to be stopped.
- The distance between retries, and their limit, within a group of several
  members: `Consumer` has them for one. That an append fails or is not heard of and is tried
  again is in `Group`.
- The dashboard's terminal layout, its keys other than `q`, the rates and the
  sparklines, and the S3 listings beyond their one call.
- `publish_test_events.py`, `demo_ingest.py` and `s3put_files.sh`: they put
  messages or objects, and the models begin with a message in the log. That
  `flush(30)` of the publisher may give up with messages queued is listed as a
  hazard no property covers.
- `demo_reset.sh` (external commands around the topic script), preflight, smoke
  and outage scripts, containers, release workflow: they drive deployed
  services and hold no state.

## Plan

1. Done: the delivery contract, the services, the sink, the consumer, its
   properties and proofs; the consumer group and its proofs; the dispatcher and
   its proofs; the topic script with a consumer beside it, and its proofs; the
   readers and the dashboard, and the proofs about them.
2. Done: theorems for every invariant and every action property of the passing
   runs, and for both refinements.
3. Evictions in `TopicRecreate`, and `demo_reset.sh` as a composition with it.
4. `Group` with the backoff and the limit on attempts of `IcebergSink`; it
   implements `SharedSpec` without them.
