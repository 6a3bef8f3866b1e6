# QoS Planner: TLA+ specifications and proofs

The QoS planner reserves throughput on the object storage targets (OSTs) of a Lustre file
system. A client asks for a number of MB/s on the OSTs of some files for some time; the
planner decides whether the OSTs can give it, keeps the reservation ("job") in a schedule,
and, when its start or end comes, has token bucket filter (TBF) rules set or removed on the
object storage servers (OSSs) behind the OSTs. This directory holds the TLA+ model of that
program (`src/src`), the TLC configurations that check it and proofs that `tlapm` checks.

```
tlc -workers 2 -config MCPlanner.cfg MCPlanner      # one run; the others below
tlapm PlannerProofs.tla                             # one module of proofs
```

`PROJECT.json` lists components, runs, hazards, findings and theorems, and names for every
definition the lines of the source it models.

## 1. The system

| Component (`src/src/...`) | State | Operations | Hard because |
|---|---|---|---|
| **Planner** (`common/Planner.cpp`) | owns the others | `Init`, `TearDown`, `ServeJobSubmission`, `ServeJobRemove`, `ServeListJobs` | calls several components, each atomic, none of the sequences is |
| **JobMonitor** (`common/JobMonitor.cpp`) | `job_priority_queue_`, `in_flight_jobs_`, thread flags | `Init`, `TearDown`, `RegisterJob`, `UnregisterJob` (server thread); `Monitor`, `Handle`, `StartJob`, `StopJob` (monitor thread) | two threads, two mutexes, condition variables, timeouts, state read and used after unlocking |
| **JobPriorityQueue** (`common/JobPriorityQueue.cpp`) | a binary heap of waiting items | `Push`, `Pop`, `Remove`, `Peek` | index arithmetic, two comparison directions |
| **MemoryScheduleState** (`common/MemoryScheduleState.cpp`) | `jobs_`, one list of jobs per OST | `AddJob`, `RemoveJob`, `UpdateJob`, `Reset`, getters | two structures that have to agree; each method holds `schedule_mut_` throughout |
| **JobSchedulerStaticWorkloads** | `osts_max_mbs_limits_` | `ScheduleJob`, `RemoveJob`, `UpdateLimits` | a sum in `uint32_t`, compared with a `float`, over jobs that may be gone |
| **ClusterState**, **JobSchedulerDynWorkloads** | workload per OST, an update thread | `Init`, `TearDown`, `Update`, `UpdateNode`; `ScheduleJob`, `RemoveJob` | a thread with a life of its own, writes without the mutex, two reads of one value |
| **RuleManager** (`common/RuleManager.cpp`) | `active_rules_`, no mutex | `SetRules`, `RemoveRules` | one command per OSS in parallel, each may fail; called by both threads |
| **SSHRuleSetter**, `util.h` | the rules on the OSSs | `SetRule`, `RemoveRule` | a failing remote command looks like success |
| **OssStubRuleSetter**, **OSSRuleServer** | a ZeroMQ socket at each end | the same over ZeroMQ | timeout, resending, duplicate execution |
| **OstIdsConverter**, **OstIpsCache** | caches: OST to uuid, uuid to address | `ToUUID`, `GetIp` | failures are cached; what was cached gets old |
| **LocalLustre** (`common/Lustre.cpp`) | none; asks `lfs` and `lctl` | lists, addresses, stripes, parsers | silence and failure look the same |
| **Server**, **Client** | REP and REQ sockets | receive, serve, answer; send, time out, send again | turns of a REP socket, requests executed twice, late answers |
| **OSTLimitConfigParser**, **ListJobsFormatter** | none | parse, lay out | formats |

One process runs two threads. The **server thread** takes requests one at a time (`Server::Serve`):
a submission goes to `ScheduleJob`, which adds up the OST lists, calls `AddJob` and then
`RegisterJob`; a removal goes to `UnregisterJob` (block the job, take its item off the queue,
stop it if it is active, unblock it) and then to `RemoveJob` of the schedule. The **monitor
thread** pops the items whose time has come and handles them under `in_flight_jobs_`: start a job
(set its rules, mark it ACTIVE, queue its end) or stop it (remove its rules, mark it DONE, remove it
from the schedule). They share the schedule (a mutex inside each method), the queue (a mutex), the
set of jobs in flight (a mutex and a condition variable) and the rule manager (nothing). Only the
monitor thread looks addresses up, in the two caches. Around that process, clients send requests
and send them again when the answer is late; with `OssStubRuleSetter` the planner itself does the same
towards the OSSs.

What makes the components correct: no item is lost in the queue; the OST lists contain every
reservation and OSTs are not given away twice; what `active_rules_` says is on the OSSs, and on the
OSSs of the right OSTs; two threads never process one job; states only advance; every job waits for
what comes next; nothing is active too long or stopped too early; outside of processing, the OSSs
have exactly the rules of the active jobs; a call that succeeded was executed and had its effect;
servers stay up; threads end when they are told to, and those who wait for them return.

## 2. The modules

| Module | Models |
|---|---|
| `JobTypes` | jobs, states, events, waiting items, the clock, `uint32_t` (`Job.h`) |
| `JobPriorityQueue` | the heap as functions on sequences, both directions of comparison as in the code |
| `WaitingQueue` | **abstract:** what the heap promises but for the order: a bag of items |
| `JobQueue` | every sequence of calls on one heap; implements `WaitingQueue` (`KeepsEveryItem`) |
| `QueueContract` | what the job monitor assumes of its queue, as operators on bags |
| `ScheduleState` | `MemoryScheduleState` |
| `JobScheduler` | admission control on top of `ScheduleState` |
| `Admission` | `JobScheduler` as a system of its own, with jobs that start in any order |
| `RuleManager` | `RuleManager`, `SSHRuleSetter` and the rules on the OSSs, as operators and two variables |
| `Lustre` | the OSTs there are, what `LocalLustre`'s calls return of them, its parsers |
| `OstRules` | the whole way from a file's OSTs through both caches to the rules: `RuleManager` and `Lustre` composed |
| `JobMonitor` | the steps of the two threads inside the job monitor, on top of `JobScheduler` and `RuleManager` |
| `Planner` | requests, both threads, clock, fairness, system properties |
| `ReservationService` | **abstract:** a reservation as its client sees it; `Planner` implements its steps where it does (`ImplementsService`) and what it must do in the end (`ServesWhatIsDue`) |
| `Startup` | the planner from `Init` to `TearDown`: existing jobs, the monitor's loop, its flags and its end |
| `ClientRequest` | from a command line to a request, or none |
| `RemoteCall` | **abstract:** what a call over the network promises its caller |
| `RequestReply` | callers with timeouts and resending, servers with REP sockets; implements `RemoteCall` |
| `ClusterState` | `MemoryClusterState`, its update thread and its owner |
| `DynScheduler` | `JobSchedulerDynWorkloads`, composed of `ClusterState` and `ScheduleState` |
| `MC*` | instances for TLC |
| `*Proofs` | section 5 |

**Steps of the planner.** `pc[t]` says what thread `t` does next. A step is what the code does from
one unlocked place to the next: a method of the schedule, a critical section on the queue, entering or
leaving `in_flight_jobs_`, an access to `active_rules_` with the commands around it. The names of
`pc` follow the calls: `StartJob` is `start_status`, `start_throughput`, `start_osts`, `set_rules`,
`insert_rule`, `start_update`, `start_end`, `start_push`; `StopJob` is `stop_status`,
`remove_rules`, `erase_rule`, `stop_update`, run by either thread. `cur[t]` is the job id in the
thread's hands, `args` the locals of `StartJob` that outlive a call. `ScheduleJob` reads lists that
only the server thread writes, so that its decision and `AddJob` are one step. Waiting on a condition
variable is a disabled step: `HandleEnters`, `BlockJob`. The 5 s `wait_for` of the loop is
`WaitForWork`; it changes nothing, the step after it is enabled by the clock, and a notification only
makes it shorter.

**Life cycles** (`Startup`, `ClusterState`). The thread is `begin`, then in its loop, then
`exit`, then `ended`; whoever calls `TearDown` is `asleep` on the condition variable, `woken` by a
notification, and in `join`. The exit flag is written under the mutex and read by the loop without it;
on the builds there are, the read returns the old or the new value, and the loop tests again, so that
the order of the steps covers it. In `Startup` the owner is the server's thread, and the schedule
may hold a job when it begins. `Planner::Init` tears the monitor down when the scheduler has no
limits; that is `TearDown` from `started`. In `ClusterState` the owner calls `Init` and `TearDown` in
any order and as often as it likes.

**Requests.** A `copy` is a call with the value of `retries_left` when it was sent, which also
names the socket it was sent from. What is sent stays in `requests` until a server takes it, in any
order or never: loss, delay and reordering in one. An answer reaches its caller only while the socket
that asked is open, and a timeout may come at any moment before the answer is read. The client and
the planner, and the rule setter and the OSS, are the same code twice, and here one module with two servers;
what they do differently is in `Accepts` and `ProcessMessage`. `at` and `in_turn` are the two sides of a
REP socket: where `Serve` is, and what ZeroMQ lets it do.

**Lookups.** `finding` is a `SetRules` in progress. The caches change at each lookup, Lustre grows
in between, and an OST may fail over at any moment to another of its `Homes`: `home` is the OSS that serves it now
(`FailOver`), `GetIPOfOst` returns that one, and `moved` remembers the OSTs that failed over
after their address was cached, about which the planner learns nothing. Commands fail loudly
(`exec`) or print nothing (`silent`). The OSTs of a file are those that `ParseOstsFromGetStripe` makes of
their numbers. Rules are then set at the addresses that were found, by the operators of
`RuleManager` instantiated with them (`At`). `asked` is what a job's rules were set for, and `leftover` the jobs that met
a rule of their own name, left by a call that had failed: `lctl` does not start a rule that is there, so that the old rate stays.

**Undefined behaviour.** `GetMaxLoadInTimeInterval` leaves `*maxLoadMBSec` unassigned as soon as an
OST has a list: the load is then any `uint32_t` (`JobSchedulerStaticWorkloads.cpp:86-91`; the same in
the dynamic scheduler). `active_rules_` has no mutex: when both threads are at a step that accesses it
and one of them writes, a find may miss the entry and a write may be lost (`Races`, `Find`).
`UpdateNode` takes no mutex: in the middle of another write the map may lose entries, and a new entry in the
middle of a `getOstState` rearranges the tree under its search, which may then miss an entry that is there. So `getOstState`
is two steps, `LocksToRead` and `Reads`, and `reading` says whether the read in progress is `torn`. One
thread at a time calls `UpdateNode`; it has no caller in the repository. The history
variables `raced` remember that threads have written (or, for `active_rules_`, accessed) a map at the same time. A crash of the process in such a race is
the end of a behaviour and not modelled.

**Failures.** `Faults` of `RuleManager`: *lookup*, an OST's address is not found; *exec*, a command
cannot be sent and the call returns false; *remote*, ssh or lctl fails on its way, which the call
reports as success because `exec` drops the exit status (`util.h:60`). `LustreFaults`: *exec* and
*silent* as above.

**Numbers.** Sums of throughputs are taken modulo `UintMod`. The limits of `JobSchedulerStaticWorkloads` are floats, and the
sum is converted to one before it is compared (`.cpp:77`): `ToFloat` rounds it to the nearest, of two to the one with
an even significand. `FloatExact` stands for 2^24, up to which every integer is a float; a sum just above a limit
of that size is rounded down to it and passes. The dynamic scheduler compares integers.

**Data.** A job keeps state, start, end, throughput and OSTs; its id is the key. A rule is the rate
it gives a job on an OSS. `time_point::max()` is `Forever`, an instant the clock does not reach.
Removed jobs stay in the OST lists, since `RemoveJob` erases them from copies
(`MemoryScheduleState.cpp:117-121`). A delete request with several ids is taken id by id. A job without
OSTs never starts (`SetRules` returns false for it). The empty id is one that can be reserved but
not be removed by the client, since `IsInputValid` looks at the files twice and never at the id.

**Queue.** `JobMonitor` takes the queue as constant operators with the contract
`QueueAssumption` (`QueueContract`): seen as a bag of items, a queue gains by `Push` one copy of the pushed
item and loses by `Pop` one of the peeked item and by `Remove` one of an item of the job, if it has any. That
heaps of any size keep the contract is a theorem (`HeapKeepsContract`); TLC evaluates the assumption in every planner
run as well, on all heaps up to the bound. The contract says nothing about the order, because the
heap does not keep one. `Up` and `Down` are recursive functions on `Places`, pairs of a heap and a position in it: the calls the code makes.

## 3. The runs

| Run (module) | Question | Bounds | Distinct states |
|---|---|---|---|
| `queue_bag` (MCJobQueue) | does the heap lose, duplicate or invent an item in any sequence of calls? `KeepsEveryItem` | 2 ids, 2 times, heaps to 6 | 240 k |
| `admission` (MCAdmission) | are the lists complete and in order under every sequence of calls? `ListsSorted`, `JobsAreListed` | 2 ids, 3 OSTs, 2 starts, lists to 3, a throughput within the limit and one that is rounded down to it | 4.3 k |
| `rules` (MCOstRules) | is what is cached and what is set where it belongs, and at the rate that was asked for? `CachedAddressesOwn`, `RulesAtHome`, `RatesAddUp`, `TrackedRulesInstalled` | 2 jobs; OSTs 1, 2, 12 on 2 OSSs, OST 1 fails over; rates that fit a `uint32_t` and one that does not; all faults but *remote* | 2.4 M |
| `planner` (MCPlanner) | what holds in spite of removals, races and faults? `TypeOK`, `InFlightExclusion`, `ActiveJobsHaveRules`, `ActiveJobsHaveStop`, `JobsOnlyAdvance` | 2 ids, 2 OSTs and OSSs, 3 submissions, 2 removals, heaps to 4, clock to 3 | 2.8 M |
| `planner_quiet` (MCPlanner) | is the promise kept when nobody removes, nothing fails and every reservation ends? `LustreFollowsSchedule`, `StopsNotBeforeEnd`, `ScheduledJobsStart`, `ImplementsService`, `ServesWhatIsDue` | 3 ids, 3 submissions, 2 OSTs, clock to 4 | 307 k |
| `planner_live` (MCStartup) | from `Init` to `TearDown`: `JobsAreDue`, `ServedJobsEnd` (but for what an endless reservation hides), `ServerReturns`, `TearDownReturns`, `NothingInFlightAfterTearDown` | an existing job (to start, active, done) or none, 2 ids, 2 submissions, short or endless, 1 removal | 321 k |
| `rpc` (MCRequestReply) | what does a call that succeeded mean, and does every call return? `TypeOK`, `ImplementsRemoteCall`, `CallsTakeEffect`, `ServersStayInTurn`, `CallsReturn` | 2 calls to one server, 3 sends each, garbage for the planner's socket | 765 k |
| `cluster` (MCDynScheduler) | may the scheduler rely on what it read, does the thread end? `TypeOK`, `KnownOstsStay`, `NoThreadLeft`, `TearDownReturns` | 2 OSTs, 1 id, 2 kinds of jobs, 1 rate, lists to 2 | 402 k |
| `admission_load` | `NoOvercommit` is **violated** | 2 jobs on an OST | |
| `planner_orphan` | with a removal, `LustreFollowsSchedule` is **violated** | 1 submission, 1 removal | |
| `planner_early_stop` | with a removal and a resubmission, `StopsNotBeforeEnd` is **violated** | 2 submissions, 1 removal | |
| `planner_starve` | with an endless reservation, `ScheduledJobsStart` is **violated** | 2 submissions | |

**Why the bounds are enough.** In the planner, a conflict needs two threads and two jobs (one that the
server works on, one that the monitor does), or one id that is reused: submit, remove, submit again.
That takes 2 ids, 3 submissions and 2 removals. Two OSTs behind two OSSs are needed for a command to
fail on one and reach the other. In `planner_quiet` the clock goes to 4 so that an id is granted
again after its reservation was forgotten. Heaps of 6 items have three levels, so that `Up` and `Down`
recurse more than once and meet nodes with one child; in the planner a heap of 4 (3 in the small instances) never
keeps a thread from a push, which was verified with an invariant saying so. `MaxListed` is the number of jobs there can be.
The clock (`MaxTime`) only has to pass the last end, and `EndsInTime` lets no reservation in that would
not end within it. `UintMod` is small (2 to 8), so that sums wrap around. `FloatExact` is 4 where
limits play a part, and 8 in `admission_load`, where nothing is to be rounded: that run shows what the load alone
does. In `rules`, three OSTs
suffice for one that fails over, one that then shares its OSS with it, and one whose number has two digits
and is taken for the second; that each exception of the three properties (`moved`, `leftover`, the wrapped sum) is needed was
verified by leaving it out. Two jobs let one use what the other left in the caches. In `rpc`, two calls make the
first one's late copies meet the second one, and three sends are the code's `kRequestRetries`; calls to different
servers share nothing, so that a workload is for one of them. In `cluster`, two OSTs let one be known and the other be inserted
while the first is read; the value of a rate matters to no property, so that there is one. In `planner_live`, an endless reservation that is
submitted when another one is active is enough to hide the end of that one: without `EndlessFirst`, `ServedJobsEnd` is violated. `JobIds`
is a symmetry set in safety runs only.

**Fairness.** `FairSpec` of `Planner` assumes weak fairness of the monitor thread, of the server
thread while it serves a request, and of the clock: the operating system schedules both threads, and
time passes. No fairness is assumed for requests or for a particular outcome of a fault. Weak
fairness of a whole thread suffices. A thread that waits for `in_flight_jobs_` waits for a job that the
other one holds, and the other one lets go of it after finitely many steps. While the server waits it
queues nothing, so that the monitor can take the job again only as often as the queue has items for
it; the monitor's wait is prolonged only by further requests for the same id, which end that job
anyway. `Startup` assumes the same of its threads, including an owner that is in a
call, and never that `TearDown` is called. So does `DynScheduler` of updater and owner, with strong fairness: a scheduler
may read the state for ever, and they wait for a mutex that is free again and again, which a thread gets in the end on the
builds there are; a read that has begun ends. `ServedJobsEnd` speaks of what happens once requests have come to an
end, as they do within the bounds: a steady stream of later reservations could keep an event below the root as an endless one does. In `RequestReply` only the callers are fair: `zmq::poll`
returns with an answer or after the timeout. Nothing is assumed of servers and network, so that
`CallsReturn` holds with a server that is down.

**Deadlock** is checked where the system never stops: the planner's `WaitForWork` and refused
requests go on for ever. Two systems really end: in `rpc` when all calls have returned and the
copies are used up, in `planner_live` when `TearDown` has returned.

**Refinements.** `WaitingQueue` has the heap's items as a bag (`ItemBag(heap)`). `RemoteCall` has
`phase` and `executed` as they are; sending again and everything the server does apart from executing
are stutters. For `ReservationService`, `PhaseOf` reads the phase of a reservation off the schedule and the
OSSs: it is enforced while there is a rule for it, whatever its state, since rules are set before the
state is ACTIVE and removed before it is DONE; marking a state is then a stutter. The abstract
actions set all rules of a reservation in one step and only after its start has passed, and release
them only after its end (`ImplementsService`, its `Safety`). Its fairness is a property of its own: what is due is done
(`ServesWhatIsDue`, its `Liveness`).

## 4. Where code and words differ

The first four have a run with a counterexample and an entry in `PROJECT.json`; the others are in the models, and
the properties name them as their exceptions.

1. **Admission** (`JobSchedulerStaticWorkloads.cpp:89`). The maximal load goes to a local variable;
   the decision is made with an uninitialised one. Reservations beyond the limit get in.
2. **Orphaned rules** (`JobMonitor.cpp:206`). `UnregisterJob` lets go of the job before
   `ServeJobRemove` takes it out of the schedule. A start that was popped already goes on in between;
   when `UpdateJob` then fails, the rules stay, and the entry left in `active_rules_` makes a later
   `SetRules` of the same id fail.
3. **Early stop** (`JobMonitor.cpp:68`). A stop that was in the monitor's hands when its reservation
   was removed takes out the next reservation with the same id.
4. **Starvation** (`JobMonitor.cpp:178`). Only the root is compared with the clock. In
   `JobPriorityQueue`, `Up` lifts the *later* item and `Down` the earlier one, so that after pushes the root is the
   latest item: the stop of an endless reservation, due never, hides all that come after it. The unit test for
   the order (`JobPriorityQueueTest.cpp:61`) compares the pushed items with their own names. An active reservation can be
   kept from its end in the same way (`EndlessFirst` in `ServedJobsEnd`).
5. **Cleanup** (`RuleManager.cpp:110`). When one OSS cannot be told a rule, the rule is removed where it
   was not set and stays where it was. `SetRulesAsync` models it; `TrackedRulesInstalled` says what holds all the same.
6. **OST numbers** (`Lustre.cpp:184`). The parser of `lfs getstripe` keeps the last digit of an OST's
   number. `RulesAtHome` therefore speaks of OSTs below 10.
7. **Refused reservations** (`Client.cpp:96`). The client only logs the reply and returns true.
8. **Skipped messages** (`Server.cpp:77`, `OSSRuleServer.cpp:71`). After a message of type REPLY the
   server receives without having sent; the socket does not allow it and the process ends. `ServersStayInTurn`
   says that this is the only way out of turn.
9. **Failover** (`OstIpsCache.cpp:45`). An address once cached is never asked for again. After a failover the rules of every new
   reservation on the OST go to the OSS that served it before; `CachedAddressesOwn` and `RulesAtHome` hold for the other OSTs.
10. **Rates** (`RuleManager.cpp:75`). The rates of the OSTs behind one OSS are added in `uint32_t`; a sum that does not fit gives
   the job the remainder. And what a failed `SetRules` has left on an OSS (5) keeps its rate when the job is
   tried again. `RatesAddUp` leaves out both.
11. **Limits** (`JobSchedulerStaticWorkloads.cpp:77`). The sum is compared as a `float`: 16777217 MB/s pass a limit of 16777216.
12. **Existing jobs** (`JobMonitor.cpp:104`). A job that is ACTIVE in the schedule a planner starts with gets its stop queued, but
   `active_rules_` is empty: `RemoveRules` finds nothing, the job becomes DONE and its rules stay on the OSSs. No
   property says that they go.

## 5. What is proved

For every set of jobs, OSTs and OSSs, every mapping of OSTs, every set of faults, every number of calls
and retries, every bound and every queue that satisfies `QueueAssumption`:

| Theorem (module) | Says |
|---|---|
| `ListsHold` (`AdmissionProofs`) | `Admission!Spec => [](ListsSorted /\ JobsAreListed)` |
| `TypeCorrect` (`PlannerProofs`) | `Spec => []TypeOK` |
| `ExclusionHolds` (`PlannerProofs`) | `Spec => []InFlightExclusion` |
| `AdvanceHolds` (`PlannerProofs`) | `Spec => JobsOnlyAdvance` |
| `StopHolds` (`PlannerProofs`) | `Spec => []ActiveJobsHaveStop` |
| `RulesHold` (`PlannerProofs`) | `Spec => []ActiveJobsHaveRules` |
| `ReservationsListed` (`PlannerProofs`) | `Spec => [](ListsSorted /\ JobsAreListed)`, with the monitor at work |
| `StopsInTime` (`ServiceProofs`) | without removals, `Spec => StopsNotBeforeEnd`, whatever fails |
| `FollowsHolds` (`ServiceProofs`) | without removals and faults, `Spec => []LustreFollowsSchedule` |
| `ServiceImplemented` (`ServiceProofs`) | without removals and faults, `Spec => ImplementsService` |
| `TearDownHolds` (`ServiceProofs`) | `Startup!LifeSpec => []NothingInFlightAfterTearDown` |
| `DueHolds` (`ServiceProofs`) | without *lookup* and *exec* faults, all jobs having OSTs, `Startup!LifeSpec => []JobsAreDue` |
| `HeapIsBag` (`QueueProofs`) | `JobQueue!Spec => KeepsEveryItem` |
| `HeapKeepsContract` (`QueueProofs`) | heaps of any size satisfy `QueueContract!Contract` |
| `CachesTyped`, `CachedHold`, `AtHomeHolds` (`OstRulesProofs`) | `OstRules!Spec => []TypeOK`, `[]CachedAddressesOwn`, `[]RulesAtHome` |
| `TrackedHolds`, `RatesHold` (`OstRulesProofs`) | without *remote* faults, `OstRules!Spec => []TrackedRulesInstalled`, `[]RatesAddUp` |
| `RequestTypes`, `TurnsHold`, `EffectsHold` (`RequestReplyProofs`) | `RequestReply!Spec => []TypeOK`, `[]ServersStayInTurn`, `[]CallsTakeEffect` |
| `CallsImplementPromise` (`RequestReplyProofs`) | `RequestReply!Spec => ImplementsRemoteCall` |
| `ClusterTyped`, `NoThreadHolds`, `KnownHolds` (`ClusterProofs`) | `DynScheduler!Spec => []TypeOK`, `[]NoThreadLeft`, `[]KnownOstsStay` |

`ScheduleProofs` holds lemmas on the schedule that several of these use.

**Assumptions.** The ones the modules name: `Null` is no job id, job or rate; `Osts` is finite (a rate
counts OSTs); `MaxTime` is a natural number, `UintMod` and `FloatExact` are positive ones; limits are numbers that `ToFloat` leaves alone; requests and the mapping
of OSTs have their types; OSTs have different uuids, none of them empty; `QueueAssumption`. TLC evaluates all of them in
the runs; `QueueAssumption` is proved for the heap. Some theorems have hypotheses of their own, each one
with a reason in the code. `TrackedHolds` and `RatesHold`: *remote* is no fault, since when `ssh` fails
unnoticed `active_rules_` names OSSs that were never told. `StopsInTime`, `FollowsHolds` and
`ServiceImplemented`: no removals, with which the three are false (findings 2 and 3); the last two: no faults, which leave rules
where the schedule has none (finding 5). These are the conditions of `planner_quiet`, except that the proofs do not need
reservations to end: what an endless one spoils is liveness only. `DueHolds`: a start whose command could not be sent, or of a job without OSTs, is
given up for good (`JobMonitor.cpp:199`), and then nothing waits for the job. Removals, races and commands lost on
their way are allowed there.

**Arguments: the planner.** `TypeOK` is inductive by itself; it includes that a thread has a job in hand unless it
is idle. `InFlightExclusion` is inductive relative to it: all steps but entering and leaving keep what
is held (`MostStepsKeepHolding`), a thread enters only when the job is not in flight, and erases only
its own. `JobsOnlyAdvance` is not obvious from `UpdateJob`, which sets any state. It needs
`StartSeesScheduled`: from the monitor's look at the state to its `UpdateJob`, the job stays SCHEDULED
or is removed (and perhaps submitted anew), because the only step that could make it DONE is one of
the server holding the same job, which exclusion rules out. `ActiveJobsHaveStop` is inductive with
`TypeOK`: an item leaves the queue only into the hands of a thread (`QueuedStays`), and a thread lets
go of an active job only after queueing its stop or stopping it. `ActiveJobsHaveRules` needs
`RulesBeforeActive`: what the monitor has inserted is still there at `UpdateJob`, since the server
erases rules only of jobs it holds. A definition is not empty because `SetRules` refuses a job without
OSTs. `JobsAreListed` rests on facts about the insertion loop of `AddJob` (`InsertAtExists`,
`InsertSortedSorts`, `InsertSortedKeeps`); that there is a place to insert at follows from the
well-foundedness of the natural numbers.

**The promise.** `QuietInv` is the inductive invariant behind `StopsInTime`, `FollowsHolds` and
`ServiceImplemented`. The first two say nothing of the queue, yet nothing less will do: a second item of a job could be
popped at any time. So `OneItemEach` says that an item in the queue is what comes next for its reservation, with its
time, that there is one copy of it, and that nobody else has the reservation in hand, which is where the queue
has to be a bag. `ServerRegisters` and `MonitorKnows` say what the two threads know of the reservation they hold:
its state, the time that has passed, the locals they have read. `RulesFollow` then says for every
job what is on the OSSs and in `active_rules_`, depending on the step the monitor is at (`Placed`, `Tracked`). In the
refinement, `ServeJobSubmission` is a grant, `StartSetsRules` enforces, `StopRemovesRules` releases, `HandleRemovesJob`
forgets, the clock ticks, and every other step is a stutter (`ServiceStep`).

**Start and end.** Around its loop the planner takes the steps of `Planner` and those of `Init` and `TearDown` (`LifeSteps`), so that what
is inductive for `Planner` stays so, and only `InitMonitor`, which fills the queue, is new. `LifeInv` says where the owner and the thread are; from it
and `InFlightExclusion`, nothing is in flight at the end. For `JobsAreDue` the half about stops is `ActiveJobsHaveStop` again.
The half about starts needs `StartsInv`: having popped a start, the monitor comes to the end of it with the rules
of the job, which it then finds ACTIVE, or meets rules of an earlier job of that name (`RulesKept`); what the property allows
the monitor to hold is narrowed down to the steps that lead there (`MonitorStarts`).

**The heap.** `Up` and `Down` are recursive functions, of which nothing is known before their equation is known to have a solution.
`LoopExists` shows that once for every loop over a set whose measure decreases, and `LoopReturns` that what is true where it stops and is
carried backwards over its steps is true of what it returns. All parameters are sets, so that the provers can
instantiate them, and the induction is that of the natural numbers (`Inductive`). `Up` decreases the position, `Down` the distance to the
last one. Swapping keeps the number of copies of each item (`SwapKeeps`, by a bijection of positions); appending and
dropping the last item change one of them by one. `Push`, `Pop` and `Remove` are made of these.

**Lookups.** The inductive invariant `LookupInv` joins the types, `CachedAddressesOwn` and `FindingInv`: the
addresses found so far in the call in progress are of OSSs that serve the OSTs they were found for, or did before a failover that
came after caching (`OldHomes`), unless a uuid was not found. The rest is that `ToUUID` gives an OST its own uuid or none (`ToUUIDOwn`), that an
answer to a question about one uuid is the home of its OST (`AnswerOwn`), and that a cache hit is as good as
an answer (`GetIpOwn`). A failover in the middle of all this either marks the OST as moved or finds no
address cached, and then none found either; afterwards the same has to be known of the jobs that have rules, so that `RulesAtHome` is inductive only
together with `RulesCached`: the OSTs of a job with rules have their addresses cached (`HomeStep`, `FailOverStep`).
`RatesHold` adds what the commands have set: at the addresses found, the sum over a job's OSTs there (`SetAtInstalls`, `SettledRate`),
which a failover of one of them would tear apart.

**Requests.** `DeliveryInv`: a copy on its way was sent with a number no smaller than `left` and has not
been executed; what is answered was. Numbers only go down, so that no copy is sent twice, and the refinement
follows action by action. For `CallsTakeEffect`, `EffectInv` says it not only of successes but of every
answer on its way that will make one (`Answered`): executing a copy again cannot take the effect back, because
nothing else on the same key was executed, and an error leaves everything as it was (`OutcomeEffect`).

**Cluster state.** `Quiet`: while a TearDown that returned was the last call, the thread is at its end and no Init is about to
start one. `KnownInv` adds to `KnownOstsStay` that the OSTs a call has already checked are known (`CheckedKnown`), which
the job's reservation then inherits; without a race of two writes, no step of the cluster state forgets (`StateGrows`), and of the scheduler's
steps only reads change anything of it, namely `reading` (`SchedulerReads`). A read that was torn returns nothing more than is there, so that what
it adds is refusals.

**Only model-checked.** Liveness, which is out of the prover's reach: `ServerReturns`, `ServedJobsEnd`, `ScheduledJobsStart`,
`ServesWhatIsDue`, both `TearDownReturns` and `CallsReturn`. Every other property of a passing run is also a theorem.

## 6. What is not modelled

- Generated code (`message.pb.*`, `oss_server_message.pb.*`, some 7200 lines) and the vendored ZeroMQ
  headers (some 1100): more than half of the lines under `src/src`. Of the messages the kinds of
  requests and replies are modelled, of ZeroMQ the turns of a REP socket and what a closed socket loses.
- Text of commands, messages, logs and tables (`ListJobsFormatter`, `ListReservationsRequestBuilder`);
  `ServeListJobs`, which only reads. The command that is sent again is `raw_msg.data()`, cut off at a NUL; a message
  has one only where it has an empty string.
- `OSTLimitConfigParser` and the schedulers' `Init`: one read of a JSON file before anything runs, here
  the constant `Limits`. `UpdateLimits` and `RemoveJob` of `JobSchedulerStaticWorkloads` are called by unit
  tests only. `MemoryScheduleState::Init` and `TearDown` do nothing.
- `LocalLustre`'s own TBF commands and its `GetOstsForFile` of several files have no caller.
- The two-argument constructor of `JobMonitor` (`JobMonitor.cpp:33-38`), which leaves the waiting time
  uninitialised; only unit tests use it, and the waiting time is not in the model.
- `OssStubRuleSetter` has one address and one socket for all of `RuleManager`'s parallel calls
  (`OssStubRuleSetter.cpp:56`). `RequestReply` has one OSS; more would be undefined behaviour throughout.
- Numbers on the way: `StorageReqParser` leaves the throughput uninitialised when the file has none;
  the throughput plays no part in what `RequestReply` says.
- Crashes. The schedule is in memory, so a crash starts again from nothing, and rules left on the OSSs
  are outside of what the planner knows; `TearDown` leaves them as well.

## 7. Plan

Done: all parts of the planner, its clients, the OSS rule server, the cluster state and the lookups
(sections 2 and 3), and the proofs of all safety properties (section 5). What is left:

1. `TrackedRulesInstalled` and `RulesAtHome` say what the rule manager guarantees by itself; to state
   and prove what remains of `LustreFollowsSchedule` when commands fail.
2. What survives removals: an invariant that names the jobs whose rules were orphaned, and everything else as in `FollowsHolds`.
3. A variant of the heap with one comparison direction, to show which of the findings it removes.
