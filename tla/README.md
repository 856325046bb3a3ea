# placitum-captcha in TLA+

Specifications of the captcha inspector and of the challenge service beside it,
checked with TLC and, where marked, proved with TLAPS. Paths and line numbers
are those of the repository.

## The system

Two programs share an internal Redis and a message bus.

* The **inspector** (`cmd/inspector`) answers requests of the proxy. A NATS
  callback puts each request into a bounded queue (`internal/queue`), a worker
  decides (`internal/decide`): let the client pass, or send it to the challenge
  with a fresh ticket. It charges the client's buckets (`internal/buckets`) and
  reads the list of clearances from a mirror (`internal/livelist`).
* **captcha-http** (`cmd/http`) shows the challenge page, checks the answer with
  a provider (`internal/provider`) and hands out a clearance, using the roster
  (`internal/roster`).

### Inventory

| component | state | operations | called by | what must hold |
|---|---|---|---|---|
| worker pool `internal/queue` | slice of tasks, one mutex, one condition, closed flag, counters | Submit, pop, expiry, sweep, Close | NATS callback, workers, sweeper, main | each request answered once; no lost wakeup; bound; Close empties the queue; counters agree |
| challenge service `cmd/http/verify.go`, `server.go` | none of its own; the ticket cookie | page, api, submit, verify, grant | browsers | the clearances of a ticket are apart; the last page shown can be solved; farms are banned |
| roster `internal/roster` | Redis keys `img:`, `nonce:`, `fail:`, zset `rev`; a mirror of `rev` per instance | Put, Get, Del, Burn, Fail, Revoke, Refresh | challenge service, gate | as above; bans outlive clearances and reach every mirror |
| limits (`within`) | `fail:` counters | within | page, check | no more than N per unit; quiet clients are served |
| buckets `internal/buckets` | one Redis key per bucket, or an in-process ledger | Apply | inspector, event rules of captcha-http | capacity; never more than what was charged; equal to the ledger when calls do not overlap |
| list mirror `internal/livelist` | per list: channel, epoch, seq, contents, hash, snapBad | frames, catch-up, snapshot, resync | gate, `alive` | equals the keeper's list at the epoch and seq it claims; catches up |
| profiles `internal/config`, desired state `internal/desired` | directories of files; the directory in use and its snapshot; what was applied last | Apply, Reload, Watch, Bootstrap | bus, ticker, SIGHUP, main | a snapshot is one whole usable tree; a rejected generation does not cost the accepted one; the last usable one takes effect |
| decision `internal/decide` | none (a function of its input) | Check, Open, PriorAsk, Input, issueTicket | worker | no pass without a clearance where one is required; whoever has one passes; strangers' advice only strengthens |
| handler and event rules `cmd/inspector` | none of their own; they charge buckets and write lists | inspect, evaluate, refuse, fireBucketFull, fireClient, fireOverload | callback, worker | exactly one reply; charges before readings before the verdict; one failed write costs no other |
| audit sink `internal/audit` | bounded buffer, a batch in flight | Add, flush, publish, Close | worker, callback | drops the oldest only and counts them; order within a subject; flushed at the end |
| secrets, tokens, store, protocol, overload, stats, image, audio, web | caches, counters, pure code | | | |

### What is hard here

* **One condition, two kinds of waiters.** Idle workers and submitters waiting
  for room sleep on the same `sync.Cond`; enqueue signals one of them.
* **Tasks are answered outside the lock**, by whichever of three kinds of
  goroutine took them out; budgets are read again after the unlock.
* **A Redis pipeline is not a transaction**, and `Apply` needs two of them.
* **Each request of captcha-http is a chain of store calls**; each may be lost,
  or applied with its answer lost; other requests for the same ticket, pages that
  are reloaded, other instances and restarts come in between.
* **Keys with a TTL** die between two calls of one request.
* **Bans live in three places** (counter, zset, mirror) with three lifetimes.
* **A directory is not a transaction either.** Apply swaps trees by two renames,
  while the ticker and SIGHUP read the same directory file by file; a crash may
  come between any two file operations.
* **The world moves under a request.** A worker charges, reads levels, opens the
  clearance against the roster and the list mirror, fires rules, answers: each may
  fail, and others charge and revoke in between.
* **Stopping is a chain**: drain the subscription (asynchronously), close the pool,
  then the sink; the callback may come late.
* **A list is mirrored over a lossy bus**: frames are dropped by the bus and by a
  full channel, or are older than a snapshot taken meanwhile; packages are kept in
  Redis under their number alone, so a key may hold the one of an older epoch.

Every hazard, with its line and the properties aimed at it, is listed in
`PROJECT.json`.

## Modules

| module | models | composition |
|---|---|---|
| `Pool` | `internal/queue/queue.go` | |
| `Dispatch` | what the pool promises: an abstract dispatcher | `Pool` implements it (`Promise == INSTANCE Dispatch WITH ...`) |
| `Roster` | one command on one key of the roster, and how it fails | operators, extended by the next two |
| `Challenge` | ticket, page, answer, burn, clearance, farm ban, `Refresh` | service, roster, providers, clients, clock |
| `Rate` | `within` over `Fail` | |
| `Buckets` | `internal/buckets/buckets.go`, one bucket | Redis beside the in-process ledger |
| `Mirror` | `internal/livelist/livelist.go`, `wafs.go`, one list | mirror, bus, Redis and keeper (external) |
| `Generation` | `internal/desired/desired.go`, `internal/config/profiles.go` | watcher, readers, file system, controller, crashes |
| `Decide` | `internal/decide/decide.go`, the checks of `internal/config/profile.go`, the threshold of `internal/overload` | operators, no state |
| `Inspect` | `cmd/inspector/handler.go`, `subjects.go`, reads of `internal/store`, `internal/audit/sink.go`, the shutdown of `main.go` | extends `Decide`: callback, workers, buckets, roster and mirror as they are seen, sink |
| `MCPool`, `MCChallenge`, `MCBuckets`, `MCMirror`, `MCGeneration`, `MCInspect` | instances for TLC | |
| `PoolProofs`, `ChallengeProofs`, `RateProofs`, `BucketsProofs`, `MirrorProofs`, `GenerationProofs`, `DecideProofs`, `InspectProofs` | theorems | |

Definitions that carry "Mutant" are slips a run must detect. No specification
refers to them.

### Pool

One action per critical section of `p.mu`, or per step outside it. The slice is
the set `q`, in the order of `turn` (the counter `Accepted` at the append).
`Submit` stamps the task and is then at `collect` (collectExpired), at `enter`
(the checks of Submit) or at `wait` (inside submitWaitLocked); `Admit`, `Reject`,
`Refuse`, `GiveUpWaiting` and `Block` are the ways out of a critical section;
`Take`, `FindNone` and `Budget` are a worker's; `Sweep` the sweeper's;
`CloseStop` and `CloseMark` the two halves of Close. `owed[g]` are the handler
calls a goroutine makes after it unlocks; `Reply` makes one of them and counts it.

* The deadline of a task is `left`, the ticks until `waitLeft` minus
  `min_budget` turns negative; `Tick` decrements it. The clock is read once in a
  critical section.
* A timer callback may already be running when `timer.Stop` returns (`stray`).
* A waiter that gets room after its budget is spent is still enqueued (line 155)
  and then expires; the model does the same.
* Left out: `Task.Fill` (it is in `Inspect`), the io flow counter, the order of
  the replies within one batch of expired tasks, submitting one task twice.

### Challenge

A handler is a request in service; one action per store call, in the order of the
code. A ticket is its nonce, and `due` its sealed expiry. `Outcomes` gives each
call its three fates: answered, never applied, applied with the answer lost.
`Visit`, `LimitIssue`, `Put` are `page`/`widgets`; `Answer`, `LimitVerify`,
`LookImage` or `LookExternal`, `Drop`, `Burn` are `submit`/`verify` and `check`;
`Count`, `Ban`, `Seal` are `grant`; `Trim`, `Load` are the two commands of
`Refresh`; `Restart` is an instance that dies with the requests it serves.

* `within` lets requests pass when the counter fails, `Del` and `Revoke` ignore
  their errors, `Burn` does not: as the code does. `Retreat` is the form's second
  page and the api's error.
* The image's text is an abstract text, the external verdict is a choice of
  solved, wrong, unavailable, and `OnError` says what the last one means.
* Counters saturate one above the limit they are compared with.
* Left out: the bindings of a session to address and browser, the choice of a
  profile, the event rules of a pass or failure (`fired`), the audio reading
  (a `Get`), the status query. The entry in the list of active clearances is the
  field `listed`: recorded, not yet used.
* `Latency` bounds how long one request is served: the sum of its timeouts, which
  are 150 ms for each store call, 3 s for a provider and 10 s for the secrets it may
  fetch first (`cmd/http/main.go:97`). Nothing bounds a client from below: it may
  answer as soon as it has the ticket.
* `page` and `spoilt` are history: the text on the last page of a ticket, and the
  tickets that a lost answer or a restart hit.
* A ticket may buy two clearances. The burn key lives one ticket lifetime from the
  burn; a client that solves at once, and has another request in service as the
  ticket expires, burns a key that has died. No document promises one clearance per
  ticket. `ClearancesApart` states what the code holds on to: the two grants are a
  lifetime of the key apart, and the second one is made at most `Latency` after
  the expiry, so that there is never a third while `Latency <= ChallengeTTL`.

### Rate

One subnet, a store that answers. INCR and EXPIRE go in one MULTI, so it does not
matter which instance counts. `log` is a history of the requests.

### Buckets

A writer is an Apply call in progress. The clock is read once, then SETNX,
INCRBYFLOAT, PEXPIRE are three actions, `Fix` the second pipeline. `Fail` ends a
call anywhere: a prefix of its commands was applied. The variable `ledger` is
what `applyLocal` would hold after the same charges in the order of their
INCRBYFLOATs.

* Levels are whole units and `Lifetime * Rate = Max`: the key dies exactly when a
  full bucket has drained, as `lifetime` computes it.
* Left out: reads without a charge, several buckets in one pipeline, the
  eviction of ledger entries, rounding of floats.

### Mirror

The goroutine of a list (`run`) is at `idle` (its select), or waits for an answer:
of the keeper (`request`), of Redis for a snapshot (`fetch`) or a batch of
packages (`catch`), or has packages in hand (`apply`). `OnStrange`, `OnKnown`,
`OnInline`, `OnBehind` are the ways through onFrame; `ApplyPackage` and `Verify`
take what follows a success as an operator argument, as the code returns to its
caller. `Deliver` is the NATS callback, `Resync` the ticker of the mirror.

* The keeper is not in the repository. Assumed of it, from what the mirror does
  with its messages: it numbers the changes of an epoch from 1; puts the package
  of a change in Redis before it sends the frame; sends ticks with its last
  number; answers a snapshot request with its current contents and place; its
  hashes are those of its list; and an epoch is never used again. What may go
  wrong on its side: a lost frame, a package gone early, a restart with or without
  the list, a failed or malformed answer.
* Frames come in order: late, lost, but not overtaken, as NATS delivers the
  messages of one publisher on one subscription.
* A hash is the set of the words it is the XOR of. A value in `Odd` has another
  word at the keeper than at the mirror, which is what a hash mismatch with equal
  contents comes down to and the reason for `snapBad`.
* One call of snapshot or catchUp never overlaps another (only `run` calls them),
  so `syncing` is always false when read and is left out; so is the hash of the
  frame that catchUp compares at its end, being that of the last package.
* `resync` reads `ready` and sends in one step; a stray resync frame is what comes
  of a snapshot between tick and receipt, and `OnKnown` ignores it.
* `faults` bounds what fails: calls, malformed data, lost packages, restarts.
  Frames are lost without a bound.
* Left out: the readers (`Contains`, `Stats`), Close, the logs of a silent keeper,
  the type and key of a list, the layout of a package, a deployment without Redis.

### Generation

A tree is a function from paths `<<profile, file>>` to a text and a stamp (size and
mtime: every write has a new one). Four directories: `boot` (shipped), `live`,
`.next`, `.prev`. The watcher is at `pc`: `Receive` takes the next entry of the
key, `Stage`, `Write` (a file at a time), `Park`, `Promote`, `ReloadFrom` are
Apply up to the load, `Verified` its success, `NotUsable`, `Discard` (a file at a
time), `Restore`, `PutBack` its way back. `config.Store.read` is `List`,
`ReadProfile`, `AttachPage`, `Fingerprint`, `Store`, one step for each file,
for the watcher and for each of `Reloaders` alike, so that they interleave.
`Start` is `LoadProfiles` and `Bootstrap`; `Crash` may come before any step.

* A text is `Bad` or the part that all profiles must share (roster and limits),
  which is what `read` compares. `Usable` is a tree that loads.
* `Write`, the renames and the reads may fail (`Fault`); removing the process's own
  files does not, and the walk of `fingerprint` is one step.
* `good`, `cut` and the field `still` are history: the last tree that was loaded,
  whether a crash or a failed rename hit a swap, whether a read had its directory
  to itself.
* An operator edits shipped files (`Edit`); nobody else writes below the data
  directory.
* What is stored last is in force, whoever read it: also the mixture of two trees
  that a ticker read across a swap (see "What the qualifications stand for").
* Left out: `Parse` itself (`Generations` are what it lets through, `Skipped` the
  rest), the revision the heartbeat reports, secrets of a generation, the log level
  other than which one is set.

### Decide

Operators that follow the functions of the source: `ValidProfile` is what
`Validate` accepts; `WhenOf` is `RuleFor`; `PriorAsk`, `Open`, `Required`,
`Navigational`, `IssueTicket`, `Check` are those of `decide.go`. A profile
carries the set of uris at or beneath its own path, a page the set it matches.
Left out: texts of cookies, findings and headers, the syntax of names, the choice
of provider.

### Inspect

A message is at `work[t].pc`, in the hands `work[t].by`: of the callback, the pool
or a worker. `Reject` is the callback answering it itself. `Collect`, `Submit`,
`Wait`, `Refuse`, `TooLate` are the ways through `Pool.Submit` on the callback;
`Expire` is a worker or the sweeper that finds it expired, `Begin` a worker taking
it. `Fetch` reads the store and the prior verdicts and opens the clearance;
`Judge` charges the notes, reads the levels and calls `Check`; `Fire` is one of
the three rounds of event rules; `Send` publishes, `Record` is `Sink.Add`;
`Panic` is `recoverInto`. `Flush` and `PublishGroup` are the sink's loop;
`Drain`, `PoolClosed`, `SinkClosed` the stopping in `main.go`. `Turn` lets the
world change: revocations, the mirror behind or not ready, time, draining buckets.

* The callback serves one message at a time (`CallbackOn`). Accepted tasks that it
  finds expired on its way in, or while it waits for room, become its own
  (`Collect`): they are answered by it, before it goes on, and `Close` waits for
  workers and sweeper only (`InPool`).
* A full queue under `drop` is QUEUE_LIMIT, with the overload rules. Every other
  refusal is DEADLINE, without them: hopeless at arrival, out of budget after the
  wait, a closed pool.
* `fill` is what a task finds of the queue as it arrives, in percent; a worker's
  overload rules go by it.
* The network of a client is looked up for the charge and readings, and again for the
  rules; each lookup may find any of the scene's answers, or none. A lookup for a
  list write may fail (`GeoFailed`).
* A scene (constant `Scenes`) fixes what arrives, the queue, and what may change
  around it, so that the interesting profiles are checked without their product.
* `seen` and `felt` are history: the world and the buckets a request was judged by.
* A charge is one step (`Buckets` is the module of what happens inside it); the
  profile of a request is fixed (`Generation` swaps them); any task in the queue may
  be found expired at any time, and mutex, condition and timers are those of `Pool`;
  the mirror is the field `world` (`Mirror` is the module of it).
* Left out: panics while an answer is being published, sealing errors, a geo lookup
  for a list write that finds nothing.

## What is checked

| run | instance | shows |
|---|---|---|
| `pool_wait` | 3 tasks, 2 submitters, 2 workers, 1 place, wait | types and bound; `NoSleepOnRoom`; `SomeWorkerAwake`; `AnsweredOnce`; `DrainedByClose`; `CountersAgree` |
| `pool_drop` | 3 tasks, 1 submitter, 2 workers, 2 places, drop | `NoIdleWorker`; `ImplementsDispatch` |
| `pool_live` | 2 tasks, 1 submitter, 2 workers, 1 place, wait, fair | `EveryTaskAnswered`; `CloseEnds` |
| `ticket` | 1 ticket, 2 texts and a widget, form and api, 2 requests, 1 fault, both limits | `ClearancesApart`; `TicketStaysUsable` |
| `bans` | 2 tickets, 1 fingerprint, farm at 1, 2 requests, bans that lapse, 1 fault, fair Refresh | `BanOutlivesClearance`; `BanReachesEveryMirror` |
| `rate` | 2 per 3 ticks, 5 requests in 8 ticks | `AdmittedWithinRate`; `QuietIsForgiven` |
| `rate_claim` | the same | **violated**: `RefusedOnlyOverRate` |
| `bucket_race` | 2 writers, charges 1 and 3, capacity 3, 1 fault, calls up to 1 tick | `AtMostFull`; `NeverOvercounts`; `OneAtATime` |
| `bucket_claim` | 2 writers, no fault, calls within a tick | **violated**: `OneSum` |
| `mirror` | 2 values (one odd), 2 expiries, 2 epochs of up to 3 changes, channel of 1, batches of 2, 1 fault, fair | `SeesKeeperList`; `HashIsOfList`; `Converges` |
| `generation` | 2 profiles, 3 generations (one unusable), 1 ticker, 1 edit, 2 published, 1 crash or failed call, fair | `NoMixedTree`; `StillReadIsWhole`; `AcceptedOnDisk`; `LastTakesEffect`; `FollowsTree` |
| `inspect` | 10 scenes of 1 to 4 messages, 2 workers, a queue of 1 or 2 under wait or drop, batches of 2, buffer of 3, 1 fault, 2 turns, fair | `NoPassWithoutCause`; `ClearedPasses`; `HotIsChallenged`; `EventsAreWritten`; `RecordsAccounted`; `RecordsInOrder`; `FlushedByClose`; `EveryReplied` |

### The two disagreements

* `rate_claim`: profiles write a limit as a rate (`verify_per_subnet: 60/m`,
  `profiles/default/profile.yaml:60`). `Fail` (`roster.go:157`) renews the key's
  TTL with every hit, a refused one too, so the counter starts anew only after a
  whole minute of silence. A subnet at a steady 30 requests per minute is refused
  after two minutes, and stays refused until it pauses. The direction that protects
  the service holds: `AdmittedWithinRate`.
* `bucket_claim`: "one writer for all instances and one sum for all of them"
  (`README.md:22-23`). When a bucket had drained or overflowed, Apply SETs the key
  in a second pipeline (`buckets.go:228-249`) to a value computed from the first.
  What another writer added in between is lost. What holds: the sum is never too
  high (`NeverOvercounts`), never above capacity at rest (`AtMostFull`), and exact
  if calls do not overlap (`OneAtATime`).

### What the qualifications stand for

Several properties hold only with a condition. Without it TLC finds these runs of
the code. No document of the repository denies them, but for the observe mode (the
last but one) and, as far as "replaces" goes, `FollowsTree`:

* `StillReadIsWhole` needs `still`. A reload that reads while Apply swaps the
  directory and puts the old tree back may store files of the rejected
  generation, or miss a profile, under the fingerprint of the restored tree; no
  later tick reads it again.
* `FollowsTree` and `LastTakesEffect` say of the snapshot in force that it has the
  fingerprint of the directory in the end, and its files unless the tree was moved
  under the read (`InStep`). Without any fault a ticker may read some files before
  the swap and some after it, take the fingerprint of the new tree
  (`profiles.go:283`) and store after Apply. No later tick finds that, so a mixed
  snapshot stays in force until the tree changes again, although "the controller
  replaces them with generations" (`README.md:38-39`). What is found at a tick is
  an older snapshot, stored last.
* `ClearancesApart` allows a second clearance of a ticket (see Challenge).
* `TicketStaysUsable` is about the last page of a ticket. The roster keeps one text
  a nonce, so another page or widget request replaces the text of the page before
  (`image.go:35`), whose answer is then wrong.
* `AcceptedOnDisk` needs `~cut`. A crash between the two renames leaves no live
  directory; `Bootstrap` does not look at `.prev`, and the next Apply deletes it
  first. Until the generation comes again, the shipped profiles are in force. A
  crash while a rejected tree is removed may leave a part of it that
  `Bootstrap` accepts.
* `LastTakesEffect` needs `faults = 0`: a failed Apply is not retried before the
  next publish or start. It also needs readable shipped profiles: without them the
  process does not start, even when an applied generation is there.
* `FlushedByClose` and `EveryReplied` leave out the callback: `Drain` of the
  subscription returns at once, so a late message may be recorded in a sink that is
  closed. It is not only about refused ones: an accepted request that the callback
  found expired while it submitted another (`queue.go:94`, `137-141`) is not
  waited for by `Close` either (`queue.go:233-240`) and may be neither answered nor
  recorded when the process ends. `DrainedByClose` exempts the same ones.
* `EveryReplied` is about the attempt: a publish that fails is not tried again.
* `EventsAreWritten` leaves out answers that are errors: a geo lookup that fails
  ends a round, what was written before it stays.
* `NoPassWithoutCause`, `ClearedPasses` and `HotIsChallenged` are about the
  modes and profiles that ask at all. In observe mode a request is charged and its
  rules write lists. Without the store, the buckets, the list, or geo for a list
  write, the answer is an error (`handler.go:134-141`, `166-176`, `225-234`,
  `decide.go:177`), although "the inspector always answers `allow`"
  (`README.md:33`, likewise line 46 and `profiles/observe/profile.yaml:1`).
* An advice that several prior rules accept charges its note once for each, and a
  negative `ban_at` passes where `captcha_at` is 0 (`profile.go:1120`) and then
  always fires: `Decide` does as the code does.

### Bounds, and why they are enough

* Pool. Every race in the code is between at most a submitter that waits, another
  that takes the room, a worker that goes to sleep and one that pops; two of each
  and a queue shorter than the number of tasks have them all. Budgets are "hopeless
  at arrival" and "one tick to spare"; a longer one only adds ticks. `drop` is
  checked with one submitter, as `main.go` has one NATS callback, and a longer
  queue, so that tasks pile up. That `NoIdleWorker` holds under `wait` and with
  any number of submitters is proved.
* Challenge. Two handlers race; a third only repeats what a finished one can do.
  The clock runs two ticket lifetimes so that ticket, text, burn key and counters
  die in every order. One fault each run: the properties allow for it, and a second
  one costs a factor of the state space. `ticket` has no fingerprint and `bans` no
  image, since `Count` and `Ban` touch neither text nor burn key. In `bans` the
  farm threshold is 1, so that each clearance bans: the order of two bans is the
  interesting case. Its clock outlives the first ban, so that bans
  lapse, and are renewed by the other ticket, around Trim and Load.
* Rate. Five requests, with a limit of two, hold a full window, a refusal and a
  new window.
* Buckets. Charges 1 and 3 with capacity 3 overfill it by one, by several
  and refill a drained one; the clock starts away from 0 so that a key without
  a base shows; the horizon exceeds a lifetime, so keys die at every point.
* Mirror. Three changes with batches of two: a gap within a batch, at its end and
  beyond it. Two epochs: an old package under a new number, an old snapshot, an
  old frame. A channel of one is full whenever a frame is not yet read, the worst
  case for 1024 places; a longer one only holds frames that are late as well. The
  changes (`MCEdits`) add, remove, add again and prolong.
* Generation. Two published entries are a generation after a generation, after a
  broken one, or the same again; the ticker's read meets every point of a swap.
  One mishap hits each step once; a second one repeats the first on a state that
  one mishap and a restart reach as well. Trees of one to three files: a profile
  with and without a page, a broken page, a broken second profile.
* Inspect. Each scene is a profile with what it needs: a gated page (bindings,
  list, grace), a foreign cookie, buckets two clients share, networks that change
  between lookups, rules of every round, inline and observe, two subjects in one
  batch, stopping. A queue of one is full with one task, so that the next message
  waits, is refused, or collects it. Two workers interleave
  every pair of requests; a buffer of three with four records drops, a batch of
  two is cut off within a subject.
* Deadlock is checked in the runs of Pool, Challenge and Mirror. In Rate, Buckets,
  Generation and Inspect the clock, the faults and the messages run out, so their
  cfgs turn it off.
* Symmetry is used where no operator or constant tells the values apart, and
  never in a run with a liveness property.

### Fairness

* `Pool!FairSpec`: weak fairness of each goroutine's next step, each handler
  call, the timers, the sweeper's ticker, the clock, and the second half of Close
  once the first ran. The Go scheduler is preemptive, the handler's calls carry
  timeouts, and `sweep` runs on a ticker. Nothing obliges anybody to submit
  or to close. `sync.Mutex` has a starvation mode, but no property needs it:
  a submitter whose room is taken again is bounded by its own deadline.
* `Challenge!FairSpec`: weak fairness of both commands of `Refresh`, which `Watch`
  (`roster.go:34`) calls on a ticker as long as the instance runs. Clients,
  handlers and the clock are not fair.
* `Mirror!FairSpec`: weak fairness of the list's goroutine (its calls carry
  timeouts), of `resync`'s ticker, and of the keeper's ticks, which the mirror
  expects in `silenceAfter`. Changes, losses and restarts are not fair.

* `Generation!FairSpec`: weak fairness of `Start` (the process is restarted), the
  watcher (`Receive`, `Apply`), the ticker (`Reload`) and every step of a read. Not
  of the controller, the operator, crashes or failures.
* `Inspect!FairSpec`: weak fairness of workers taking and serving tasks, since their
  calls carry timeouts, and of the callback with the answers it has in hand, until
  the process ends. It need not take another message, and the sink, the world and
  the stopping are not fair.

## What is proved

All theorems hold for every value of the constants that meets the module's named
assumption.

| theorem | statement | argument |
|---|---|---|
| `PoolProofs!TypeCorrect` | `Spec => []TypeOK` | the bound on `q` is the guard `Room` of both ways to append |
| `PoolProofs!SubmittersSeeRoom` | `Spec => []NoSleepOnRoom` | part of `WakeInv`: each step that makes room, and Close, wakes all sleepers |
| `PoolProofs!NoLostWakeup` | `Spec => []SomeWorkerAwake` | `WakeInv`, with `Placement` and `DoneIsDrained`: while a submitter sleeps the queue is full, so a Signal at an append finds only workers asleep, or one is awake |
| `PoolProofs!WorkIsShared` | `Spec => []NoIdleWorker` | `WorkInv`: who sleeps is in pop and owes nothing, so a signalled worker takes part in the count at once. By `NoSleepOnRoom` no submitter sleeps while there is room, so the Signal of an append reaches a worker, however many submitters there are |
| `PoolProofs!ExactlyOnce` | `Spec => []AnsweredOnce` | strengthened by `Placement` and `FreshUnanswered`: a task is in the queue, in one pair of hands or in one owed call |
| `PoolProofs!CloseDrains` | `Spec => []DrainedByClose` | `Past`: the place of a task says whether it was accepted. Only who is in line or evaluated was, so behind a Close that found the queue empty an accepted task has its answer or is still owed it by the submitter that found it expired |
| `PoolProofs!CountersCount` | `Spec => []CountersAgree` | `CountInv`: each counter is the cardinality of a finite set, of the tasks with the answer it counts or of those with a turn in the queue; who was served has a turn, who was refused has none. Every step adds at most one task to these sets |
| `PoolProofs!PoolDispatches` | `Spec => ImplementsDispatch` | every step, action by action, is a step of `Dispatch` or leaves its variables alone; what leaves the line in a step was in it, by `Past`, and the answer it is then owed fits its history |
| `ChallengeProofs!TypeCorrect` | `Spec => []TypeOK` | |
| `ChallengeProofs!GrantsApart` | `Spec => []ClearancesApart` | `OnceInv`: a handler that checks an answer came before the expiry of its ticket (`SessionInv`); a grant, given out or on its way, is at most `Latency` after that, and the key of its burn or of a later one lives one `ChallengeTTL` from it (`GrantInv`); so two grants of one ticket are apart (`ApartInv`). The key step `OnceBurn`: if `Burn` succeeds, every earlier key of the ticket has died. Nothing is assumed of the client's speed, nor of `Latency` |
| `ChallengeProofs!UsableUntilExpiry` | `Spec => []TicketStaysUsable` | `UsableInv`: behind a burn key of a ticket not spoilt there is a clearance or a handler about to seal one (`BurnedFor`); the text on the last page is the one in the store and lives as long as the ticket, or was taken by a handler on its way to `Burn` or past it (`TextStays`); expiries are set as they are issued (`IssuedInv`) |
| `ChallengeProofs!BanLastsAsLong` | `Spec => []BanOutlivesClearance` | `BanInv`: a ban on its way (`PendingBan`) or written (`GrantedBan`) lasts as long as the clearance behind it. Whoever overwrites the score read the clock at most `Latency` ago |
| `RateProofs!NeverOverRate` | `Spec => []AdmittedWithinRate` | `Counted`: as long as a window is not over for the last hit, the counter has counted all that passed in it, because the key dies `Per` after the last hit and not after the first |
| `RateProofs!QuietAlwaysForgiven` | `Spec => []QuietIsForgiven` | the same lifetime read the other way: after `Per` without a hit there is no key |
| `BucketsProofs!TypeCorrect` | `Spec => []TypeOK` | |
| `BucketsProofs!NeverLeftOverfull` | `Spec => []AtMostFull` | `FullInv`: an overfull live key has a writer that is going to set it back. Its own clock reading is not later than the clock, so what is overfull now was overfull to the writer that made it so. All writers read one clock |
| `BucketsProofs!NeverTooMuch` | `Spec => []NeverOvercounts` | `OverInv`, while no call failed and no charge is negative: a key above the ledger has a writer that overfilled it and the ledger with it (`Overfilled`), and whatever a writer is going to SET is at most the ledger (`Target`), both but for `Slack`, what drains while a call lasts |
| `BucketsProofs!SameAsLedger` | `Spec => []OneAtATime` | `AloneInv`, while no call overlapped another or a tick and none failed: at rest key and ledger have the `SameLevel` (one sum, or both drained), and between the commands of the only writer (`OnlyWriter`) what it knows is what both hold. The key dies exactly when a full bucket has drained (`LifetimeDrains`), so a dead key is a drained ledger. One clock, as above |
| `MirrorProofs!TypeCorrect` | `Spec => []TypeOK` | the batch in hand ends at the number it was asked for |
| `MirrorProofs!SeesKeeperListAlways` | `Spec => []SeesKeeperList` | `AllKnown`: the place of the mirror and every frame, package and snapshot reference lie in what the keeper has said so far (`Known`), where its history no longer changes (`KnownKept`). The key step `AppliedKnown`: a package that passes the epoch and number test turns the list at `seq` into the one at `seq + 1` |
| `MirrorProofs!HashFollowsList` | `Spec => []HashIsOfList` | `HashInv`: the hash is that of the list in hand and, once snapshots are given up, some value of this epoch is one that keeper and mirror hash differently (`HadOdd`); a toggle puts in what is out and takes out what is in |
| `GenerationProofs!TypeCorrect` | `Spec => []TypeOK` | `TInv`, which needs `DInv` and `RInv`: the directory that a step of Apply or of a read works on is there |
| `GenerationProofs!NeverMixed` | `Spec => []NoMixedTree` | `Stamps` of `DInv`: what Apply writes carries the stamp of its own `Stage`, and a directory changes hands whole |
| `GenerationProofs!AcceptedIsKept` | `Spec => []AcceptedOnDisk` | `GoodAt` of `DInv` says at each point of Apply in which directory the accepted tree lies; only the marked steps (`cut`) lose it |
| `GenerationProofs!SnapshotsAreWhole` | `Spec => []StillReadIsWhole` | `RInv`: a read that was not disturbed has exactly the files of the profiles it has left behind (`ReadBut`), so at its end those of the whole tree |
| `DecideProofs!StrangersOnlyStrengthen`, `OnlyNamedWeaken` | whose advice can skip a challenge or charge a bucket | from `ValidPrior` and `Accepts` |
| `InspectProofs!TypeCorrect` | `Spec => []TypeOK` | `TInv`: rules and notes of a request are those of its profile, and a request is answered exactly as it leaves "send". The sums that are charged are integers by `DecideProofs!SumIsInt` |
| `DecideProofs!ObserveNeverBlocks`, `OkMeansCleared`, `CidIsKnown` | of `Check` alone, what observe mode answers (the inspector around it has three errors more); every path to "OK"; a rule that lists a clearance has one | cases of `Check` |
| `InspectProofs!NobodyPassesUncleared`, `TheClearedPass`, `TheHotAreAsked` | `Spec => []NoPassWithoutCause`, `[]ClearedPasses`, `[]HotIsChallenged` | `IInv`: a request that was judged is `Broken` (an error of its own), or its clearance was opened against the world of one moment (`OpenedAs`), what was read of the buckets is what they held and what was not read did not matter (`ReadAs`), and its answer is that of `Check` (`CheckedAs`); rounds and failures after it keep that |
| `InspectProofs!EndedIsFlushed` | `Spec => []FlushedByClose` | `Closing`: once the pool is closed only the callback has requests; once the sink is closed the batch is empty and what is pending is the callback's. What it has in hand, accepted tasks it collected among it, is nobody else's (`CollectStep`) |
| `InspectProofs!NoRuleIsLost` | `Spec => []EventsAreWritten` | `WrittenInv`: of the rules due in the rounds that are over, at most as many were missed as calls failed so far |
| `InspectProofs!NoRecordVanishes` | `Spec => []RecordsAccounted` | `SinkInv`: what is stored, in the batch and pending are records taken and none that was lost, and their lengths with the losses add up to what was taken |
| `InspectProofs!OneSubjectInOrder` | `Spec => []RecordsInOrder` | `SinkInv`: stored, batch and pending are one line, in turn within each subject; `Grouped`: a batch falls into the group that is published and the rest, each in its old order |

### Data without induction

What the code computes by a loop is written so that the provers can reason about
it: a selection (the rules of a moment, the records of one subject) is an
enumeration of its places in their order (`Picked`), and a sum is
`SumFunctionOnSet`. Where a fact about them needs an induction, `DecideProofs`
makes it by a smallest counterexample (`Smallest`, from the well-foundedness of `<`):
`SumIsInt` says that a sum of integers is one, and `NotesAreNumbers` that what the
notes of a request add to a bucket is.

### Only model-checked

Every invariant and action property of the passing runs is a theorem. What remains
with TLC is liveness: `EveryTaskAnswered`, `CloseEnds`, `BanReachesEveryMirror`,
`Converges`, `LastTakesEffect`, `FollowsTree`, `EveryReplied`. Liveness under
fairness and ENABLED are out of the prover's reach.

## What is left

In order of importance.

1. A composition of `Inspect`, `Mirror` and `Challenge` that follows one clearance
   from its grant through the keeper's list to its acceptance; today each module
   has its own picture of the next one.
2. The event rules of captcha-http (`fired` after a check) and the entry in the
   list of active clearances with its failure.
3. `Buckets` with several keys, reads without a charge, and the ledger's eviction.
4. The secrets cache and its TTL.
5. Proofs: the safety half of the liveness properties, i.e. the invariants that
   say which step is left to take wherever they have not been reached; that a part
   of one module promises what the next module assumes of it.

## Not modelled, and why

Sealing of tickets and clearances and the RSA envelope of secrets (cryptography),
drawing and speech (pure), parsing of configuration and of YAML (its results are the
assumptions on the constants; the checks of a parsed profile are `ValidProfile`),
wire formats, the templates and browser script, the heartbeat and the probe, the
statistics. The in-memory roster of `store: memory`
serves one process under a mutex; the model is of the Redis roster.

## Running

    tlc -config PoolWait.cfg MCPool      # each run names its module and cfg
    tlapm PoolProofs.tla
