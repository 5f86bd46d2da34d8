# Heavy: specifications, model checks and proofs

Heavy is a reverse proxy that challenges clients with a proof of work while the
server behind it is overloaded. This directory holds TLA+ modules translated from
its source, TLC configurations that check them on small instances, and proofs,
checked by TLAPS, of what matters most for every value of the constants.
`PROJECT.json` lists components, runs, mutants (a bug per property that the
property finds), the source lines behind every definition, findings, hazards and
theorems.

    tlc -config breaker.cfg CircuitBreaker        # one of the runs below
    tlapm CircuitBreakerProofs.tla                # one of the proof modules

## The system

One process, one tokio runtime. `main` opens the access log, spawns the SIGHUP
task, the debug socket and the trainer, and then accepts connections; every
connection is a task, every request a call of `handle_request` in it. The parts
share state in memory only.

| part | source | state | operations |
|---|---|---|---|
| circuit breaker | `src/src/breaker.rs` | mutex around position (Closed, OpenCooldown, Open with instants) and average latency; an atomic copy "tripped" | `update` (try_lock, so never waits), `is_tripped` (lock-free) |
| request handling | `src/src/main.rs` | none of its own between requests | record features, route (own path / challenge / proxy), time the answer, feed the breaker, log |
| authenticator | `src/src/challenge.rs` | none: keys and lifetimes only | `make_puzzle`, `redeem_solution`, `verify_token` |
| challenge page, worker | `src/templates/challenge.html`, `src/web/worker.js` | the puzzle of the page; the browser's cookie | solve, submit, reload |
| recorder | `src/src/ml/recorder.rs` | mutex around a ring buffer and at most one sample in progress | `record`, `start_sample` (flushes the previous one) |
| debug socket | `src/src/socket.rs` | a task per client | `hello`, `sample n` (waits on a one-shot channel) |
| access log | `src/src/access_log.rs` | unbounded channel, open file | `append`, `reopen`; a writer task |
| signal task | `src/src/main.rs` 75-87 | the SIGHUP handler | sends `Reopen` |
| trainer | `src/src/ml/train.rs` | lock on the data directory | creates the directories, takes the lock once, keeps it |
| whitelist, client address, header filter, features, configuration | `whitelist.rs`, `main.rs`, `ml/features.rs`, `config.rs` | none after start | pure functions of a request or of files |
| whitelist builder, smoke test | `src/whitelists/build.py`, `src/smoke-test.sh` | none | offline scripts |

What is hard about each, and what makes it correct:

* **Breaker.** The clock is read before the mutex is tried, so a handler works with
  an instant older than what another one has already written; samples are dropped
  under contention; three configurations panic inside the mutex; and the flag others
  read is a copy. Correct: flag and state agree, no delay is cut short, delays back
  off within bounds, valid configurations never panic, a calm upstream gets the
  breaker closed again.
* **Request path.** The decision to challenge is taken before an await of any length
  and the report is made after it, or never if the client leaves; a submission waits
  for its body without a timeout. The breaker moves
  only when proxied requests finish, and being open is what keeps requests from
  being proxied. Correct: only proxied requests count, an open breaker sheds load,
  every request ends that its client does not stall, and the breaker gets closed as
  long as anything feeds it.
* **Authenticator and page.** No server state: everything follows from timestamps,
  two clocks and bindings. Timestamps are cut to whole seconds and compared with
  fractions, tabs overwrite one another's cookie, answers get lost, submissions are
  repeated or solve nothing, addresses change, the wall clock goes back. Correct: no
  entry without work, one token per puzzle, no challenge loop, no false rejection.
* **Recorder.** Clients compete for one slot; a size that overflows a vector's capacity
  panics under the mutex, after which every request panics in `record`. Correct: buffer
  and samples are gapless, no client waits on a channel that is gone.
* **Access log.** Entries and `Reopen` share a channel; logrotate renames and signals
  at any time; writes, reopens and the process fail. Correct: order over all files,
  nothing vanishes unaccounted, a signal takes effect.
* **Start-up.** Several processes on one machine share a debug-socket path, a data
  directory and perhaps an address; each looks, removes and binds in separate system
  calls, and each may die at any time and leave its socket file. Correct: one
  trainer, a second start harms nobody, a restart gets its socket back.
* **Proof of work.** A JavaScript worker and a Rust verifier must agree on offsets
  into one keystream, one counting without a bound, the other in 32 bits. Correct:
  what the worker finds is accepted, and nothing cheaper is.
* **Inputs of a request.** Headers come in several lines, in several forms, some
  unreadable, written by a chain of proxies, a browser and a client that may forge
  what only proxies should write. Correct: the client's own
  address, a challenge exactly when it is due, no header lost that was not about
  one connection.

## Modules

`CircuitBreaker` is the breaker alone; its handlers feed it at will. `Gateway`
EXTENDS it with the request path: same breaker actions, driven by requests.
`Recorder` is recorder and debug clients, and instantiates `SamplePromise`, the
abstract specification of the same without slot, ring buffer and mutex.
`Authenticator` is server and browser; `MCAuthenticator` adds the symmetry TLC uses.
`AccessLog` is channel, writer, signal task and logrotate, and instantiates
`LogPromise`, what its callers may rely on: one sequence of entries. `Startup` is several
processes on one machine. `ProofOfWork` is the worker's search against the server's
verification. `Request` is what is read out of one request, as operators; `Inputs`
EXTENDS both and lets inputs grow element by element; `MCInputs` has the values TLC
gives its constants. Each `...Proofs` module EXTENDS the module it is about.

### CircuitBreaker (`breaker.rs`)

`position`, `tripped_at`, `cooldown` and `prev_open` are the fields of `Position`
(`cooldown` is what line 117 recomputes as `cooldown_factor * min_open_duration`: the
drawn delay, as the configuration is never replaced while the process runs, or `NaN`
under a minimum of zero). `tripped` is the atomic, `raised` the history of when it was
set. `pc[h]` cuts `update` at
its shared accesses: read the clock (`Measure`), try the mutex (`Lock`,
`DropSample`), average and state machine (`StayClosed`, `Trip`, `KeepCooling`,
`CooldownToClosed`, `CooldownToOpen`, `StayOpen`, `OpenToClosed`, `Panic`), store
the flag (`StoreFlag`), release (`Unlock`). `calm` is the environment: from some
moment on only low latencies are measured.

Abstractions. Instants and durations are whole numbers. `Smoothed` is every value
between average and sample, which covers every smoothing factor that is finite and not
negative; `Jittered` every
value from one to two times the base (the end point that `Uniform` excludes is
included); `Faded` every whole number between the neighbouring halvings. With a
half-life of zero the previous period is gone after any time, and after none the decay
is `0 / 0`, which `clamp` lets through as the code's does. `MinOpens` and `HalfLives`
make the configured minimum and half-life a choice of the initial state, zero and more
than the cap included because `config::load` accepts them. It accepts settings that
are negative or not finite as well (a negative smoothing moves the average away from
the samples; a negative minimum panics like zero): those are left out. `MaxLag` bounds
how long a handler stays in `update`, as the guard of `Tick`; `NoEarlyReset` speaks of
it, because the delay counts from an instant that is read before the mutex is tried.

### Gateway (`main.rs`)

`stage[h]` is where `handle_request` is: arrived, waiting for the upstream or for the
body of a submission, answered, feeding the breaker. `Challenged` is the condition of
lines 279-286, with everything that exempts a request (whitelist, `Sec-Fetch-Mode`,
valid token) folded into its kind; `challenged` is `RouteResponse.challenged`, and
`Proxied` the guard of line 209, which with the path decides between `Report` and
`ReturnUnreported`. `source` is history: who gave the response, which the guard has to
find out. `Feed` is one step of `CircuitBreaker!Update`; the response leaves with the
last one. `ClientGone` is hyper dropping the handler with its connection, possible at
the two awaits (the upstream, and `req.collect()` in line 383, which has no timeout),
because everything else runs without one.

### Recorder (`recorder.rs`, `socket.rs`)

`record` and `start_sample` run under one mutex from end to end and are one action
each. A request is its number. `StartSamplePanics` is `Vec::with_capacity` on a size
above `MaxAlloc`, whose bytes overflow (a smaller one that the allocator refuses
aborts the process and is left out): the previous sample has already been flushed, the mutex is
poisoned, and from then on no request is recorded (in the code the handler of each
request panics at `recorder.rs:53`, so that one `sample 18446744073709551615` on
the debug socket stops the proxy). A client that waits does not read, so it cannot
hang up before its answer is written (`Answer`, which may fail).

### Authenticator (`challenge.rs`, `main.rs`, `challenge.html`)

A puzzle is timestamp and address (which stands for address and user agent: both
are hashed the same way); a token is the puzzle it was minted from. Keyed hashes
are abstracted to what they bind: `Redeems` and `VerifyToken` compare the address
with the one of the request. Offsets are abstracted to the puzzle they solve, if any:
`Redeems` compares it with the one that the submission's timestamp and address make
(`verify_proof_of_work`; `ProofOfWork` is about the search itself), and `Posts` lets a
client submit what solves nothing or another puzzle. `tab` is the life of the page in each tab, `jar` the
cookie, `skew` the distance of the server's clock from real time. Time passes in
ticks, `Second` of them to a second: `make_puzzle` truncates to whole seconds
(`WholeSeconds`), `is_fresh` compares fractions, so that a puzzle and its token are up
to `Fraction == Second - 1` ticks older than they are. The premises of
`NoChallengeLoop` and `NoFalseRejection` leave room for it; without that room both
fail. `SolveTime` bounds load, solve and
reload of a page; `Tick` waits for pages at work. One disturbance (move or clock
set back by one tick) per behaviour.

### AccessLog (`access_log.rs`, `main.rs`)

The channel is `queue`; entries and files are numbers. `Write` is one turn of the
writer's loop, with its failures: a failed write loses its entry (tokio's file
forgets its buffer then), a failed reopen keeps the old file. `Opens` creates the
file if the name is free. `Register` is a task of its own that runs some time after
`Start`; a signal before it kills the process (`SighupKills`). `refused` is history:
an attempt made since the latest signal failed. Entries are atomic:
a torn line is not modelled. `lost` is bookkeeping for `NothingVanishes`, so that
property says that rotation, reopening and restarting lose nothing, and that
nothing is written twice; what a death costs it does not say.

### Startup (`main.rs` 51-107, `socket.rs` 11-25, `train.rs`)

`main[p]` is where a process is: `Boot`, then `Listen` or `StartFails` (invalid
configuration, access log, address taken), until `Die`. `Listen` binds and spawns
both tasks, in that order. `Check`, `Remove`, `BindSocket` are the three system
calls of the debug socket's set-up; each panic ends only its task (`failed`).
`MakeDir`, `LockDir`, `LockFails` are `lock_data_dir`; the lock lasts as long as the
process, because the task keeps the file and never drops it. `node` is what has the
socket's path: a process's socket, a `stale` one, or a regular file, which the code
leaves alone. The operating system is modelled by what it promises (one listener
per address, one holder per lock). Permissions are one flag, `writable`, for the
data directory; a socket path that cannot be written is left out. One path, one data
directory: processes that share neither do not interact.

### ProofOfWork (`worker.js`, `challenge.rs` 170-207)

`keystream` is what the nonce expands to: an arbitrary function from word numbers to
leading zeros, as long as a 32-bit block counter reaches. A submission is a sequence
of offsets up to and including the first number that is no `u32` (`Words32`), which
stands for all the larger ones. `Scan` is one turn of the
inner loop; `Leading` cuts the counter to a word as line 26 of the worker does
(`Uint32Array`), `Offset` does not, as line 30 does not. `VerifyProofOfWork` is the
method of that name, `Parses` serde's refusal of what is no `u32`. That two
implementations of ChaCha8 compute the same keystream is assumed, by having one.
`progress` messages are left out.

### Request and Inputs (`main.rs`, `whitelist.rs`, `config.rs`)

A header map gives each name the sequence of its values, as `HeaderMap` does; a value
is what splitting it gives, `None` where the code's `to_str` or `parse` gives up.
`ClientIp`, `ParseForwardedFor`, `IsSubresource`, `CookieValues` and `FilterHeaders`
are the functions of those names; `Resolve` is the macro of `load`, `LoadWhitelist`
the merge of includes, `IsExempt` the two look-ups of the whitelist, with addresses
and networks as bit sequences, a pattern as the set of paths it matches, and a rule that
does not parse as one of the kind `invalid`, on which `load` panics (`CannotLoad`).
`Route` is the decision of `route_request`, from the settings to the answer's kind. The form
of a `for=` says only what the three attempts of lines 491-504 tell apart.

`Inputs` starts from an empty request of one topic and adds hops, cookies, modes,
rules, fields and nominations in every order; a list header gets more elements in a
new line or at the end of its last one, as proxies and browsers do. `ClientSends`
comes before the proxies: any header of theirs, with an address, an entry that does not
parse or a parameter without an equals sign. Beside each it
records what the sender meant (`meant`), in terms that do not use the operators of
`Request`. Its actions are the environment; the properties relate the two. A rule
comes with what it is meant to exempt: the paths a pattern names, or the addresses
that agree with a network in all its bits (`MeansPaths`, `MeansNet`), which
`IsExempt` has to come to by common prefixes. `SourceFound` has as its premise (`Told`)
that what the client sent is overwritten by the first proxy or looked at after it:
behind a proxy that appends, a client can name any address, as `main.rs:445-447` says.
`HeadersKept` has its own list of the headers of one connection, the one the test of
lines 564-573 expects.

## Runs

| run | instance | distinct states | shows |
|---|---|---|---|
| `breaker` | 2 handlers, minimum delays 0, 1, 3, 4 with cap 3, half-lives 0 and 2, lag up to 2, clock to 3 | 365 k | `FlagMatchesPosition`, `NeverPoisoned`, `CooldownWithinBounds`, `NoEarlyReset`, `ResetsWhenCalm`, and that `IInv` holds before it is proved |
| `breaker_backoff` | 1 handler, cap 5, clock to 11 | 848 k | `BackoffGrows`, `BackoffBounded` over several trips in a row |
| `breaker_zero_delay` | 1 handler, minimum delay 0 | violation | finding: a zero delay leaves the breaker tripped for ever |
| `breaker_zero_half_life` | 1 handler, half-life 0, minimum delay 1 | violation | finding: so does a half-life of zero, after a second trip |
| `gateway` | 2 handlers, all kinds of requests, delays 0 and 1 | 93 k | `OnlyProxiedFeeds`, `EveryRequestEnds`, `OpenSheds`, `ResetsWhenFed` |
| `gateway_starved` | 1 handler, plain requests only | violation | finding: with nobody to feed it, the breaker never closes |
| `recorder` | 3 clients, sizes 0, 1, 3 and one that panics, capacity 3, 6 requests | 13 k | `RecentIsNewest`, `SampleIsContiguous`, `WaitingHasSender`, `ShortOnlyIfFlushed`, `PromiseKept`, `SampleArrives` |
| `auth` | 2 tabs, 2 addresses, 2 ticks to a second, puzzles live 2, tokens 4, clock to 6 | 538 k | `OneTokenPerPuzzle`, `NoFreeEntry`, `NoChallengeLoop`, `NoFalseRejection`, `IInv` |
| `auth_cookie` | the same | violation | finding: the cookie outlives its token |
| `accesslog` | 4 entries, 3 rotations, 2 deaths, 2 reopens in the channel | 68 k | `LogInOrder`, `NothingVanishes`, `PromiseKept`, `EntriesSettle`, `RotationTakesEffect` |
| `startup` | 3 processes, 2 addresses, every state of path and directories | 144 k | `OneTrainer`, `SomeoneAnswers`, `SecondStartHarmless`, `SocketComesBack` |
| `inputs` | all keystreams of 8 words, difficulties 0..2, 2 offsets, 10 words scanned; requests of up to 3 elements, from 3 addresses, 3 paths, 5 settings, 4 rules, 9 names | 416 k | `WorkAccepted`, `NoShortcut`, `SourceFound`, `ChallengeIsDue`, `HeadersKept` |

Deadlock is checked in every run but `inputs`, whose inputs end when they are
complete.

**Bounds.** Every bound is a constant named in its module. Two handlers are enough
for every pair of steps to interleave and for an instant to be older than a trip or
a reset by another; the clock reaches past the longest delay in `breaker` and past
several trips in `breaker_backoff`. `gateway` is small in time because the proofs
carry the breaker's properties over; what it adds, the order of decisions, answers and
reports, needs no more. The recorder is sent
twice its capacity; a third client makes a flush meet one that waits and one whose
answer is not yet written. In `auth` the clock passes the end of both
lifetimes, and the premises hold with no room to spare (`SolveTime + Fraction` is
the life of a puzzle, and a token outlives two rounds and the fraction by one tick, as
lifetimes are whole seconds).
`accesslog` has room for a rotation during a queue, during a failure and between
two deaths. In `startup` two addresses let two processes race for the socket while a
third is turned away, or takes an address over when one dies; that the race of any
number is as harmless is proved (`SocketIsServed`). In `inputs` the search runs over the end of the counter (8
of 10 words exist), a difficulty of 2 is one no word has, and three elements are
enough for two lines of one header with something unreadable in between, for three
proxies of any mixture of conventions, and for a rule, a cookie and a mode together.
The proofs remove these bounds except `MaxTime`, `MaxLag`,
`MaxRequests` and the like, which are arbitrary natural numbers there.

**Fairness.** `CircuitBreaker`: handlers that run finish `update`, requests keep
being measured, the clock runs (weak fairness), and an average that is fed samples
below it again and again does fall (strong fairness of a falling update: the
abstraction would otherwise allow it to stay equal for ever, which the geometric
convergence of line 78 with its positive decay does not). `Gateway`: the runtime
schedules every task, the upstream answers or fails, requests keep arriving; nothing
makes a client send the body it announced, which is why `EveryRequestEnds` lets a
handler stay there; no kind of request is promised, so `ResetsWhenFed` states as a premise that exempt
ones keep coming and that their clients wait for the answer. `Recorder`: requests
arrive and answers are written; nothing is assumed of what clients type. `AccessLog`: both tasks run;
nothing is assumed of logrotate or of who restarts the process. `Startup`: the
runtime schedules the two tasks it spawned; nobody has to start, restart or die.
`Authenticator`: no liveness, as everything there waits for a user; `MCInputs`: none,
as its operators are pure and the search promises no end.

## Findings

1. `breaker.rs:117`: `min_open_duration = 0` is accepted and ends in a panic under
   the mutex on the first update after a trip; `breaker.rs:18` promises a reset.
   The same class, a minimum above seven days, panics in `clamp` before the trip:
   then the breaker never trips (visible in `breaker` as `poisoned`, which is why
   `NeverPoisoned` has the premise `ValidConfig`).
2. `breaker.rs:91`: `backoff_half_life = 0` is accepted as well. A trip with no time
   since the reset computes `0 / 0`; the `NaN` passes `clamp`, and the next update
   panics under the mutex although the minimum is valid. The breaker stays tripped.
3. `main.rs:209`: the breaker closes only on proxied requests; if all that is left
   are clients that are challenged and never solve the puzzle, it stays open,
   against `src/README.md:11`. A single exempt or solved request suffices.
4. `main.rs:392`: cookie and token do not have the same end, against
   `config.rs:25`; the difference is the time it took to solve the puzzle and the
   fraction of a second its timestamp dropped, and the
   consequence is one more challenge.

No run of its own has `recorder.rs:65`, where a sample of size 0 is delivered with one
request, against the meaning of `target` in line 32: `SamplePromise` says it as the code
does, and `TooLongOnlyForNone` that no other size is answered with too much.

## Proofs

Each `...Proofs` module shows an inductive invariant `IInv` (initially true, kept
by every step, one step of the proof per action) and derives the rest from it.
Assumptions are only the named ASSUMEs of the modules, on the constants, and in
three theorems one premise on the constants each: one handler (`BackoffIsMonotone`),
no exempt requests (`StarvationIsFinal`), no sample of size 0 (`TooLongOnlyForNone`).

* **CircuitBreakerProofs.** `IInv` adds to the properties who may be in the critical
  section (`MutexInv`: without it a second handler could move the state between move
  and store; after a panic nobody is, so nothing moves any more), that a Closed breaker
  without history has a false flag, that an Open breaker's delay is over in real time
  (`TimeInv`), that the flag is raised at most `MaxLag` after the instant of the trip
  (`LagInv`), and that a delay is not a number only while cooling down and under a
  configuration that is not valid (`PanicInv`). From it: `TypeCorrect`, `FlagCorrect`,
  `NoPanic` (by way of `DrawnDelay`: whatever period a stale instant makes, what is
  drawn under a valid configuration is a number), `CooldownBounds`, and
  `CooldownIsServed` as an action property: the flag falls only in `StoreFlag` with a
  closed position, which by `FlagInv` has a previous open period, which by `TimeInv`
  was long enough from its start, and by `LagInv` the flag was raised soon after it,
  however stale the instants of the others were.
  `BackoffIsBounded` holds for any handlers. `BackoffIsMonotone` assumes one
  (`OneHandler`): then a period the breaker was open lasted for its whole delay
  (`SoloInv`), and nothing of it has faded when the trip and the reset coincide.
  `PanicDecides` says what a panic leaves behind, for every configuration: a tripped
  breaker unless the minimum is above the cap (of the panics there are, the ones on a
  delay that is not a number happen in `OpenCooldown`, where the flag is set, and the one
  in `clamp` in Closed, where it is not), and `PanicIsFinal` that this is the end of it. `CalmStaysClosed` is what safety can say
  of a reset: it is not taken back by anything but a latency above the threshold.
* **GatewayProofs.** Every step of the composition is a step of the breaker or leaves
  it alone (`GatewayStepIsBreakerStep`), so `GatewaySpec => Spec` (`GatewayKeepsBreaker`, a lemma:
  it follows from how the composition is written), and the breaker's theorems hold of
  the whole. `OnlyProxiedReachBreaker` by an invariant that ties `stage` to `pc`, and
  `source` to the kind of the request and to `challenged`: what line 209 looks at after
  the await is what happened before it. `StarvationIsFinal` proves the finding of `gateway_starved` in
  general: without exempt requests, a tripped breaker that no request is on its way to
  is tripped for good, for any number of handlers and whatever else arrives.
* **RecorderProofs.** Lemmas on `Newest` (append, tail, push) and `IInv`: buffer,
  sample and waiting clients together, because the sample's run is only preserved
  while it ends at the latest request. `KeepsPromise` shows the refinement:
  `Asked` recovers when a client asked from the length of its sample, and each
  action maps to the action of `SamplePromise` of the same meaning or a stutter.
  `ShortOnlyByFlush` goes through the actions that resolve a client: a record that
  completes the sample, or the command of another client. `SentWithoutGap` follows the
  answer into the client's channel, where it stays gapless while the recorder goes on.
  `TooLongOnlyForNone` is about the comparison after the push: size 0 is the only one
  that is answered with too much. `WaitingGetsShorter` is the step argument under
  `SampleArrives`.
* **AuthenticatorProofs.** `WorkInv` (solutions and cookies come from solved puzzles,
  pages at work are young) and `UndisturbedInv` (while nothing is disturbed, a page
  holds a puzzle of its own loading time, and a page about to reload finds a cookie
  at most one round older). `ReloadIsAdmitted` is the argument about several tabs:
  another tab's older token is still younger than two rounds and the fraction of a
  second it was born with. `AlmostInTime`, a part of the invariant, compares the ends of
  cookie and token and gives `CookieLags`: the divergence found in `auth_cookie` is at
  most one round and a fraction. `EntryIsEarned` needs `WorkInv`, because clients post
  before they have solved anything; the bounds of a truncated timestamp are
  `WholeSecondsBounds`.
* **AccessLogProofs.** `DiskInv` (the writer has the newest file, the path names it or
  nothing) and `QueueInv` (the channel holds, in order, entries newer than all that
  is written) make order and bookkeeping inductive through rotations and deaths.
  `LogKeepsPromise` is the refinement: an entry is open while it is in the channel, the
  head of the channel is the oldest open one (`HeadIsOldest`, from `QueueInv`), and
  `Reopen`, renames, signals and starts are stutters.
* **StartupProofs.** `TaskInv` ties tasks to processes that listen, and the trainer and
  the socket to what they hold: `SingleTrainer` and `SecondStartIsHarmless` follow (the
  second start cannot reach a task, because the address is taken). `RaceInv` is the
  argument of `SocketIsServed`: as long as nobody died, a free path has a task about
  to bind or nobody has come that far, for any number of processes.
  `LoneListenerGetsSocket` is about processes with one address: the one that listens
  finds at each system call what it found at the one before.
* **ProofOfWorkProofs.** `WorkInv`: the offsets are in order and, as far as the counter
  did not wrap, exactly the good words scanned. `WorkIsAccepted` adds that order
  bounds all offsets by the last. `NothingSparesTheSearch` is a counting argument: a
  submission that ends before the search does would be `NumOffsets` different words
  among fewer found ones, against the pigeonhole principle.
* **InputsProofs.** `InputsInv` says after each element that what the code reads so far
  is what was meant so far. `SourceInv`: the header of the first proxy's convention is
  the first one `client_ip` finds, and in it what the first proxy wrote is what
  decides, wherever later proxies add and whatever the client sent that is overwritten
  or looked at later; `RouteInv`: cookies, rules and include files
  amount to the tokens, the exemptions and the fault that were meant; `HeadersInv`: the
  nominated names are the ones collected. The operators are written with sets of
  positions instead of `SelectSeq`, so lemmas (`ItemsAppend`, `LongerFacts`,
  `FirstForStays`, `RuleMeaning`) say what one more element does to them without an
  induction over lists. `SourceIsFound`, `ChallengeIsDecided` and `HeadersAreKept`
  follow, for any length of the lists. Of the operators alone, for any header map:
  `FilteringIsFinal` and `ClientIsSomebody`. Assumed of the constants: a rule's meaning
  (`MeansPaths`, `MeansNet`, or `MeansNothing` for one that does not parse) and that `None` is none of the values.

Every invariant and action property of a run is also a theorem. Only model-checked:
what holds under fairness (`ResetsWhenCalm`, `ResetsWhenFed`, `EveryRequestEnds`,
`OpenSheds`, `SampleArrives`, `RotationTakesEffect`, `EntriesSettle`,
`SocketComesBack`), which is out of the prover's reach. Four of them have a proved
safety half: `CalmStaysClosed` and `StarvationIsFinal` (what keeps a reset, and what
prevents one), `WaitingGetsShorter`, `LoneListenerGetsSocket`.

## Not modelled

The cryptography: keyed hashes are what they bind, the keystream is arbitrary. The
splitting and parsing of text (header values, addresses, TOML, regular expressions):
the models start from what it yields or that it fails. The target URI, the site's
name, the generated secret and the rewriting of the URI, each a library call on one
string. Request features: a table of verbs and two lengths that only the debug
socket prints. `was_tripped`, on which only a message depends (two handlers may
report the same transition, or none), and all wording. The offline whitelist builder
and the smoke test. Timestamps outside the clock's range. The hazards list in
`PROJECT.json` says for each hazard without a property why.

## Plan

Done, in this order: breaker, its composition with the request path, recorder with
its abstract specification, authenticator with the page, access log, start-up of
several processes, proof of work, inputs of a request; type correctness, safety
invariants, action properties and three refinements proved; the reading of a request
proved for inputs of any length; for each finding a theorem that says how far it goes.

Left: a composition of `ProofOfWork` with `Authenticator` (the step `Solve` as a
search), to show that the abstraction to "solved" is a refinement.
