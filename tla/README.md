# A TLA+ model of udslib

udslib (`src/`) is a diagnostic stack for ECUs: an ISO 14229 (UDS) server and
client in C, with an ISO-TP transport for systems that have none. This project
models the stack, the threads and the peers around it, and the transport in
TLA+, checks them with TLC on small
instances and proves the central safety properties with TLAPS for every value
of the constants.

Paths below are relative to the repository; `uds_core.c` is
`src/src/core/uds_core.c`, the services are `src/src/services/uds_service_*.c`.

## 1. Inventory

| Component | State it keeps | Operations | Talks to |
|---|---|---|---|
| Core dispatcher (`uds_core.c`) | `uds_ctx_t`: session, level, suppress flag, pending request | `uds_input_sdu`, `handle_request`, `execute_handler`, `uds_send_response`, `uds_send_nrc` | called by the transport and the application; calls the services and `fn_tp_send` |
| Timers (`uds_process`) | `last_msg_time`, `p2_timer_start`, `p2_msg_pending`, `p2_star_active`, `rcrrp_count` | one call per main loop round | `get_time_ms`, a 32-bit millisecond counter |
| Session and security services | session, level, `security_attempts`, `security_delay_end` | 0x10, 0x3E, 0x27, 0x29 | key, seed and authentication callbacks, NVM |
| Maintenance, data, memory, I/O, transfer services | `comm_state`, `flash_sequence` | 0x11, 0x14, 0x19, 0x22, 0x23, 0x28, 0x2E, 0x2F, 0x31, 0x34-0x37, 0x3D, 0x85 | one application callback each |
| Periodic transmission | 8 slots of identifier, rate and deadline, and their count | 0x2A, scheduler in `uds_process` | `fn_periodic_read`, `fn_tp_send` |
| Client role | `pending_sid`, `client_cb` | `uds_client_request`, response recognition in `uds_input_sdu` | shares `pending_sid` with the server role |
| NVM persistence | session and level outside the context | `fn_nvm_save` in 0x10 and 0x27, `fn_nvm_load` in `uds_init` | survives power cycles |
| ISO-TP (`uds_tp_isotp.c`) | one context for both directions, one TX buffer | `uds_isotp_send`, `uds_tp_isotp_process`, `uds_isotp_rx_callback` | `can_send`, `uds_input_sdu` (which may call `uds_isotp_send` before it returns) |
| Mutex hooks (OSAL) | a mutex of the platform | lock and unlock around `uds_process`, `uds_input_sdu`, `uds_client_request` | threads, which share the context and `tx_buffer` |
| Zephyr port, examples | main loops, tasks, one slow operation in the host simulator | receive, process, answer late, ask as a client | call the entry points above |
| Logging, tools | none of the stack's | | |

What is hard about this code: asynchronous services keep a request open while
others arrive, time out, and are answered late; two roles share one
`pending_sid`; a flag set by one request is read by the next; four timers run on
a counter that wraps; state comes back from NVM after a power cycle; threads share a context and a
transmit buffer, and a callback calls back into the stack under its lock; a
tester repeats what was done already; and in the
transport both directions share one state machine over a bus that can refuse,
lose and repeat frames. `PROJECT.json` lists each hazard with its line.

What makes each component correct, in a sentence:

- dispatcher: every dispatched request gets one response, of its own SID;
- sessions: no level without a key given for it in that session, whatever the
  sequence of changes, timeouts and power cycles; a session does not outlive S3;
- security: wrong keys lead to the delay, and nothing is compared during it;
- asynchronous work: the tester hears 0x78 in time, about a request that is
  being worked on, not more often than allowed, and the wait ends;
- periodic: slots, count and deadlines agree; active identifiers are served;
- client: a response finds the callback of the request it answers;
- threads: calls take effect one after the other, as if atomic, and each returns;
- download: each block is written once, in order, whatever is lost, repeated or
  refused, and the two ends come to an end together;
- transport: what arrives is a whole message of the peer, in order, once, at
  the pace the receiver asked for.

## 2. Modules

| Module | Models |
|---|---|
| `UdsTypes` | constants, SIDs and NRCs, requests, application answers, events, the context, the service table |
| `UdsServices` | `uds_send_response`, `uds_send_nrc` and every `uds_internal_handle_*` |
| `UdsPeriodic` | slot table of 0x2A and the scheduler |
| `UdsDispatch` | dispatch, client role, `uds_process`, `uds_init`: what one call does, as operators |
| `UdsCore` | one context whose calls are atomic; the state machine `Spec` |
| `UdsProperties` | the properties of the stack |
| `MCUds` | instances for TLC |
| `UdsAtomic` | what the mutex hooks promise: whole calls, one after the other (abstract; it knows calls, their effect, a fresh context and a clock, and nothing of UDS) |
| `UdsThreads` | three threads in one context, with the mutex; the state machine `ThreadSpec` |
| `MCThreads` | instances for TLC |
| `BlockTransfer` | what a download promises (abstract) |
| `UdsNetwork` | a tester and an ECU of this library on a lossy link; the state machine `NetSpec` |
| `MCNetwork` | instance for TLC |
| `IsoTp` | one transport node |
| `IsoTpLink` | two nodes on a bus; the state machine `TpSpec` and its properties |
| `TpService` | what a transport promises: the abstract specification |
| `MCIsoTp` | instances for TLC |
| `WrapLemmas` | lemmas on counters that wrap: differences and remainders |
| `UdsOutcomes` | lemmas on what one call may do and say, for every handler |
| `UdsCoreProofs` | theorems: types, levels, NVM, waits, relocking |
| `UdsTimingProofs` | theorems: S3, P2*, repetitions, wrong keys and the security delay, replies, the client role |
| `UdsPeriodicProofs` | theorems: the slot table and its scheduler |
| `UdsThreadsProofs` | theorems: the mutex, atomicity, waits under threads |
| `UdsNetworkProofs` | theorems: the download between two stacks |
| `IsoTpProofs` | theorems: types, reassembly, block size, separation time, and that the link implements `TpService` |

### The stack

A handler is an operator from context, request, application answer and time to
an *outcome*: the new context, the sequence of things it did (responses handed
to the transport, calls of the application, saves) and whether it returned
`UDS_PENDING`. `UdsCore` has a variable for the context (`ctx`), one for the
slot table (`per`), the clock, the NVM, the work the application owes (`jobs`),
the events of the last call (`out`, `ptx`), the time since the last
`uds_process` (`lag`) and a record of history (`hist`) that only properties
read. Actions and the code:

| Action | Code |
|---|---|
| `InputSdu(r, a)` | `uds_input_sdu` down to the response of the handler; `a` is what the application's callbacks return |
| `Process(has)` | `uds_process` |
| `AppRespond`, `AppReject` | the application finishes asynchronous work with `uds_send_response` or `uds_send_nrc` |
| `ClientRequest(sid)` | `uds_client_request` |
| `Restart` | power cycle, `uds_init` |
| `Tick` | a millisecond |

Each call is one atomic step; that the mutex hooks make it one is the subject of
`UdsThreads`. A request is its SID, the two bytes
the dispatcher looks at, its length, the identifiers it carries and a memory
size; payloads are lengths. The delimiter `len = 0` is the call that
`uds_input_sdu` refuses. Integers that can wrap keep a modulus: the clock and
deadlines (`TIME_MOD` for 2^32), `security_attempts` (`ATTEMPTS_MOD` for 256),
`rcrrp_count` (`RCRRP_MOD`), `periodic_count` (`COUNT_MOD`), `flash_sequence`
(`SEQ_MOD`).

### Threads

`UdsThreads` runs the same operators from three threads: the task of
`examples/freertos_demo` that calls `uds_process`, its receive task that calls
`uds_input_sdu`, and an application thread that answers asynchronous work (as
`examples/host_sim/main.c:381-387` does) or asks as a client. A call is split
where other code runs or can see a difference: it waits for the mutex
(`Acquire`), changes the context and fills `tx_buffer` (`RunProcess`,
`RunInput`, `RunClient`, `RunRespond` and `AnswerJob`), hands the buffer to
`fn_tp_send` (`Send`), does what follows the send - `execute_handler` arms the
P2* timer only after its 0x78, `uds_process` counts the repetition - (`After`)
and unlocks, or not, on its way out (`Leave`). A response for the client calls
back under the lock (`RunCallback`) and the callback may enter
`uds_client_request`; the outer call disarms when it returns (`Clear`).
`AtomicCalls` says that this implements `UdsAtomic`, whose context is the one
left by the last call that returned (`settled`) and whose `wire` is what that
call sent. `APP_LOCKS` and `REENTRANT` are what the library leaves to its user:
whether the application holds the mutex while it fills `tx_buffer` and answers,
and whether the owner of the mutex may take it again. Time does not pass inside
a call, only between calls and while everyone waits.

### Tester and ECU

`UdsNetwork` puts two contexts of the library on a link that keeps the order of
SDUs and may lose them. The tester (client role) goes through erasure (0x31),
request download, the blocks and transfer exit, the sequence of
`examples/pro_flash_tool.c`; the ECU serves it, in the loop of
`examples/zephyr_uds_server` and with the late 0x71 of `examples/host_sim`. All
that the stacks do is `uds_client_request`, `uds_input_sdu`, `uds_process` and
`uds_send_response` of `UdsDispatch`: an SDU that the tester does not wait for is
dispatched as a request and refused, and that refusal travels too. The tester's
application is not part of the repository and modelled as the API makes one
write it: it repeats a request when nothing is under way any more, sometimes too
early, goes on waiting on 0x78, gives up on 0x24 and tries again on any other
refusal; with `CHECK_ECHO` it compares the block counter of a 0x76. There is no
clock: P2* may be over whenever `uds_process` runs (`P2STAR = 0`). Its
`EachBlockOnce` says that what reaches `fn_transfer_data` and
`fn_transfer_exit` implements `BlockTransfer`.

### The transport

`IsoTp` gives each function of `uds_tp_isotp.c` as an operator from the context
to what it leaves: the context, at most one frame for `can_send` and at most one
SDU for `uds_input_sdu`. A byte is a pair of message and position, so a
reassembled SDU shows where its bytes came from. CAN and CAN-FD differ only in
frame sizes, which are constants. `IsoTpLink` puts two nodes on a bus of bounded
capacity. A full bus is a `can_send` that fails, with the consequences it has in
the code: a consecutive frame is tried again, a flow control frame is forgotten,
a first frame leaves the sender waiting. An SDU may be answered from within the
callback (`ReceiveAndAnswer`), and an application may send at any time
(`SendMsg`). The nodes run the same code; a node that stands for a tester of
another make may announce other parameters.

`TpService` says what the stack is promised, and `ServiceKept` that `TpSpec`
implements it (the abstract variables are the link's own `sent` and
`delivered`).

## 3. Runs

Passing:

| Run | Question | Bounds |
|---|---|---|
| `MCSession` | sessions, keys, S3, NVM and power cycles (`LevelEarned`, `NvmEarned`, `SessionExpires`, `StoredAsAgreed`, `RelockOnSessionChange`, `TypeOK`), and in the same sequences attempts and delay (`WrongKeysLock`, `LockoutHonoured`) | clock of 5 values that wraps, S3 of 2; two levels, all sessions; 2 attempts, a delay of 2; boots at two times of the counter; `KEY_WRAP = FALSE`: no key is sent when the delay it may start would cross the wrap of the clock, or the attempt would be the one that wraps the counter (`KeyFits`) |
| `MCAsync` | asynchronous services (`PendingHasJob`, `RcrrpBounded`, `P2StarKept`, `BusyLeavesJobAlone`, `Answered`, `PendingEnds`) | two services, one with sub-functions; limit of one repetition; answers that fit and that do not; no callbacks configured |
| `MCServices` | all services: at most one response, in the request's name (`AnsweredOnce`), and not none (`Answered`), with the client role on the same context (`CallbackMatches`) | each service with its error paths; callbacks that succeed, refuse, or are not safe; one client SID, a callback that may ask again, and matching, foreign and negative responses |
| `MCPeriodic` | 0x2A and the scheduler (`CountMatches`, `NoDuplicateIds`, `PeriodicOnTime`, `AddDisplacesNothing`) | 2 slots and 3 identifiers, so that the table overflows; intervals of 1 and 2 ticks; an asynchronous service to be given up; `WRAP = FALSE`: the clock stops before it wraps, see section 4 |
| `MCIsoTp` | the link (`ServiceKept`, `FlowControlled`, `SeparationKept`, `TpTypeOK`) | two messages per node, up to three consecutive frames, blocks of two, sequence numbers modulo 2, one frame lost or doubled, bus of two frames |
| `MCThreads` | three threads (`AtomicCalls`, `MutexReleased`, `WaitHasWorker`, `CallsReturn`, `ThreadTypeOK`) | one asynchronous service, one client SID with a callback that may ask again, a silent tester present; P2* of one tick, no limit on 0x78; any number of calls |
| `MCNetwork` | a download between two stacks (`EachBlockOnce`, `InStep`, `RefusedOnlyAtWrap`, `Finishes`) | 4 blocks and a counter modulo 3, so that it wraps; 2 SDUs lost, one early repetition, one refused block, one slow erasure with one repetition of 0x78 |

The bounds are small in time and number but keep each comparison on both sides:
S3 and P2* are reached and exceeded, the clock wraps within a session, tables
overflow, more than one block is needed. Some of them keep a run away from a case in
which the code breaks the property (`WRAP` and `KEY_WRAP`, identifier 0 in
`MCPeriodic`, `LOSE_FIRST` in `MCIsoTp`, `MAX_SLOW` in `MCNetwork`), and three say what the library leaves to
its user (`APP_LOCKS` and `REENTRANT` in `MCThreads`, `CHECK_ECHO` in
`MCNetwork`); section 4 has the case each of them leaves out. Nothing in the code depends on the
size of these numbers but the comparisons themselves.

Fairness:

- `MCAsync` (`FairSpec`): time passes and `uds_process` is called; `uds_core.h`
  says it "Should be called at a fixed interval". `Tick` waits for `uds_process`
  to run at least every `MAX_LAG` ticks, which the timing properties allow for.
- `MCIsoTpStall` (`TpFairSpec`): time passes, the bus delivers, both main loops
  run.
- `MCThreads` (`ThreadFairSpec`): a thread inside a call goes on (weak fairness:
  the scheduler), and one that waits for the mutex gets it if it is free again
  and again (strong fairness: `xSemaphoreTake` with `portMAX_DELAY` and
  `k_mutex_lock` with `K_FOREVER` queue their callers). No thread has to start a
  call.
- `MCNetwork` (`NetFairSpec`): both main loops receive and process, the erasure
  is finished, the tester's application repeats. The link loses at most
  `MAX_LOSSES` SDUs, without which nothing can be promised; losses, hurry and
  refusals are never forced. The system stops when the tester is done and the
  link is empty, so deadlock is not checked there.

Nothing is assumed of the tester, the application or the power supply in the
other runs.

Every passing property has a mutant: a variant of one definition, marked
*Variant* in the modules, that a plausible slip would produce and that the run
refutes.

## 4. Where code and documentation disagree

Each is a run that TLC refutes; `PROJECT.json` quotes the lines.

- `MCUnsaved` (`StoredInForce`): the S3 timeout ends session and level and does
  not call `fn_nvm_save` (`uds_core.c:306`), although
  `docs/ARCHITECTURE.md:60` says it "Runs when the session or security level
  changes.": the next power cycle brings back the session that had expired.
  What does hold is `StoredAsAgreed` (`MCSession`): NVM has the pair that the
  last accepted 0x10 or key left in force, `hist.agreed`, so that every request
  that changes the pair saves it -- and a 0x10 01 after the timeout, which
  changes nothing in RAM, saves it too. `LevelEarned` also holds: the pair that
  comes back was earned.
- `MCRepeat` (`JobKeptPending`): a tester that repeats the pending request is
  told 0x21, and since that response carries the pending SID, `uds_send_nrc`
  ends the wait. 0x78 is no longer repeated although the application works on.
- `MCSuppress` (`SuppressCleared`): 0x11, 0x19 and 0x28 with the suppress bit
  return without `uds_send_response`, the only place that clears the flag; the
  next request of a service without sub-functions is answered with silence.
  `Answered` allows for it (`due` is "may" while the flag is left over).
- `MCIsoTpStall` (`Delivery`): the receiver announces a block size and sends no
  flow control after the first; a message longer than one block never arrives.
- `MCThreadsStuck` (`MutexReleased`): with a limit on 0x78, the call of
  `uds_process` that gives up returns at `uds_core.c:322` without the unlock of
  line 364. With a recursive mutex the task itself goes on and every other
  thread waits for ever.

Further observations, reproduced by changing a constant of a passing run where one is named:

- `MCSession` with `KEY_WRAP = TRUE`: `security_delay_end` is an absolute time;
  a delay across the wrap of the counter ends at once
  (`uds_service_security.c:81`), and `LockoutHonoured` fails.
  `security_attempts` is a `uint8_t` that wraps and buys a new series of attempts
  (line 74), and `WrongKeysLock` fails.
- `MCPeriodic` with `WRAP = TRUE`: periodic deadlines are absolute times, and a
  slot can wait a whole period of the counter (`uds_core.c:337`). With
  `Requests <- PeriodicAndZero`: stopping identifier 0 matches a free slot and
  decrements the count (`uds_service_data.c:163`).
- A callback may send the next request, which `docs/CLIENT_API.md:30` allows
  with a recursive mutex; when it returns, `uds_input_sdu` clears `client_cb` and
  `pending_sid` (`uds_core.c:449-452`), which by then are those of the new
  request. Its response finds no callback and is dispatched as a request. The
  callbacks of `MCServices` do ask again, and what the run shows is that no
  callback gets a response that is not its own (`CallbackMatches`); that every
  request gets its callback does not hold, and is not claimed by the repository.
- A client request during asynchronous work takes `pending_sid` over
  (`uds_core.c:389`): 0x78 then goes on in the name of the client's request.
  `PendingHasJob` excepts this case (`~client_cb`); without the exception TLC
  refutes it as soon as `ClientSids` is not empty in `MCAsync`. That a late
  answer to a request given up ends the wait of another one
  (`uds_send_response` does not look at the SID) is not excluded by any property.
- The masks of services name sessions by the `UDS_SESSION_` constants of
  `uds_config.h:114-116`, in which bit 1 is extended and bit 2 programming
  (`get_session_bit`); those of data identifiers are tested by bit
  `active_session - 1` (`uds_service_data.c:28`, `uds_service_io.c:36`), in which
  bit 1 is programming and bit 2 extended. A DID with
  `session_mask = UDS_SESSION_EXTENDED` is read in the programming session only.
  `DidSessionOK` has the bits as the code tests them; no document says which
  numbering the mask of a DID follows, so no property does either.
- `MCIsoTp` with `LOSE_FIRST = TRUE`: when `can_send` refuses a first frame while
  an earlier message waits for its flow control, that flow control starts the
  new message and the receiver joins the two (`uds_tp_isotp.c:123`);
  `ServiceKept` fails.
- `MCThreads` with `APP_LOCKS = FALSE`: `uds_send_response` takes no lock and the
  response is built in the shared `tx_buffer`; an answer from a thread that does
  not hold the mutex itself is torn or overwritten (`AtomicCalls` fails), and one
  between 0x78 and the arming of the timer is forgotten (`WaitHasWorker`).
- `MCThreads` with `REENTRANT = FALSE`: a callback that asks again blocks on the
  mutex its own call holds; `docs/CLIENT_API.md:30` warns of it, and
  `examples/freertos_demo` uses such a mutex.
- `MCNetwork` with `CHECK_ECHO = FALSE`: after a repetition that was not needed,
  the second 0x76 is taken for the answer to the next block, since the client
  role compares SIDs only (`uds_core.c:443`); the application has to compare the
  counter (`InStep`).
- `MCNetwork` with `REPLAY = FALSE`, the default: one lost positive response ends
  the download with 0x24 at any block (`RefusedOnlyAtWrap`). With the replay
  option it still does at the wrap, where `flash_sequence = 0` stands for two
  things (`uds_service_flash.c:106`).
- The client takes a 0x78 for the final response (`uds_core.c:446`). The real one
  then arrives unasked, is dispatched as a request and refused with 0x11, and two
  stacks of this library refuse each other's refusals for ever: a download whose
  erasure is *always* asynchronous does not finish (`MAX_SLOW` bounds this).
- 0x36 with counter 1 is accepted without a 0x34 before it, and after a 0x37
  transfer goes on: `flash_sequence` is reset by 0x34, 0x35 and `uds_init` only.
- The comment at `uds_core.c:349` gives the slow rate as 2000 ms,
  `uds_internal.h:67` as 1000.

## 5. Proofs

All theorems hold for every value of the constants that satisfies the named
assumptions of the modules (`TimingAssumption`, `RangeAssumption`,
`ConfigAssumption`, `PeriodicAssumption`, `EnvironmentAssumption`,
`ThreadAssumption`, `NetworkAssumption`, `IsoTpAssumption`, `LinkAssumption`): any clock, any number of
slots, any set of requests and answers, any service table. Where the code itself needs more, the
theorem says so in a premise. Section 4 shows for most premises what happens
without them.

| Theorem | Statement | Premise, and where it comes from |
|---|---|---|
| `TypeCorrect` | `[]TypeOK` | |
| `LevelsAreEarned` | `[]LevelEarned` | |
| `StoredLevelsAreEarned` | `[]NvmEarned` | |
| `NvmFollows` | `[]StoredAsAgreed` | |
| `WaitsHaveJobs` | `[]PendingHasJob` | |
| `SessionChangeLocks` | `RelockOnSessionChange` | |
| `SessionsExpire` | `[]SessionExpires` | `S3Fits`: S3 and a lap of the main loop fit in the counter (5000 ms in 2^32), and no boot is so shortly before the wrap that the first lap crosses it: `uds_init` sets `last_msg_time` to 0, not to the time of the boot |
| `WaitingIsHeard` | `[]P2StarKept` | `P2Fits`: P2* is not 0, P2* and a lap fit in the counter, the buffer holds the three bytes of a negative response |
| `RepetitionsBounded` | `[]RcrrpBounded` | the buffer holds a negative response; otherwise `uds_send_nrc` neither sends nor ends the wait |
| `BusyKeepsWait` | `BusyLeavesJobAlone` | |
| `DelayIsKept` | `LockoutHonoured` | `OwnDelays`: no callback returns 0x36 of its own, which the stack would pass on without starting a delay; and of the behaviour, `[][EndsBeforeWrap]_vars`: a delay that is announced ends before the counter wraps (`security_delay_end` is an absolute time). With `KEY_WRAP = FALSE` every behaviour is like that |
| `RepliesOnce` | `[]AnsweredOnce` | |
| `RepliesAtAll` | `[]Answered` | `Roomy`: the buffer holds ten bytes (the longest answer the stack composes itself, 0x3D), and no callback claims to have written more than the header of its service leaves; `uds_send_response` refuses what is too long, and nothing is sent instead |
| `WrongKeysLockOut` | `[]WrongKeysLock` | the buffer holds a negative response, and no key is compared while `Worn` (`security_attempts` is 255): the counter does not stop at the limit, and the next wrong key makes it 0 |
| `CallbacksMatch` | `CallbackMatches` | `NeverWaits`: no service of this server is asynchronous, since a wait overwrites the client's `pending_sid` |
| `CountsMatch` | `[]CountMatches` | `ListsNoZero`: no request lists identifier 0, which stands for a free slot |
| `IdsAreDistinct` | `[]NoDuplicateIds` | `ListsNoZero` |
| `AddsDisplaceNothing` | `AddDisplacesNothing` | `ListsNoZero` |
| `PeriodicInTime` | `[]PeriodicOnTime` | `ListsNoZero`, and `RatesFit`: the slow interval is the longest, and the counter does not wrap (deadlines are absolute times) |
| `LocksReleased` | `[]MutexReleased` | `RCRRP_LIMIT = 0`; `MCThreadsStuck` is the case with a limit |
| `ThreadTypes` | `[]ThreadTypeOK` | `RCRRP_LIMIT = 0`: otherwise the mutex is taken more and more often |
| `CallsAreAtomic` | `AtomicCalls` (`ThreadSpec` implements `UdsAtomic`) | `APP_LOCKS`: the application holds the mutex while it answers |
| `WaitsHaveWorkers` | `[]WaitHasWorker` | `APP_LOCKS`, and a buffer that holds the answer |
| `NetInvariance` | `[]NetInv` | `OwnTransfer`: the application does not replace the services of a download, nor has one with the SID of a response. `Distinguishes`: the tester's application compares the block counter it gets back (the client role compares SIDs only), and a counter that can tell a block from the next |
| `NetInStep` | `[]InStep` | the same |
| `NetEachBlockOnce` | `EachBlockOnce` (`NetSpec` implements `BlockTransfer`) | the same |
| `NetRefusedOnlyAtWrap` | `[]RefusedOnlyAtWrap` | the same, and `REPLAY`: the option that accepts a repeated block |
| `TpTypes` | `[]TpTypeOK` | |
| `BlockSizeKept` | `[]FlowControlled` | |
| `SeparationTimeKept` | `SeparationKept` | |
| `ReassemblyBounded` | `[](\A n \in Node : Reassembly(iso[n]))` | |
| `TransportKeepsService` | `ServiceKept` (`TpSpec` implements `TpService`) | `SteadyLink`: two ends; no first frame is lost or refused (`~LOSE_FIRST`; section 4 has the case); fewer faults in all than there are sequence numbers (16 in the code: when 16 consecutive frames in a row are lost, the next one carries the number that is waited for, and the message arrives with a hole); a transmit buffer below 2^16 bytes, the width in which `uds_rx_cf` computes what is left (it has 1024) |

### How

*What a call may do.* `UdsOutcomes` goes once through all handlers and shows
what both the proofs about single calls and those about threads use. `Quiet`
(and `Calm`, without the lockout) says what all handlers but those of 0x10 and
0x27 have in common: session, level, client and timers stay, the wait is kept or
ended, at most one message is sent and it names the request's SID. `Guarded` and
`Waits` say what any call may do to session, level and NVM, and to the wait;
`Timely`, `LocksOut` and `KeepsClient` what `uds_input_sdu` does to clocks, delay
and client. The proofs about `Spec` and `ThreadSpec` then treat one action at a
time and never open a handler.

*`Spec`.* One inductive invariant carries the rest: `IInv == TypeOK /\
LevelEarned /\ NvmEarned /\ StoredAsAgreed /\ PendingHasJob`.
`LevelEarned` is not inductive alone: a power cycle turns the stored pair into
the one in force, so what is stored has to be earned as well, also when the
session in force has moved on. `StoredAsAgreed` needs that a call saves exactly
when it accepts a 0x10 or a key, and then the pair it leaves in force:
`RequestSaves` shows it of the dispatcher with every handler behind it, so that
no path changes the pair without saving it. Each timing theorem adds a relation between what
an observer has measured and what the code can see:

- `S3Inv`: in a session, the tester has been silent for no longer than
  `last_msg_time` shows, and that is at most S3 plus the lag -- or the server has
  just booted, when `last_msg_time` shows more than the truth;
- `WaitInv`: the same of 0x78 and `p2_timer_start`;
- `CountInv`: `n78 <= rcrrp_count + 1` while a wait is on;
- `LockInv`: what is left of the delay lies before `security_delay_end`;
- `TallyInv`: `security_attempts` is at least the number of wrong keys since the
  last accepted one. `Tallies` says of every call, handler by handler, that a key
  compared and refused adds one, and that nothing else touches the counter: not
  the expiry of the delay, not a session change, not a seed;
- `ArmedFor`: `pending_sid` is the SID of the last client request;
- `GapInv`: a deadline is at most the slowest interval after the last service of
  its slot, and a slot has waited for that interval and the lag, plus one lap if
  the call before gave up on a request. Such a call resets `rcrrp_count`, and
  only a call that runs the scheduler can increase it again: this is why two of
  them never follow each other.

`WrapLemmas` has the arithmetic: an unsigned difference grows by one with each
tick until it wraps.

*That there is an answer.* `Speaks` says of an outcome that it contains a
response. Each handler is shown to speak or to suppress what it was asked to
suppress, for every answer of its callback and for missing callbacks; the premise
`Roomy` is used where a length comes from the application. The length of 0x22's
response is the result of a loop: `ReadLoop` is its rule, and `DidNrc` refuses an
identifier that does not fit before it is added. `RequestSpeaks` puts the checks
of the dispatcher in front: each of them refuses with a negative response, which
is never suppressed.

*The slot table.* The loops over the identifiers of a request are recursive
functions. `StopLoop` and `AddLoop` are their loop rules: a set of tables that
contains the first one and is closed under a round contains the result. They are
proved from the least element of a set of naturals, which needs no operator
parameter and so stays within the prover's reach. `SoundTable` (types, count,
distinct identifiers) is kept by every round, and `Grown` says how far an add
request has come: what was active has its slot and deadline, what is new is due
now, and `full` means full.

*`ThreadSpec`.* `TypeInv` with `FrameInv` gives the shape of a call in progress,
`MutexInv` with `Held` says how often a thread has locked at each place: the
owner is the one thread between lock and unlock. From that follows `DataInv`: a
thread that is not inside a call has done nothing, at most one is inside
(`Inside`), and what the context and the buffer hold are the settled ones plus
the part of that one call which it has done (`Whole`; `InCallback` for a request
made from a callback). The last step of a call makes it settled, and that step is the abstract
`Perform`; all others stutter. `WorkerInv` adds that a wait, or a call that is
about to arm one (`Promised`), has a job that somebody owes (`Owed`).

*`NetSpec`.* That the ends agree is not inductive: a doubled or late message may
arrive at any later moment, so the invariant has to say what every message on the
way would do if it arrived now. `NetInv` has five parts: types; `Progress`, which
relates the blocks written, `flash_sequence`, the place of the tester and the
exit; `Ends`, what each stack waits for; `Requests`, that each request on the way
to the ECU belongs to a step not beyond the tester's and that they come in the
order of their steps; and `Answers`, that an acknowledgement on the way to
the tester is that of the last block written, or of the one before while the
tester still waits for the last, and that no older one follows a newer one. With
the replay option it also says where a 0x24 can be on its way: from the wrap of
the counter until the acknowledgement after it. One lemma per service says what
the ECU does with a request of each step. The refinement follows: only the 0x36
that carries the next block writes one.

*`TpSpec`.* `TpInv`: contexts and frames keep their types, reassembly stays
within the announced length, which fits the buffer (`Reassembly`), a sender has sent no more frames
of a block than it has counted (`Counted`), and `timer_st` does not show more than
the time since the last frame (`Apart`).

*`TpSpec` implements `TpService`.* A frame does not say which message it belongs
to, and a consecutive one not even which of its frames it is beyond four bits. So
the invariant gives each frame on the way a *mark*, the place of its message among
those sent and its number in the message, and relates for one direction the marked
queue, the receiver, the sender, what was sent, the last message delivered and the
number of faults (`Link`). `Marked`: frames show what their marks say, begin messages in the order of
sending and after the last one delivered, and a consecutive frame goes on where the
segmented frame before it has stopped, or repeats it. `Sends`: a sender in the
middle of a message goes on where the last frame on the way has stopped. `Waits`:
a receiver in the middle of a message holds exactly its bytes up to the frame it
waits for, and the first consecutive frame on the way is at most one before that
(doubled) and at most the number of faults after it. Since that is less than a
turn of the sequence number, a frame with the right number is the right one
(`RightOne`, from `WrapEqual`). Single frames and flow control may stand between
the frames of a message in any order: the sender may have given its message up, or
been given up by the other direction, which `StillTx` and `StillRx` show to be the
only ways in which the two directions of a node touch each other. `Orderly` hides
the marks, `KeptInv` has one of them for each direction, and that no message is
sent twice. The service's `Behind` is then the place of the last message delivered,
since messages that are not empty differ in their bytes (`ContentDiffers`), and
what an arriving frame completes is a message ahead of it (`GivesAhead`).

### Only model-checked

- Liveness (`PendingEnds`, `CallsReturn`, `Finishes`, and `Delivery`, which
  fails): fairness is out of this prover's reach.

Every other property of a passing run has a theorem above.

## 6. Not modelled

- Logging: output only.
- Zephyr port: the set-up of sockets and filters. The fallback transport runs
  `uds_isotp_rx_callback` in the CAN driver's context, next to
  `uds_tp_isotp_process` in the main loop and without a lock; which steps it may
  interrupt is the driver's, and `docs/OSAL.md:86` leaves the transport's thread
  safety to its user.
- The mock callbacks of the examples, which return constants, and the tools,
  which generate code or decode traces on a host.
- The periodic scheduler under several threads (it runs inside `uds_process`,
  under the same lock), and `uds_send_nrc` from an application thread, which is
  `uds_send_response` with another message as far as locking goes.
- A restart of the ECU during a download.
- The frames of `IsoTpLink` under the SDUs of `UdsNetwork`: the network is built
  on what `TpService` promises. The product would be out of TLC's reach.
- Argument checks for null pointers, and the contents of payloads.
- `fn_periodic_read` missing: `uds_process` calls it without a check
  (`uds_core.c:339`); the model configures it wherever 0x2A is used.

## 7. Plan

Done: the stack, its threads, two stacks on a link, the transport, their runs,
and theorems for every safety property of them.

Left:

- a restart of the ECU during a download, where `uds_init` clears
  `flash_sequence` and the next counter that is accepted is 1.
