# A verification project for stn-stratum

stn-stratum is the Stratum coordinator of the STN chain. Miners connect to it
over TCP with a small binary protocol (STNM), it fetches work from a chain
server over another one (STNC), pushes jobs, forwards proofs, and publishes its
status over HTTP. This directory holds TLA+ models of that program, the TLC
configurations that check them on small instances, and TLAPS proofs of the
properties that hold for every instance.

Paths below are relative to the repository (`src/` in `PROJECT.json`). Unless
a line says otherwise it is about the Linux branch of
`src/stn_stratum_server.c` (lines 1296 onwards).

    tlc -workers 2 -config MCServerSubmit.cfg MCStratumServer
    tlapm StratumLedgerProofs.tla

## 1. The system

| component | state | operations |
|---|---|---|
| main loop, `stn_stratum_server_run` | `running`, tick count | accept, service, telemetry tick, refresh every `STN_STRATUM_CHAIN_POLL_TICKS` passes, send pending jobs, sleep 250 ms |
| sessions (`stn_client_session.c`, `stn_session_acceptor.c`) | singly linked `clients`, `client_count`; per session socket, address, `has_job`, `sent_job_id`, hashrate, `rx`/`rx_used` | accept, remove, the handlers of ADDRESS, SUBMIT and HASH_PROGRESS |
| active work | `have_work`, `active_base`, `active_job_id`, `active_template` | `refresh_work`, `clear_work`, `send_pending_jobs` |
| chain selection | `active_chain_index`, `chain_available` | `chain_transport_select`, `chain_transport_next` |
| STNC client (`stn_rpc_client.c`) | `next_request_id` | INFO, MINING_TEMPLATE, SUBMIT_WORK, SUBMIT_SHARE |
| RPC transport (`platforms/linux/stn_rpc_linux.c`) | one socket, kept between calls | connect, send, receive, drop, retry once (reads only) |
| telemetry (`stn_telemetry.c`) | snapshot under `snapshot_sequence`, `worker_running`, HTTP clients | publish (main thread), read and serve (worker thread), close |
| share arithmetic (`stn_share_verify.c`, `stn_miner_job.c`) | none | share target, classification of a proof, job header |
| process (`main.c`) | descriptors, the telemetry thread, Winsock references | start-up, SIGINT/SIGTERM to `stn_stratum_server_stop`, close |
| chain configuration (`stn_chain_config.c`) | list of servers on the heap | load: read, parse, replace |
| session prototype (`stn_stratum.c`, `stn_chain_rpc_adapter.c`) | sessions with a history of nonces, jobs | subscribe, identity, job refresh, submit; compiled in, not called by the live server |

**How they interact.** One thread runs the loop; every handler, every RPC and
every send to a miner blocks it. Handlers call the STNC client directly. A
failed send frees the session from inside the handler that was using it
(`client_remove`), and `clear_work` walks the client list afterwards. The loop
hands a status to telemetry once per pass; a second thread reads it without a
lock. The signal handler writes `running`. Miners, chain servers and the
operator act at any time, also while the loop is blocked.

**What is hard.** Losing the reply of a mutation the chain has applied; work
that outlives a failover; sessions freed in the middle of a walk of the list;
RESULT frames that carry no request id, so that their order is all a miner has;
a lock-free snapshot between two threads; request ids that start again at 1
after a failover, over sockets that are kept between calls; frames that arrive
byte by byte; a stop signal during a blocked RPC; a start-up that fails half
way; two threads that recycle each other's descriptors; parsers with a list of
pointers to free on every way out. `PROJECT.json` lists these
under `hazards`, each at its line.

**What correct means, per component.**

- Sessions and work: every miner's idea of the current job is the server's;
  RESULT is given once per SUBMIT and ACCEPTED is only said of what the chain
  applied; work is submitted only to the server that issued it; spent work is
  not offered.
- Client list: count, list, sockets and the walk agree.
- Chain selection: as long as some server stays reachable and has a template to
  give, work comes back.
- RPC: a mutation is applied at most once per call, a call reads its own reply,
  and what it returns stays true.
- Telemetry: a visitor sees one publication as a whole; close never frees what
  the worker is using, and returns.
- Reader: handlers get whole frames, once, in order.
- Process: a stop signal ends the process, whatever was opened is given back,
  and nobody uses a descriptor that is not its own.
- Arithmetic: saturated rates and sums are the exact ones cut off, and a proof
  is judged by the target the miner was sent.
- Configuration: a load replaces the list wholly or not at all, and leaks
  nothing.
- Session prototype: a nonce is forwarded once, and the status says what the
  chain did.

## 2. Modules

| module | models | status |
|---|---|---|
| `SubmitLedger` | what a submitter is promised | abstract specification; `StratumServer`, `RpcTransport` and `StratumSession` implement it |
| `StratumServer` | loop, sessions, handlers, work, failover, stop | modelled, proved |
| `FrameReader` | `service_client`, byte level, both platform branches | modelled, Linux proved |
| `FrameQueue` | the abstract queue of whole frames; `FrameReader` implements it, `StratumServer.inbox` is it | abstract specification |
| `RpcTransport` | STNC client and transport, both platforms | modelled, proved |
| `TelemetryService` | publication, worker thread, HTTP visitors, close | modelled, proved |
| `TelemetryVisitor` | one HTTP visitor byte by byte, with the clock | modelled, proved |
| `Lifecycle` | start-up, descriptors, threads, Winsock, signals, close, both platforms | modelled, proved |
| `StratumSession` | the session prototype over its chain adapter | modelled, proved |
| `ChainConfig` | loading the chain configuration | modelled, proved |
| `HashRate`, `ShareTarget` | the arithmetic of rates and of targets | modelled, proved |
| `MCStratumServer`, `MCTelemetry`, `MCFrameReader`, `MCLifecycle` | values for TLC | |
| `MCTelemetryVisitors`, `MCMinerPath`, `MCStartup` | several parts in one run (section 3) | |
| `StratumServerProofs`, `StratumWorkProofs`, `StratumLedgerProofs` | proofs about `StratumServer`, each on top of the one before | |
| `RpcTransportProofs`, `TelemetryServiceProofs` | proofs about `RpcTransport`; about `TelemetryService` and `TelemetryVisitor` | |
| `MinerPathProofs` | proofs about `FrameReader`, `HashRate`, `ShareTarget` and `StratumSession` | |
| `StartupProofs` | proofs about `Lifecycle` and `ChainConfig` | |
| `Induction` | division, induction over numbers, recursive functions: lemmas about no module in particular | |

Definitions whose comment begins with "Plausible error" are altered forms of
the definition next to them. No specification uses them; `mutants` in
`PROJECT.json` pairs each with the property that notices it.

### StratumServer

State: `conn`, `peerGone`, `inbox` are the sockets and what miners have sent;
`clients`, `clientCount`, `sess` the client list; `haveWork`, `activeJob`,
`chainAvailable`, `activeServer` the fields of `stn_stratum_server` of the same
names; `pc`, `todo`, `cur`, `tick`, `running` the loop; `call` the submission
the loop is blocked in, `late` the given-up submissions that still travel.
`results`, `wireJob`, `applied`, `issuer`, `spent` and `consumed` are history:
what was written to each connection, what the chains
have applied, who issued the active work, and whether it is used up.

| action | code |
|---|---|
| `AcceptClients` | `accept_clients`: both listeners drained, with failing accepts and allocations |
| `ServiceNext`, `ServiceIdle`, `ServiceEof`, `ServiceDone` | `service_clients` and the reading part of `service_client` |
| `InvalidHeader` | the header check of `service_client` |
| `ProcessAddress`, `ProcessHashProgress` | the handlers of the same names |
| `SubmitBeforeAddress`, `AnswerLocally`, `ForwardSubmission`, `SubmissionReturns` | `process_submission`, split where it blocks in the RPC |
| `TelemetryTick` | `telemetry_tick`; the status it builds is `Status` |
| `RefreshNewWork`, `RefreshSameWork`, `RefreshUnavailable`, `RefreshRefused`, `RefreshTransport` | `refresh_work` by the code the template call returns |
| `SendPendingJobs` | the end of a pass: `send_pending_jobs`, count, sleep |
| `CloseServer` | `stn_stratum_server_close` |
| `MinerConnect`, `MinerSend`, `MinerClose`, `ChainHandles`, `ChainHandlesLate`, `ChainFlips`, `Stop` | the environment |

`SubmissionReturns` does in one step what `process_submission` does between the
return of the RPC and its own return: the RESULT (whose send may fail and free
the session), then `clear_work`, then `chain_transport_next`. Nothing else can
see the state in between, because one thread does all of it. The template call
of `refresh_work` is one step as well: the loop is blocked in it and no other
state of the server changes meanwhile. A submission whose call was given up may
still be on its way: it stays in `late`, and `ChainHandlesLate` lets the chain
apply it at any later time.

What is abstracted. A job is the pair of base and job id of a template; that
two templates with the same pair have the same bytes is the chain's contract
("immutable Work ID"), and `refresh_work` relies on it. A nonce is the class
`stn_share_classify` gives it. A hashrate is zero or not. The list is a set:
`todo` lets the walk take any order, the real order included. Pool and solo
listeners differ only in the mode, which the server only logs. A connection is
used once; a miner that reconnects is another member of `Conns`.
`BadTargetJobs` are jobs whose target `stn_miner_job_build` accepts and
`share_target_from_chain` in the server refuses.

### SubmitLedger

Three sets of answers (accepted, refused, unknown), the submissions taken and
those a chain has applied. Accepted is said only of what has been applied,
refused only of what has not been and never will be; unknown promises nothing,
so a submission may still be applied after it. Three modules implement it, each
with its own mapping (`Ledger` at the end of the module):

| module | submission | accepted | refused | unknown |
|---|---|---|---|---|
| `StratumServer` | connection and place of the SUBMIT on it | RESULT ACCEPTED | REJECTED, STALE | PROVIDER, PROTOCOL |
| `RpcTransport` | number of the call | OK | REJECTED, CAPACITY | TRANSPORT, INVALID |
| `StratumSession` | number of the call of `stn_stratum_submit` | OK | STALE, REJECTED, DUPLICATE, CAPACITY, NO_JOB, STRUCTURE | PROVIDER |

The hard part is "never will be" where a mutation travels on a socket that was
given up: the codes for a refusal must never be used of it.

### FrameReader and FrameQueue

One connection, byte by byte. `off` is how far the stream has been read, `rxUsed`
how much of `rx` is filled; `Receive(n)` reads any number of bytes up to what
the code asks for, `WouldBlock` leaves at any point with the partial frame kept.
If the reader ever lost a frame boundary, the type byte it reads could be
anything, and the model says so. `HeaderOnly` is the Windows branch, which
dispatches as soon as it has read eight bytes (from line 888).

### RpcTransport

One call at a time, as steps: `Begin`, `Reuse` or `Connect`, `Send`, `Receive`,
`Check`, with a failure possible at each. `ChainServes` may serve a request long
after the client gave up on it. `Reselect` is the part of
`chain_transport_select` that closes the transport and starts request ids again
at 1. Requests carry a serial number, which the code does not have, so that
"its own reply" can be said at all. The core's `CallOutcomes` is this module's
behaviour in one operator. The Windows transport
(`platforms/windows/stn_rpc_win32.c`) makes the same exchange step by step; its
sockets and its Winsock reference are in `Lifecycle`.

### TelemetryService

Both threads step by step: each store and load of `snapshot_sequence` and each
field is a step of its own. A field holds the number of the publication that
wrote it. `Ordered` says whether field stores stay behind the first store of
the counter. The code uses a release store there, which does not promise it;
see the findings. The comparison `before = after` in `snapshot_read` reads an
uninitialised variable after `continue` only in a form that loops again whatever
its value, and is modelled so.

### TelemetryVisitor

`TelemetryService` serves a visitor in one step. Here `client_tick` is taken
apart for one visitor: a `recv` of any size into the fixed buffer, a request
that is complete after `marker` bytes or too long for the buffer, the answer
made once from the snapshot of that pass, sends as large as the visitor's window
takes, the test of the timeout. `time(NULL)` is read once per pass. The clock
ticks, and it may be set to any time, later or earlier, before the accept or at
zero; `Expired` is the whole test of `src/stn_telemetry.c:378`, which protects a
visitor from a clock set before its accept and treats an accept at time 0 as no
time at all. A visitor accepted at time 0 therefore never expires, and
`VisitorLeaves` leaves it out.

### Lifecycle

Descriptors are numbers; the kernel (external) hands out the lowest free one,
so a handle used after its close names what the other thread opened next.
`owner` says what a descriptor is open for, `handle` what each component
believes; the transport's handle is 0 until the first `chain_transport_select`,
because `stn_stratum_server_init` only zeroes it. `pc` goes through start-up
step by step; a step may fail, and then main closes everything. In the loop the
main thread accepts and removes miners and opens and drops the chain connection
while the worker accepts and removes visitors. On Windows `wsa` counts
WSAStartup calls: the server and the transport each hold one, and every
failover gives one back and takes one. The close goes through the miners,
telemetry, the listeners, the transport, Winsock and the log in the code's order,
one action each. `broken` holds the peers that have closed and then reset their
connection: the next send to one of them raises SIGPIPE on Linux. After a reset
alone the send fails with ECONNRESET, which is an ordinary failure of a send.
Descriptors 1 and 2 are left out.

### StratumSession

The library of `stn_stratum.c` over `stn_chain_rpc_adapter.c`, one call at a
time, split at each RPC: the tip is asked for, the nonce is looked up and
recorded, and only then the block is submitted; the chain moves between any
two. A lost submission stays in `flying` and may be applied later. Blocks are
reduced to a size and the snapshot they belong to.

A submission is one call of `stn_stratum_submit`, and every status the function
returns is an answer in `answers`: those of the chain and those the session
gives by itself (`Refusal`). The nonce does not name a submission. When the reply
to a nonce was lost, the caller got PROVIDER; a second call with that nonce
returns STALE once the tip has moved, and DUPLICATE before that, although the
block of the first call may be on the chain. The status is about the second
call, whose block is never sent: a caller must not read it as the fate of the
nonce. `ForwardedOnce` is the property about nonces.

### ChainConfig

`stn_chain_config_load` as a machine over tokens. The heap (external) hands
out the lowest free block, and every pointer the code keeps is a variable:
the text, the keys, the host in `parse_server`, the entry in `parse_servers`,
the list being built, the caller's list. `Fail` may happen at every token, for a
text that is cut or wrong there and for an allocation that fails there, and
frees what the code frees on that way out. Characters, escapes and white space
are left out.

### HashRate and ShareTarget

The integer arithmetic at a width that is a constant, compared with exact
arithmetic. `HashRate` has a largest integer `UIntMax` and `Scale` for 1000; that
`UIntMax >= Scale^3`, as 2^64 - 1 and 1000 satisfy, is an assumption, and
`RateAccurate` needs it. `ShareTarget` has digits of base `Base` for
bytes; the hash of a proof is any number. The two versions of
`share_target_from_chain` differ for a target of zero or above MAX_TARGET:
`stn_miner_job_build` makes a JOB of it, `process_submission` refuses every proof
for that JOB (`VerdictMatchesJob` says that nothing else is refused so).

## 3. Runs

| run | question | instance |
|---|---|---|
| `server_submit` | Do jobs, results and what the chain applied agree when replies are lost and servers change? | 2 miners with 2 addresses (symmetric), 1 job, 2 servers; sessions come and go during the walk over the other |
| `server_session` | Does one session survive every kind of frame, two alternating jobs (one with a refused target) and every code a template call or an answered submission can return, and do its RESULTs keep the promises of `SubmitLedger`, also when a chain applies a mutation after its call was given up? | 1 miner, 2 jobs, 2 SUBMITs, 2 servers |
| `server_liveness` | Does work come back, and does a stop complete? | 1 miner, both servers go away, come back and give any reply to a request for a template |
| `telemetry` | Do visitors see whole snapshots, and does close return? Does a single visitor get one answer, is it not cut short, and does it leave? | 2 fields, 2 visitors, 3 publications; a buffer of 4, a request of 2 or 5 bytes, an answer of 2, timeout 2, accepts at time 0 and 2, a clock up to 4 that is set once to any time |
| `rpc_transport` | Are mutations applied at most once and replies matched, and do the codes keep the ledger's promise? | 3 calls, 3 connections, request ids modulo 3 |
| `miner_path` | Do handlers see whole frames under any fragmentation? | 3 frames of 3 to 5 bytes with a 2-byte header |
| | Is the share target exact, and is a proof judged by the JOB the miner holds? | 3 digits of base 4, factor 3, every target and hash |
| | Is the rate exact up to one, and does the sum saturate exactly? | integers up to 27, 3 for 1000, hashes and milliseconds 0, 1, 2, 19 and 27; 3 sessions |
| | Does the session prototype forward a nonce once and keep the ledger's promise? | 1 session with 2 lives, 2 jobs, 2 nonces, a history of 1, 3 block sizes, 3 submissions, 2 moves of the tip |
| `startup` | Does every start-up, however far it got, end with everything given back, does a stop end the process, and do Winsock references balance? | 8 descriptors, 2 miners, 2 visitors, each platform |
| | Is the heap sound on every way out of the configuration parser, and is a load all or nothing? | 2 servers, 2 hosts, 3 digits, ports up to 15, 9 blocks |
| `server_fairness`, `server_unavailable`, `telemetry_unordered`, `frame_reader_windows`, `lifecycle_sigpipe` | findings, section 6 | |

**Runs of several parts.** `telemetry`, `miner_path` and `startup` each put
together modules that share no state. A variable (`part` or `level`) is chosen
at the start, and a behaviour takes the steps of that module only: TLC explores
the sum of the state spaces, not their product, and misses nothing, because no
step of one part can enable or change a step of another. Fairness is stated
per part. The runs check the parts' own definitions, the ones the theorems
state; only `EveryVisitorLeaves` is new, the liveness property `VisitorLeaves` of
`TelemetryVisitor` restricted to the behaviours that serve a single visitor. The
conditions on the constants (`HashRateAssumption` and so on) are the `ASSUME` of
the module that declares them, and TLC evaluates them in these runs.

**Bounds, and why they suffice.** Two miners are enough for every interaction
through shared state: one session's frame changes the work another one holds.
One job suffices to ask whose result is whose; two are needed for stale
submissions and for replacing a job. Two servers make failover change the
server and come back. `PollTicks` is 1 or 2 instead of 4: what matters is
whether a pass polls or not; with 2, in `server_liveness`, both kinds alternate.
`MaxInbox = 1` bounds only what waits on a socket; frames keep coming. `IdModulus = 3` makes
the ids 1 and 2 wrap within three calls, through the skipped zero. With three
calls, a late answer of the first can meet the second and the third. Frames of
5, 3 and 4 bytes stand for 77, 48 and 56, and a header of 2 for 8: a header and
a body can each be split and the sizes still differ. `SeqModulus = 16` exceeds
twice the publications: a wrap of the real 32-bit counter takes 2^31
publications, about 17 years at four a second, and a reader would have to
sleep through all of it. The proofs remove all of these bounds except the
last one, which is an assumption (`TelemetryAssumption`).

In `server_session` two SUBMITs follow each other, so that the first can be
applied late, after the second was answered. Eight descriptors are fewer than
the log, the telemetry socket, two listeners, the chain, two miners and two
visitors need: accepts and connects meet the limit, and a freed descriptor goes
to the other thread. A history of 1 is full after the first nonce, and two tip
moves allow a job to go stale before, between and after the RPCs of a
submission. With three calls a lost submission is repeated, and the chain may
apply the first one before, during or after each of the other two. Sizes 2, 5 and 7 lie below the header, at the capacity and beyond
it. Two servers make the list grow by `realloc` and be freed with an entry in
it; nine blocks are enough for everything the parser and an old configuration
hold at once. Ports of two digits exceed the limit of 15 in both ways the code
tests, by the next digit and by the product. With integers up to 27 and 3 for
1000 and the five inputs, both the direct and the scaled computation of a
remainder occur (8 of 19 and 19 of 27), and so do both ways to saturate (27 in 1,
and 19 in 2, which only the remainder's share takes over the limit). Three digits of base 4 let a carry run through the
middle digit into the leading one. A visitor accepted at 2 with a
timeout of 2 expires at 4, the end of the clock; set to 0 or 1, the clock lies
before the accept and can still run to the timeout.

**Fairness.** `WF_vars(ServerStep)`: the loop sleeps a fixed time and every
blocking call has a socket timeout of 60 s, so a step that stays possible is
taken. `WF_vars(ClientStep)` for the same reason. In `TelemetryService` both
threads are scheduled, and the main thread finishes a publication or a close it
began. In `Lifecycle` main and the ending worker keep stepping; that a pass ends
assumes that no miner keeps its socket filled for ever (see below). In
`TelemetryVisitor` the worker is scheduled and the clock advances. Nothing is
assumed of visitors, of miners, of chain servers or of the operator:
`WorkRecovers` has the hypotheses that the set of reachable servers eventually
stops changing and is not empty, that the server is not stopped, and that
reachable servers eventually answer every request for a template with one
(`TemplatesGiven`). The last one is not a formality: `refresh_work`
(`src/stn_stratum_server.c:2447`) rotates only when a call fails in transport, so
a server that answers UNAVAILABLE, STALE or CAPACITY for ever is kept for ever,
although the next one in the list may have work.

`WorkRecovers` and `StopCompletes` hold in an instance in which a miner sends finitely many
SUBMITs. A miner that never lets its socket run empty also delays the stop: that
is the behaviour `server_fairness` shows.

**Deadlock** is checked in every run. `Terminated` is the only way to stop, and
it requires that the process (or, in the smaller modules, the bounded input)
has ended.

## 4. Theorems

Every safety property of a passing run, and each of the four refinements, is
also a theorem. The theorems hold for any constants that satisfy the `ASSUME` of
the module that declares them: any number of miners, jobs, chain servers,
descriptors and visitors, any set of replies, any frame sizes that fit `rx`, any
number of snapshot fields, any width of integers, any text of a configuration.

| theorem | property | what the invariant adds |
|---|---|---|
| `TypeCorrect` | `TypeOK` | `CallShape`: a call in flight belongs to the session being served, whose frame is still in the buffer. Without it the return of the call could not be typed |
| `SessionsAgree` | `JobsAgree` | `SessInv`: `JobsAgree` itself, which the helpers preserve together, and that a session has a hashrate only while there is work |
| `MutationsStayWithIssuer`, `SpentWorkIsDropped` | `MutationsGoToIssuer`, `SpentWorkDropped` | `WorkInv`: active work has a job id, was issued by the active server, and that server is connected; a call in flight goes to the issuer of its work; work is spent only while the call of a block that was answered OK is still in flight |
| `StatusIsCoherent` | `StatusCoherent` | `SessInv` and `WorkInv` together |
| `ListStaysCoherent` | `ListCoherent` | `ListInv`: the session being served is not also still to be served, and both are empty outside `service_clients`. Otherwise freeing the current one could leave it in the rest of the walk |
| `AcceptedIsTrue`, `EverySubmitAnswered`, `SilenceBeforeAddress` | `AcceptedMeansApplied`, `OneResultPerSubmit`, `SilentUntilRegistered` | `ResultInv`: nothing was written to a connection before it was accepted, and a call answered OK has its mutation, numbered like the SUBMIT it stands for, among the applied ones |
| `ServerImplementsLedger` | `ImplementsLedger` | `Budget`: a SUBMIT that is consumed or waits is within the bound on SUBMITs, so that its entry of the ledger exists. `FateInv`: what is applied or still travels belongs to one consumed SUBMIT; what travels is not applied, and was not answered or was answered with PROVIDER or PROTOCOL |
| `TransportTypes` | `TypeOK` | `Running`: outside `idle` there is a numbered call with a known method, and the frame being checked fits the buffer |
| `RepliesAreOwn`, `SocketStaysClean` | `OwnReply`, `CleanSocket` | `SockInv`: whatever travels on the open connection belongs to the running call, and there is at most one frame of it. Ids are not used in the argument: they repeat |
| `MutationsApplyOnce`, `OutcomesAreTrue`, `TransportImplementsLedger` | `AppliedAtMostOnce`, `TruthfulOutcome`, `ImplementsLedger` | `CallInv`: a mutation has one request in its life; while that is in flight it is neither applied nor answered, and its call has returned none of OK, REJECTED, CAPACITY; an answer says whether the mutation was applied |
| `TelemetryTypes` | `TypeOK` | `Counting`: the counter is twice the publications, plus one during a publication |
| `WorkerOwns` | `WorkerOwnsSockets` | `OwnerInv`: closed means joined, and the worker has sessions left to serve only during its walk |
| `VisitorsSeeWholeSnapshots`, `CopiesAreCurrent` | `AnswersWhole`, `CopyCurrent` | `Written`: a field carries the last publication's number unless the running one has written it; `Copied`: as long as the counter still has the value the copy began with, what has been copied is that publication. Both assume `Ordered` |
| `VisitTypes`, `VisitorGetsOneAnswer`, `VisitorNotCutShort` | `VisitTypeOK`, `OneAnswer`, `NotCutShort` | `AnswerInv`: no answer before the request is complete, none while the worker still receives, and whatever was sent is of the one answer that was made |
| `ReaderTypes`, `FramesAreWhole`, `ReaderImplementsQueue` | `TypeOK`, `WholeFrames`, `ImplementsQueue` | `InFrame`: `rx` holds exactly the bytes read of the first frame; `Progressing`: what has been established at each point of `service_client`. They assume `~HeaderOnly` |
| `SessionTypes`, `NoncesForwardedOnce`, `SessionKeepsLedger` | `SessionTypeOK`, `ForwardedOnce`, `SessionImplementsLedger` | `SessionInv`: a nonce that was sent is in the history of its life (`RecordedFirst`) and was sent once; the call in progress is not answered; only a call that was made is applied, and the reply in the call in progress tells whether that one is; what was lost on the way was answered with PROVIDER and is not applied (`FateOK`) |
| `HashratesAreExact` | `HashratesExact` | `RateInv`: all rates fit their integers, and the last frame's is accurate |
| `ShareTargetIsExact`, `VerdictsMatchJobs` | `ShareTargetExact`, `VerdictMatchesJob` | `TargetInv`: the JOB of the active template carries its share target, a verdict is that on the last proof under that template |
| `HandlesStayOwned`, `ExitReleases`, `WinsockStays` | `HandlesOwned`, `ExitReleasesAll`, `WinsockHeld` | `LifeInv`: whoever a descriptor is open for knows it (the converse of `HandlesOwned`, without which a leak would not be seen); what a step of start-up is about to open is closed; what the close is past stays closed; Winsock references are counted by the two flags. They have the hypothesis `StdinOpen` |
| `LoadOwnsHeap` | `HeapOwned` | `LoadInv`: at each place of the parser, which pointers are NULL, so that no assignment loses a block |
| `LoadOutcomeSound`, `LoadIsAllOrNothing` | `LoadOutcome`, `LoadAllOrNothing` | `OutcomeInv`: ports are below the limit while they are read and not zero once they count. `OrderInv`: the list, with the host and port of the server being read, is what the text says so far |

`CleanSocket` and `LoadOutcome` are not the property of a run; the second is a
part of `LoadAllOrNothing`.

**The server.** `StratumLedgerProofs` rests on `StratumWorkProofs`, and that on
`StratumServerProofs`: each layer assumes the invariants below it and shows that
a step preserves its own. The recurring facts are lemmas about the code's
helpers: what `client_remove`, `clear_work` and `send_pending_jobs` do to an
invariant, whichever handler calls them.

**Refinements.** Each proof shows that initial states map to initial states and
that each step maps to a step of the abstract specification or to none. For
`SubmitLedger` the step that needs the invariant is the refusal: the ledger lets
it happen only to a submission that is not applied, and lets nothing be applied
that was refused. So no request that still travels may belong to a submission
that was, or is being, answered with a refusal. Three different invariants say
this of the three programs (`FateInv`, `CallInv`, `FateOK`).

**Ownership.** In `StartupProofs` a heap and the places that point into it are
`Owned` when each block has one place. Four lemmas say what keeps that (a fresh
block with a new place, blocks freed with their places, a pointer forgotten, a
pointer moved); each action of the parser is one or two of them. The proof that
a way out frees the right blocks is that the places in `Unwound` and those of the
caller's configuration are all the places there are.

**Induction over data.** The library's induction theorems take a predicate as
a parameter, which the installed provers cannot instantiate. `Induction` states
the same principle of a set: `LeastNumber` follows from the library's theorem
that a well-founded order has minimal elements, and gives `IntervalInduction`,
that recursive functions over an interval exist (`RecursionExists`) and where
their values lie (`RecursionTyped`). With these the recursive functions of the
models are reasoned about: `TotalHashrate` equals the exact sum cut off
(`TotalIsMin`: once saturated it stays so, and before that the two agree), the
carries of `Scaled` add up to the product (`ScaledValue`: the first digits of the
result stand for `Factor` times those of the operand plus the carry into them),
the first digit that differs decides which number is larger (`PrefixDecides`),
and one more token adds to the reading of a text what `After` says
(`ReadingGrows`).

**Rates.** The rate is `quotient * Scale` plus a share of the remainder. For a
remainder that exceeds `UIntMax \div Scale` the code divides first, by the divisor's
thousandth rounded up; `LargeRemainder` says that this is short by at most one when
the remainder exceeds `Scale * Scale`. `RateOfFrame` gets that from
`UIntMax >= Scale^3`, the only use of this assumption.

**Only model-checked.** `StopCompletes` (of the server and of the process),
`WorkRecovers`, `CloseCompletes`, `CallReturns` and `EveryVisitorLeaves` are
liveness properties under fairness, which the proofs do not cover, as they do not
cover `ENABLED`. The runs that expect a violation have a counterexample and
nothing to prove.

## 5. Mutants

For every property of a passing run, `PROJECT.json` names one altered
definition under which TLC finds it violated: a forgotten reset in
`clear_client_jobs`, a `>` for `>=` in `chain_transport_next`, a missing join, a
retry of mutations, a connection kept after a failure, a body loop that stops
one byte early, a handle kept after its close, a product that wraps, a nonce
recorded after the submission instead of before, a host not freed on one way
out of the parser, and so on.

## 6. Findings

Shown by a run:

1. `server_fairness`. `service_client` reads until the socket is empty
   (`src/stn_stratum_server.c:2219`). `docs/STRATUM_TIMEOUT_REPAIR.md:26` and
   `tests/test_service_fairness.c:20` say one frame per client and pass.
2. `server_unavailable`. `refresh_work` retains the job after UNAVAILABLE
   (line 2447). `docs/PROTOCOL.md:71` and `docs/CHANGELOG.md:7` say it is
   cleared; `tests/test_work_unavailable.c:21` sides with the code.
3. `telemetry_unordered`. No fence follows the first counter store of
   `snapshot_publish` (`src/stn_telemetry.c:227`), so field stores may become
   visible before it, and a copy can be torn. x86 does not reorder stores in
   hardware; a compiler may, and weaker machines do.
4. `frame_reader_windows`. The Windows `service_client` dispatches on the header
   alone (line 889).
5. `lifecycle_sigpipe`. The chain transport and telemetry send without
   `MSG_NOSIGNAL` (`platforms/linux/stn_rpc_linux.c:126`,
   `src/stn_telemetry.c:363`) and main leaves SIGPIPE at its default: a send to a
   telemetry visitor or a chain server that has closed its connection and then
   answered with a reset ends the process (after a reset alone the first send
   fails with ECONNRESET, and the socket is dropped as it should be). `docs/CHANGELOG.md:149` and
   `docs/PROTOCOL.md:36` say that later calls can reconnect. The sends to miners
   do pass the flag.

Seen while modelling, without a run of their own:

- A malformed header closes the connection (`src/stn_stratum_server.c:2259`, the
  action `InvalidHeader`). `docs/PROTOCOL.md:96` says it is answered with
  RESULT 4.
- The first `chain_transport_select` closes the zeroed descriptor 0 (line 1802).
  That is standard input. When the process was started without one, it is the
  log, which was opened just before, and the pool listener is then given the
  same number. `startup` assumes that descriptor 0 is open at the start
  (`StdinOpen`).
- `stn_stratum_job_set` and `rpc_template` look at lengths only
  (`src/stn_stratum.c:60`). `docs/ARCHITECTURE.md:37` says that the work nonce
  and the previous hash are checked as well.

## 7. What is not modelled

- SHA-256: no state, and its compression function is out of TLC's reach;
  `ShareTarget` takes any number as the hash.
- Logging, and the text of JSON and HTTP: no property is about them.
- Byte layouts of STNM and STNC frames, beyond their sizes.
- The handlers of the Windows server. Its `service_client` hands them a header
  without a body (finding 4), so a miner cannot register there and the few places
  where its `process_submission` differs from the Linux one are not reached; the
  other handlers have the same text. Its reader, start-up, failover and close
  are modelled.
- The pool or solo label of a session: set once, only logged.
- The limit on the size of a template in the live server
  (`src/stn_rpc_client.c:59`): a template is forwarded with 69 bytes added, and
  by `docs/PROTOCOL.md:16` a chain's template leaves room for them.
  `StratumSession` models the limits of the prototype, whose relation is an
  assumption on constants (`SessionAssumption`).

## 8. Plan

1. `ClientList`: the linked list with its pointers, freed sessions and the saved
   `next` of each walk, shown to implement the set used in `StratumServer`.
2. Composition: `inbox` of `StratumServer` is the abstract queue of `FrameQueue`,
   and `CallOutcomes` the behaviour of `RpcTransport` in one operator. Both are
   argued in section 2 and checked on each side separately; a theorem that joins
   `TransportImplementsLedger` and `ServerImplementsLedger` over one call would
   replace the argument.
3. The action properties the liveness arguments rest on (what a pass decreases,
   what a failover brings nearer), as theorems of the form `[][A]_vars`.
