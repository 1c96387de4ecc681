---------------------------- MODULE StratumServer ----------------------------
(***************************************************************************)
(* The live Stratum coordinator (src/src/stn_stratum_server.c, the Linux   *)
(* branch): one thread that accepts miner connections, serves the frames   *)
(* they sent, polls a chain server for work, pushes jobs, forwards proofs  *)
(* as RPC mutations and fails over between configured chain servers.       *)
(*                                                                         *)
(* Miners, the signal handler and the chain servers are the environment.   *)
(* They take steps between any two steps of the loop, also while the loop  *)
(* is blocked in the RPC of a submission.                                  *)
(***************************************************************************)
EXTENDS Integers, FiniteSets, Sequences

CONSTANTS
    Conns,            \* miner connections; a miner that reconnects is another one
    Addresses,        \* well-formed STN addresses
    Jobs,             \* chain work ids (base and job id of one template)
    BadTargetJobs,    \* jobs whose target the submit path refuses
    NServers,         \* length of the configured chain server list
    PollTicks,        \* STN_STRATUM_CHAIN_POLL_TICKS
    TemplateReplies,  \* what a reachable chain may answer to MINING_TEMPLATE
    SubmitReplies,    \* what a reachable chain may answer to a mutation
    FrameMenu,        \* the frames miners send in this instance
    Flaky,            \* chain servers that go away and come back
    MayStop,          \* whether the operator stops the server
    MaxInbox,         \* bound: frames waiting on one socket
    MaxSubmits,       \* bound: SUBMIT frames of one connection
    Null

RpcCodes == {"OK", "INVALID", "VERSION_ERROR", "METHOD", "FORBIDDEN",
             "UNAVAILABLE", "NOT_FOUND", "REJECTED", "PROVIDER", "CAPACITY",
             "STALE", "TRANSPORT"}

ResultCodes == {"ACCEPTED", "REJECTED", "STALE", "PROVIDER", "PROTOCOL"}

(* A SUBMIT carries a job id and a nonce; what matters of the nonce is the  *)
(* class stn_share_classify gives it. PROGRESS carries the rate it reports, *)
(* zero or not. "BAD" is any header the reader refuses.                     *)
Frames ==
    [type : {"ADDRESS"}, addr : Addresses \cup {Null}]
      \cup [type : {"SUBMIT"}, job : Jobs, proof : {"INVALID", "QUALIFYING", "BLOCK"}]
      \cup [type : {"PROGRESS"}, job : Jobs, rate : {0, 1}]
      \cup [type : {"BAD"}]

Servers == 0 .. NServers - 1

ASSUME ConstantsAssumption ==
    /\ NServers \in Nat \ {0}
    /\ PollTicks \in Nat \ {0}
    /\ MaxInbox \in Nat \ {0}
    /\ MaxSubmits \in Nat
    /\ IsFiniteSet(Conns)
    /\ Null \notin Conns \cup Addresses \cup Jobs \cup Servers
    /\ BadTargetJobs \subseteq Jobs
    /\ TemplateReplies \subseteq RpcCodes
    /\ SubmitReplies \subseteq RpcCodes
    /\ FrameMenu \subseteq Frames
    /\ Flaky \subseteq Servers
    /\ MayStop \in BOOLEAN

VARIABLES
    \* the sockets and the miners behind them
    conn,            \* state of each connection
    peerGone,        \* connections whose miner has closed its end
    inbox,           \* frames sent by the miner and not yet consumed
    results,         \* RESULT codes written to the connection, in order
    wireJob,         \* job id of the last JOB frame written to the connection
    \* the client list
    clients,         \* server->clients
    clientCount,     \* server->client_count
    sess,            \* address, has_job, sent_job_id, hashrate of each session
    \* work and chain selection
    haveWork, activeJob, chainAvailable, activeServer,
    \* the loop
    pc, todo, cur, tick, running,
    call,            \* the submission RPC the loop is blocked in
    \* the chain servers
    chainUp,         \* which servers answer
    applied,         \* mutations the chain servers have applied
    late,            \* mutations given up on that a chain server may still handle
    \* history
    issuer,          \* the chain server that supplied the active work
    spent,           \* a chain server has applied a block made of the active work
    consumed         \* SUBMIT frames of registered sessions taken off each socket

sockVars  == <<conn, peerGone, inbox>>
listVars  == <<clients, clientCount>>
workVars  == <<haveWork, activeJob, issuer, spent>>
chainVars == <<chainAvailable, activeServer>>
loopVars  == <<pc, todo, cur, tick, running>>
wireVars  == <<results, wireJob>>
envVars   == <<chainUp, applied, late>>

vars == <<conn, peerGone, inbox, results, wireJob, clients, clientCount, sess,
          haveWork, activeJob, chainAvailable, activeServer, pc, todo, cur,
          tick, running, call, chainUp, applied, late, issuer, spent, consumed>>

NewSession == [addr |-> Null, hasJob |-> FALSE, sent |-> Null, rate |-> 0]

NoCall == [kind |-> "NONE", srv |-> Null, job |-> Null, addr |-> Null,
           from |-> Null, reply |-> "PENDING"]

Registered(c) == sess[c].addr # Null

-----------------------------------------------------------------------------
(* The state the program is in when stn_stratum_server_run enters its loop. *)

Init ==
    /\ conn = [c \in Conns |-> "idle"]
    /\ peerGone = {}
    /\ inbox = [c \in Conns |-> <<>>]
    /\ results = [c \in Conns |-> <<>>]
    /\ wireJob = [c \in Conns |-> Null]
    /\ clients = {} /\ clientCount = 0
    /\ sess = [c \in Conns |-> NewSession]
    /\ haveWork = FALSE /\ activeJob = Null /\ issuer = Null /\ spent = FALSE
    /\ chainAvailable = FALSE /\ activeServer = 0
    /\ pc = "accept" /\ todo = {} /\ cur = Null /\ tick = 0 /\ running = TRUE
    /\ call = NoCall
    /\ chainUp = Servers
    /\ applied = {} /\ late = {}
    /\ consumed = [c \in Conns |-> 0]

-----------------------------------------------------------------------------
(* Helpers of the server.                                                   *)

(* Plausible error: an exchange that failed is reported as a refusal.       *)
DoubtIsRefusal(code) == IF code = "OK" THEN "ACCEPTED" ELSE "REJECTED"

SubmitResultCode(code) ==
    CASE code = "OK" -> "ACCEPTED"
      [] code = "STALE" -> "STALE"
      [] code = "REJECTED" -> "REJECTED"
      [] code \in {"INVALID", "VERSION_ERROR"} -> "PROTOCOL"
      [] OTHER -> "PROVIDER"

(* stn_rpc_client_mining_template reports CAPACITY as UNAVAILABLE.          *)
TemplateCode(code) == IF code = "CAPACITY" THEN "UNAVAILABLE" ELSE code

(* Plausible error: clear_client_jobs forgets the hashrate.                 *)
ClearedKeepsRate(s) == [s EXCEPT !.hasJob = FALSE, !.sent = Null]

ClearedSession(s) == [s EXCEPT !.hasJob = FALSE, !.sent = Null, !.rate = 0]

(* Plausible error: clear_client_jobs leaves has_job and sent_job_id.       *)
ClearNoJobs(s, live) == [c \in Conns |-> [s[c] EXCEPT !.rate = 0]]

(* clear_client_jobs walks the client list.                                 *)
ClearClientJobs(s, live) ==
    [c \in Conns |-> IF c \in live THEN ClearedSession(s[c]) ELSE s[c]]

(* A freed session keeps only its address, for the properties about the     *)
(* results it was sent.                                                     *)
FreedSessions(s, dead) ==
    [c \in Conns |-> IF c \in dead THEN ClearedSession(s[c]) ELSE s[c]]

(* Plausible error: the session is freed but stays linked.                  *)
FreeWithoutUnlink(dead) ==
    /\ clients' = clients
    /\ clientCount' = clientCount - Cardinality(dead)
    /\ conn' = [c \in Conns |-> IF c \in dead THEN "closed" ELSE conn[c]]
    /\ inbox' = [c \in Conns |-> IF c \in dead THEN <<>> ELSE inbox[c]]

(* client_remove of every session of dead: unlink, count, close and free.   *)
(* What the miner had sent is lost with the socket.                         *)
ClientRemove(dead) ==
    /\ clients' = clients \ dead
    /\ clientCount' = clientCount - Cardinality(dead)
    /\ conn' = [c \in Conns |-> IF c \in dead THEN "closed" ELSE conn[c]]
    /\ inbox' = [c \in Conns |-> IF c \in dead THEN <<>> ELSE inbox[c]]

(* client_send_job to every session of to; the sends to dead fail and       *)
(* remove the session.                                                      *)
JobSent(s, to, j) ==
    [c \in Conns |-> IF c \in to THEN [s[c] EXCEPT !.hasJob = TRUE, !.sent = j]
                                 ELSE s[c]]

JobOnWire(to, j) == [c \in Conns |-> IF c \in to THEN j ELSE wireJob[c]]

(* Plausible error: send_pending_jobs does not ask for an address.          *)
NeedsJobAnyone(j) == {c \in clients : ~sess[c].hasJob \/ sess[c].sent # j}

(* The sessions send_pending_jobs writes to while job j is active.          *)
NeedsJob(j) ==
    {c \in clients : Registered(c) /\ (~sess[c].hasJob \/ sess[c].sent # j)}

(* send_pending_jobs over the whole list while job j is active.             *)
SendPending(j) ==
    \E dead \in SUBSET NeedsJob(j) :
        /\ ClientRemove(dead)
        /\ sess' = FreedSessions(JobSent(sess, NeedsJob(j) \ dead, j), dead)
        /\ wireJob' = JobOnWire(NeedsJob(j) \ dead, j)

(* Plausible error: only the sessions are cleared, the work stays.          *)
ClearNoWork == UNCHANGED <<haveWork, activeJob, issuer, spent>>

(* clear_work, apart from the sessions.                                     *)
ClearWork ==
    /\ haveWork' = FALSE
    /\ activeJob' = Null
    /\ issuer' = Null
    /\ spent' = FALSE

(* Plausible errors of chain_transport_next: the index is compared with >,  *)
(* or the same server is selected again.                                    *)
NextServerOffByOne == IF activeServer + 1 > NServers THEN 0 ELSE activeServer + 1
NextServerSame == activeServer

NextServer == IF activeServer + 1 >= NServers THEN 0 ELSE activeServer + 1

(* chain_transport_select without the clear_work it starts with.            *)
ChainTransportNext ==
    /\ activeServer' = NextServer
    /\ chainAvailable' = FALSE

-----------------------------------------------------------------------------
(* accept_clients. Each listener is drained; a failed accept leaves the     *)
(* rest of its queue for the next pass and a failed allocation also drops   *)
(* the connection it had accepted, at most one per listener.                *)

Backlog == {c \in Conns : conn[c] = "backlog"}

AcceptClients ==
    /\ pc = "accept" /\ running
    /\ \E new \in SUBSET Backlog : \E lost \in SUBSET (Backlog \ new) :
        /\ Cardinality(lost) <= 2
        /\ clients' = clients \cup new
        /\ clientCount' = clientCount + Cardinality(new)
        /\ conn' = [c \in Conns |-> CASE c \in new -> "open"
                                      [] c \in lost -> "closed"
                                      [] OTHER -> conn[c]]
        /\ sess' = [c \in Conns |-> IF c \in new THEN NewSession ELSE sess[c]]
        /\ todo' = clients \cup new
    /\ pc' = "service"
    /\ UNCHANGED <<peerGone, inbox, results, wireJob, workVars, chainVars, cur,
                   tick, running, call, envVars, consumed>>

(* service_clients moves to the next session of the list.                   *)
ServiceNext(c) ==
    /\ pc = "service" /\ cur = Null /\ c \in todo
    /\ cur' = c
    /\ todo' = todo \ {c}
    /\ UNCHANGED <<sockVars, wireVars, listVars, sess, workVars, chainVars, pc,
                   tick, running, call, envVars, consumed>>

(* service_client returns: nothing left to read on this socket.             *)
ServiceIdle ==
    /\ pc = "service" /\ cur # Null /\ call = NoCall
    /\ inbox[cur] = <<>> /\ cur \notin peerGone
    /\ cur' = Null
    /\ UNCHANGED <<sockVars, wireVars, listVars, sess, workVars, chainVars, pc,
                   todo, tick, running, call, envVars, consumed>>

(* The handler removed the session: service_client finds it gone.           *)
DropCurrent ==
    /\ ClientRemove({cur})
    /\ sess' = FreedSessions(sess, {cur})
    /\ cur' = Null

(* recv sees the end of the stream, or an error that discards what is left. *)
ServiceEof ==
    /\ pc = "service" /\ cur # Null /\ call = NoCall
    /\ cur \in peerGone
    /\ DropCurrent
    /\ UNCHANGED <<peerGone, wireVars, workVars, chainVars, pc, todo, tick,
                   running, call, envVars, consumed>>

(* A complete frame is in rx and service_client is about to dispatch it.    *)
Reading(type) ==
    /\ pc = "service" /\ cur # Null /\ call = NoCall
    /\ inbox[cur] # <<>> /\ Head(inbox[cur]).type = type

Frame == Head(inbox[cur])

(* rx_used=0 after a handler that left the session connected.               *)
FrameDone == inbox' = [inbox EXCEPT ![cur] = Tail(inbox[cur])]

InvalidHeader ==
    /\ Reading("BAD")
    /\ DropCurrent
    /\ UNCHANGED <<peerGone, wireVars, workVars, chainVars, pc, todo, tick,
                   running, call, envVars, consumed>>

(* process_address: a duplicate or malformed ADDRESS disconnects; a valid   *)
(* one registers the session and sends it the active job, if there is one.  *)
ProcessAddress ==
    /\ Reading("ADDRESS")
    /\ IF Registered(cur) \/ Frame.addr = Null
       THEN DropCurrent /\ UNCHANGED wireJob
       ELSE LET named == [sess EXCEPT ![cur].addr = Frame.addr] IN
            \/ /\ ~haveWork
               /\ sess' = named
               /\ FrameDone
               /\ UNCHANGED <<conn, listVars, cur, wireJob>>
            \/ /\ haveWork
               /\ sess' = JobSent(named, {cur}, activeJob)
               /\ wireJob' = JobOnWire({cur}, activeJob)
               /\ FrameDone
               /\ UNCHANGED <<conn, listVars, cur>>
            \/ /\ haveWork
               /\ ClientRemove({cur})
               /\ sess' = FreedSessions(named, {cur})
               /\ cur' = Null
               /\ UNCHANGED wireJob
    /\ UNCHANGED <<peerGone, results, workVars, chainVars, pc, todo, tick,
                   running, call, envVars, consumed>>

(* process_hash_progress.                                                   *)
ProgressRate ==
    IF /\ haveWork /\ sess[cur].hasJob
       /\ Frame.job = activeJob /\ Frame.job = sess[cur].sent
    THEN Frame.rate ELSE 0

ProcessHashProgress ==
    /\ Reading("PROGRESS")
    /\ IF ~Registered(cur)
       THEN DropCurrent
       ELSE /\ sess' = [sess EXCEPT ![cur].rate = ProgressRate]
            /\ FrameDone
            /\ UNCHANGED <<conn, listVars, cur>>
    /\ UNCHANGED <<peerGone, wireVars, workVars, chainVars, pc, todo, tick,
                   running, call, envVars, consumed>>

(* process_submission. A session without an address is removed and gets no  *)
(* RESULT.                                                                  *)
SubmitBeforeAddress ==
    /\ Reading("SUBMIT") /\ ~Registered(cur)
    /\ DropCurrent
    /\ UNCHANGED <<peerGone, wireVars, workVars, chainVars, pc, todo, tick,
                   running, call, envVars, consumed>>

(* The codes process_submission answers with before it calls the chain;     *)
(* PROVIDER is a failed scratch allocation for a block.                     *)
LocalAnswers ==
    IF ~haveWork \/ Frame.job # activeJob THEN {"STALE"}
    ELSE IF Frame.job \in BadTargetJobs THEN {"INVALID"}
    ELSE IF Frame.proof = "INVALID" THEN {"REJECTED"}
    ELSE IF Frame.proof = "BLOCK" THEN {"PROVIDER"}
    ELSE {}

Forwardable ==
    /\ haveWork /\ Frame.job = activeJob
    /\ Frame.job \notin BadTargetJobs
    /\ Frame.proof # "INVALID"

(* Plausible error: an uncertain outcome is left unanswered.                *)
SendCertainResult(code) ==
    /\ results' = IF code = "TRANSPORT" THEN results
                  ELSE [results EXCEPT ![cur] = Append(@, SubmitResultCode(code))]
    /\ FrameDone
    /\ UNCHANGED <<conn, listVars, cur>>

(* client_send_result to the current session.                               *)
SendResult(code) ==
    /\ results' = [results EXCEPT ![cur] = Append(@, SubmitResultCode(code))]
    /\ FrameDone
    /\ UNCHANGED <<conn, listVars, cur>>

AnswerLocally ==
    /\ Reading("SUBMIT") /\ Registered(cur)
    /\ \E code \in LocalAnswers :
         \/ SendResult(code) /\ UNCHANGED sess
         \/ DropCurrent /\ UNCHANGED results
    /\ consumed' = [consumed EXCEPT ![cur] = @ + 1]
    /\ UNCHANGED <<peerGone, wireJob, workVars, chainVars, pc, todo, tick,
                   running, call, envVars>>

(* stn_rpc_client_submit_share or _submit_work; the loop blocks.            *)
ForwardSubmission ==
    /\ Reading("SUBMIT") /\ Registered(cur) /\ Forwardable
    /\ call' = [kind |-> IF Frame.proof = "BLOCK" THEN "WORK" ELSE "SHARE",
                srv |-> activeServer, job |-> activeJob,
                addr |-> sess[cur].addr, from |-> issuer, reply |-> "PENDING"]
    /\ consumed' = [consumed EXCEPT ![cur] = @ + 1]
    /\ UNCHANGED <<sockVars, wireVars, listVars, sess, workVars, chainVars,
                   loopVars, envVars>>

(* Plausible errors: a failed exchange leaves the code at OK; the sockets   *)
(* have no timeout.                                                         *)
OutcomesOptimistic == IF call.reply = "PENDING" THEN {"OK"} ELSE {call.reply}
OutcomesNoTimeout == {call.reply} \ {"PENDING"}

(* The outcomes of the call: the chain's code; a reply the client cannot    *)
(* match or parse; a lost connection or timeout before or after the chain   *)
(* handled it; no memory for the request; a template that leaves no room    *)
(* for the miner's address within the largest payload.                      *)
CallOutcomes ==
    IF call.reply = "PENDING"
    THEN {"TRANSPORT", "CAPACITY"} \cup (IF call.kind = "WORK" THEN {"INVALID"} ELSE {})
    ELSE {call.reply, "INVALID", "TRANSPORT"}

(* Plausible error: a lost reply is taken for a call that was not made.     *)
ClearingCodesCertain(kind) ==
    {"STALE", "UNAVAILABLE", "PROVIDER"} \cup (IF kind = "WORK" THEN {"OK"} ELSE {})

(* The codes after which process_submission clears the active work.         *)
ClearingCodes(kind) ==
    {"STALE", "TRANSPORT", "UNAVAILABLE", "PROVIDER", "INVALID"}
      \cup (IF kind = "WORK" THEN {"OK"} ELSE {})

FailoverCodes(kind) == IF kind = "WORK" THEN {"TRANSPORT", "UNAVAILABLE"} ELSE {}

(* The mutation the loop is waiting for: the SUBMIT it is made of, the      *)
(* chain server it goes to and the one that issued its work.                *)
Mutation == [conn |-> cur, nth |-> consumed[cur], kind |-> call.kind,
             addr |-> call.addr, srv |-> call.srv, from |-> call.from]

(* The call returns: RESULT to the miner, then the work is invalidated, then *)
(* the next chain server is selected. Each part depends on the code.        *)
SubmissionReturns ==
    /\ pc = "service" /\ call # NoCall
    /\ \E code \in CallOutcomes : \E dead \in {{}, {cur}} :
        /\ IF dead = {} THEN SendResult(code)
                        ELSE ClientRemove(dead) /\ cur' = Null /\ UNCHANGED results
        /\ IF code \in ClearingCodes(call.kind)
           THEN /\ ClearWork
                /\ sess' = ClearClientJobs(FreedSessions(sess, dead), clients)
           ELSE /\ UNCHANGED workVars
                /\ sess' = FreedSessions(sess, dead)
        /\ IF code \in FailoverCodes(call.kind)
           THEN ChainTransportNext
           ELSE UNCHANGED chainVars
        /\ late' = IF code = "TRANSPORT" /\ call.reply = "PENDING"
                   THEN late \cup {Mutation} ELSE late
    /\ call' = NoCall
    /\ UNCHANGED <<peerGone, wireJob, pc, todo, tick, running, chainUp, applied,
                   consumed>>

ServiceDone ==
    /\ pc = "service" /\ cur = Null /\ todo = {}
    /\ pc' = "telemetry"
    /\ UNCHANGED <<sockVars, wireVars, listVars, sess, workVars, chainVars, todo,
                   cur, tick, running, call, envVars, consumed>>

-----------------------------------------------------------------------------
(* telemetry_tick: the status built from the server's state and handed to   *)
(* stn_telemetry_service_tick. The total hashrate is zero or not. The       *)
(* publication itself, and the thread that reads it, are TelemetryService.  *)

Status == [chain |-> chainAvailable, work |-> haveWork, job |-> activeJob,
           miners |-> Cardinality(clients),
           rate |-> IF \E c \in clients : sess[c].rate # 0 THEN 1 ELSE 0]

TelemetryTick ==
    /\ pc = "telemetry"
    /\ pc' = IF tick = 0 THEN "refresh" ELSE "send"
    /\ UNCHANGED <<sockVars, wireVars, listVars, sess, workVars, chainVars, todo,
                   cur, tick, running, call, envVars, consumed>>

-----------------------------------------------------------------------------
(* refresh_work: one MINING_TEMPLATE call and what each code leads to.      *)

TemplateReturns(code) ==
    /\ pc = "refresh"
    /\ \E raw \in IF activeServer \in chainUp THEN TemplateReplies ELSE {"TRANSPORT"} :
            code = TemplateCode(raw)

(* A template whose base or job id differs from the active one.             *)
RefreshNewWork(j) ==
    /\ TemplateReturns("OK")
    /\ ~haveWork \/ j # activeJob
    /\ haveWork' = TRUE /\ activeJob' = j
    /\ issuer' = activeServer /\ spent' = FALSE
    /\ SendPending(j)
    /\ chainAvailable' = TRUE
    /\ pc' = "send"
    /\ UNCHANGED <<peerGone, results, activeServer, todo, cur, tick, running,
                   call, envVars, consumed>>

RefreshSameWork ==
    /\ TemplateReturns("OK")
    /\ haveWork
    /\ issuer' = activeServer
    /\ chainAvailable' = TRUE
    /\ pc' = "send"
    /\ UNCHANGED <<sockVars, wireVars, listVars, sess, haveWork, activeJob, spent,
                   activeServer, todo, cur, tick, running, call, envVars, consumed>>

(* Reachable, no replacement yet: the current job is retained.              *)
RefreshUnavailable ==
    /\ TemplateReturns("UNAVAILABLE")
    /\ chainAvailable' = TRUE
    /\ pc' = "send"
    /\ UNCHANGED <<sockVars, wireVars, listVars, sess, workVars, activeServer,
                   todo, cur, tick, running, call, envVars, consumed>>

(* STALE and every other refusal.                                           *)
RefreshRefused ==
    /\ \E code \in RpcCodes \ {"OK", "UNAVAILABLE", "TRANSPORT"} : TemplateReturns(code)
    /\ chainAvailable' = TRUE
    /\ ClearWork
    /\ sess' = ClearClientJobs(sess, clients)
    /\ pc' = "send"
    /\ UNCHANGED <<sockVars, wireVars, listVars, activeServer, todo, cur, tick,
                   running, call, envVars, consumed>>

RefreshTransport ==
    /\ TemplateReturns("TRANSPORT")
    /\ ClearWork
    /\ sess' = ClearClientJobs(sess, clients)
    /\ ChainTransportNext
    /\ pc' = "send"
    /\ UNCHANGED <<sockVars, wireVars, listVars, todo, cur, tick, running, call,
                   envVars, consumed>>

(* The send_pending_jobs that ends every pass, the count and the sleep.     *)
SendPendingJobs ==
    /\ pc = "send"
    /\ IF haveWork THEN SendPending(activeJob)
                   ELSE UNCHANGED <<conn, inbox, listVars, sess, wireJob>>
    /\ tick' = (tick + 1) % PollTicks
    /\ pc' = "accept"
    /\ UNCHANGED <<peerGone, results, workVars, chainVars, todo, cur, running,
                   call, envVars, consumed>>

(* The loop sees running=0, then stn_stratum_server_close. The listeners'   *)
(* queues go with the listeners.                                            *)
CloseServer ==
    /\ pc = "accept" /\ ~running
    /\ clients' = {} /\ clientCount' = clientCount - Cardinality(clients)
    /\ conn' = [c \in Conns |-> IF conn[c] = "idle" THEN "idle" ELSE "closed"]
    /\ inbox' = [c \in Conns |-> <<>>]
    /\ sess' = FreedSessions(sess, clients)
    /\ ClearWork
    /\ chainAvailable' = FALSE
    /\ pc' = "done"
    /\ UNCHANGED <<peerGone, wireVars, activeServer, todo, cur, tick, running,
                   call, envVars, consumed>>

ServerStep ==
    \/ AcceptClients
    \/ \E c \in Conns : ServiceNext(c)
    \/ ServiceIdle \/ ServiceEof \/ InvalidHeader
    \/ ProcessAddress \/ ProcessHashProgress
    \/ SubmitBeforeAddress \/ AnswerLocally \/ ForwardSubmission \/ SubmissionReturns
    \/ ServiceDone
    \/ TelemetryTick
    \/ \E j \in Jobs : RefreshNewWork(j)
    \/ RefreshSameWork \/ RefreshUnavailable \/ RefreshRefused \/ RefreshTransport
    \/ SendPendingJobs
    \/ CloseServer

-----------------------------------------------------------------------------
(* The environment: miners, the chain servers and the stop signal.          *)

MinerConnect(c) ==
    /\ conn[c] = "idle" /\ pc # "done"
    /\ conn' = [conn EXCEPT ![c] = "backlog"]
    /\ UNCHANGED <<peerGone, inbox, wireVars, listVars, sess, workVars, chainVars,
                   loopVars, call, envVars, consumed>>

MinerSend(c, f) ==
    /\ conn[c] \in {"backlog", "open"} /\ c \notin peerGone
    /\ Len(inbox[c]) < MaxInbox
    /\ f.type = "SUBMIT" => consumed[c] + Len(inbox[c]) < MaxSubmits
    /\ inbox' = [inbox EXCEPT ![c] = Append(@, f)]
    /\ UNCHANGED <<conn, peerGone, wireVars, listVars, sess, workVars, chainVars,
                   loopVars, call, envVars, consumed>>

MinerClose(c) ==
    /\ conn[c] \in {"backlog", "open"} /\ c \notin peerGone
    /\ peerGone' = peerGone \cup {c}
    /\ UNCHANGED <<conn, inbox, wireVars, listVars, sess, workVars, chainVars,
                   loopVars, call, envVars, consumed>>

(* A reachable chain server handles the mutation it was sent; OK means it   *)
(* has applied it.                                                          *)
ChainHandles ==
    /\ call # NoCall /\ call.reply = "PENDING" /\ call.srv \in chainUp
    /\ \E code \in SubmitReplies :
        /\ call' = [call EXCEPT !.reply = code]
        /\ applied' = IF code = "OK" THEN applied \cup {Mutation} ELSE applied
        /\ spent' = (spent \/ (code = "OK" /\ call.kind = "WORK"))
    /\ UNCHANGED <<sockVars, wireVars, listVars, sess, haveWork, activeJob, issuer, chainVars,
                   loopVars, chainUp, late, consumed>>

(* It may also get to one long after the server gave up on the call, when   *)
(* nobody waits for the answer. The active work may by then be the same     *)
(* template fetched again; "spent" is about calls, and does not change.     *)
ChainHandlesLate(m) ==
    /\ m.srv \in chainUp
    /\ late' = late \ {m}
    /\ applied' \in {applied, applied \cup {m}}
    /\ UNCHANGED <<sockVars, wireVars, listVars, sess, workVars, chainVars, loopVars,
                   call, chainUp, consumed>>

ChainFlips(s) ==
    /\ chainUp' = IF s \in chainUp THEN chainUp \ {s} ELSE chainUp \cup {s}
    /\ UNCHANGED <<sockVars, wireVars, listVars, sess, workVars, chainVars,
                   loopVars, call, applied, late, consumed>>

(* stn_stratum_server_stop from the signal handler.                         *)
Stop ==
    /\ MayStop /\ running /\ running' = FALSE
    /\ UNCHANGED <<sockVars, wireVars, listVars, sess, workVars, chainVars, pc,
                   todo, cur, tick, call, envVars, consumed>>

Environment ==
    \/ \E c \in Conns : MinerConnect(c) \/ MinerClose(c)
    \/ \E c \in Conns : \E f \in FrameMenu : MinerSend(c, f)
    \/ ChainHandles
    \/ \E m \in late : ChainHandlesLate(m)
    \/ \E s \in Flaky : ChainFlips(s)
    \/ Stop

(* The process has ended; anything else without a successor is a deadlock.  *)
Terminated == pc = "done" /\ UNCHANGED vars

Next == ServerStep \/ Environment \/ Terminated

Spec == Init /\ [][Next]_vars

(* The loop never stops stepping while a step is possible: it sleeps 250 ms *)
(* between passes and every RPC returns within its socket timeout. Nothing  *)
(* is assumed of miners, of the chain servers or of the operator.           *)
FairSpec == Spec /\ WF_vars(ServerStep)

-----------------------------------------------------------------------------
(* Properties.                                                              *)

Sessions == [addr : Addresses \cup {Null}, hasJob : BOOLEAN,
             sent : Jobs \cup {Null}, rate : {0, 1}]

Calls == [kind : {"NONE", "SHARE", "WORK"}, srv : Servers \cup {Null},
          job : Jobs \cup {Null}, addr : Addresses \cup {Null},
          from : Servers \cup {Null}, reply : RpcCodes \cup {"PENDING"}]

Mutations == [conn : Conns, nth : Nat, kind : {"SHARE", "WORK"},
              addr : Addresses \cup {Null}, srv : Servers \cup {Null},
              from : Servers \cup {Null}]

(* Every variable of the server stays in its type: the shape of the fields  *)
(* of stn_stratum_server and of its sessions.                               *)
TypeOK ==
    /\ conn \in [Conns -> {"idle", "backlog", "open", "closed"}]
    /\ peerGone \subseteq Conns
    /\ inbox \in [Conns -> Seq(Frames)]
    /\ results \in [Conns -> Seq(ResultCodes)]
    /\ wireJob \in [Conns -> Jobs \cup {Null}]
    /\ clients \subseteq Conns /\ clientCount \in Int
    /\ sess \in [Conns -> Sessions]
    /\ haveWork \in BOOLEAN /\ activeJob \in Jobs \cup {Null}
    /\ issuer \in Servers \cup {Null} /\ spent \in BOOLEAN
    /\ chainAvailable \in BOOLEAN /\ activeServer \in Servers
    /\ pc \in {"accept", "service", "telemetry", "refresh", "send", "done"}
    /\ todo \subseteq Conns /\ cur \in Conns \cup {Null}
    /\ tick \in 0 .. PollTicks - 1 /\ running \in BOOLEAN
    /\ call \in Calls
    /\ chainUp \subseteq Servers
    /\ applied \subseteq Mutations /\ late \subseteq Mutations
    /\ consumed \in [Conns -> Nat]

(* Outside the instant in which a job is being pushed, a session holds a    *)
(* job exactly when it is registered and there is work; the job it holds is *)
(* the active one, and it is also the last JOB its miner was sent. This     *)
(* relates clear_work, the pushes of refresh_work and process_address, and  *)
(* the failures that remove sessions half way through a push.               *)
JobsAgree ==
    \A c \in clients :
        /\ sess[c].hasJob <=> haveWork /\ Registered(c)
        /\ sess[c].hasJob => sess[c].sent = activeJob /\ wireJob[c] = activeJob

(* A RESULT carries no id: a miner matches the n-th RESULT to its n-th      *)
(* SUBMIT. Whenever the n-th RESULT of a connection says ACCEPTED, a chain  *)
(* server has applied the mutation made of exactly the n-th SUBMIT of that  *)
(* connection, credited to the address that connection registered.          *)
AcceptedMeansApplied ==
    \A c \in Conns : \A n \in 1 .. Len(results[c]) :
        results[c][n] = "ACCEPTED" =>
            \E m \in applied : m.conn = c /\ m.nth = n /\ m.addr = sess[c].addr

(* Every SUBMIT consumed from a session that is still connected has been    *)
(* answered with one RESULT, apart from the one whose RPC is in flight.     *)
OneResultPerSubmit ==
    \A c \in clients :
        consumed[c] = Len(results[c]) + IF call # NoCall /\ cur = c THEN 1 ELSE 0

(* A mutation only ever reaches the chain server that issued the job it is  *)
(* made of: work does not survive chain_transport_select.                   *)
MutationsGoToIssuer == \A m \in applied : m.srv = m.from

(* What telemetry publishes is coherent: work is reported only while the    *)
(* chain is reported connected, with a job id, and a hashrate is reported   *)
(* only while work is.                                                      *)
StatusCoherent ==
    pc = "telemetry" =>
        /\ Status.work => Status.chain /\ Status.job # Null
        /\ Status.rate # 0 => Status.work

(* The client list: the count is its length, its sessions are the open      *)
(* sockets, and the walk of service_clients never holds a freed session,    *)
(* neither the one it serves nor one it has yet to serve.                   *)
ListCoherent ==
    /\ clientCount = Cardinality(clients)
    /\ clients = {c \in Conns : conn[c] = "open"}
    /\ todo \subseteq clients
    /\ cur \in clients \cup {Null}

(* Nothing is ever written to a connection that has not registered.         *)
SilentUntilRegistered ==
    \A c \in Conns : wireJob[c] # Null \/ results[c] # <<>> => sess[c].addr # Null

(* Once a chain server has applied a block made of the active work, that    *)
(* work is spent: the server no longer offers it when the call is over,     *)
(* whatever it learned of the outcome (accepted, a reply it could not read, *)
(* a connection lost after the chain had handled the request).              *)
SpentWorkDropped == call = NoCall /\ haveWork => ~spent

(* The RESULTs of the server keep the promise of SubmitLedger: a miner is   *)
(* told ACCEPTED only of a proof that is applied, and REJECTED or STALE     *)
(* only of one that is not and never will be, also when the call timed out  *)
(* and the chain acts on it afterwards.                                     *)
Submissions == Conns \X (1 .. MaxSubmits)
TakenSubmits == {k \in Submissions : k[2] <= consumed[k[1]]}
AppliedSubmits == {<<m.conn, m.nth>> : m \in applied}
AnsweredWith(codes) ==
    {k \in Submissions : k[2] <= Len(results[k[1]]) /\ results[k[1]][k[2]] \in codes}

Ledger == INSTANCE SubmitLedger WITH
    Keys <- Submissions,
    taken <- TakenSubmits,
    applied <- AppliedSubmits,
    accepted <- AnsweredWith({"ACCEPTED"}),
    refused <- AnsweredWith({"REJECTED", "STALE"}),
    unknown <- AnsweredWith({"PROVIDER", "PROTOCOL"})
ImplementsLedger == Ledger!Spec

(* After the stop signal the loop ends and everything is closed, also when  *)
(* the signal arrives during a blocked RPC or with frames still queued.     *)
StopCompletes == ~running ~> pc = "done"

(* Every server that is reachable answers a request for a template with     *)
(* one.                                                                     *)
TemplatesGiven ==
    RefreshUnavailable \/ RefreshRefused \/ RefreshTransport
        => activeServer \notin chainUp

(* Once some chain server stays reachable, and those that are reachable     *)
(* have a template to give, the server ends up with work and, when no more  *)
(* blocks are found, keeps it, whichever server it was using and however    *)
(* many are down. Both hypotheses are needed: refresh_work leaves a server  *)
(* only when the call fails in transport, so one that answers UNAVAILABLE   *)
(* or STALE for ever is kept for ever, although another may have work.      *)
WorkRecovers ==
    \A up \in SUBSET Servers \ {{}} :
        <>[](chainUp = up /\ running) /\ <>[][TemplatesGiven]_vars => <>[]haveWork

-----------------------------------------------------------------------------
(* What the documents say and the code does not do.                         *)

(* docs/STRATUM_TIMEOUT_REPAIR.md: one complete frame per client per server *)
(* pass, so that a busy miner cannot starve the others, the refresh or the  *)
(* stop. service_clients would then leave every session it serves; but      *)
(* service_client drains the socket, and a miner that keeps it filled holds *)
(* the loop for ever.                                                       *)
BusyMinerYields == \A c \in Conns : cur = c ~> cur # c

(* docs/PROTOCOL.md: on UNAVAILABLE the server clears its current work and  *)
(* session job flags; refresh_work retains them.                            *)
UnavailableClearsWork == [][RefreshUnavailable => ~haveWork']_vars

=============================================================================
