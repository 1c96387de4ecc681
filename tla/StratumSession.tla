---------------------------- MODULE StratumSession ----------------------------
(***************************************************************************)
(* The session prototype (src/src/stn_stratum.c) over its chain adapter    *)
(* (src/src/stn_chain_rpc_adapter.c): a library that one thread calls. A   *)
(* submission asks the chain for its tip, compares it with the job's base, *)
(* looks the nonce up in a bounded history, records it and only then       *)
(* submits the block; the chain moves on between any two of its RPCs, and  *)
(* an RPC may fail before or after the chain has acted on it.              *)
(*                                                                         *)
(* A submission is one call of stn_stratum_submit, and every return of it  *)
(* is an answer. The nonce does not name a submission: a caller may submit *)
(* one again, with another job or in another life of the session, and the  *)
(* answers differ. The second call for a nonce whose first reply was lost  *)
(* returns STALE or DUPLICATE although the first call may have been        *)
(* applied: the answer is about the second call.                           *)
(*                                                                         *)
(* The chain and its RPC server are external. A block is abstracted to the *)
(* snapshot it belongs to and its size: the code looks at nothing else.    *)
(***************************************************************************)
EXTENDS Integers, Sequences, SequencesExt, FiniteSets

CONSTANTS
    Sessions, Jobs,     \* session and job objects of the caller
    Nonces, Identities,
    Sizes,              \* of the blocks of the chain's templates
    BlockHeaderSize,         \* STN_CHAIN_BLOCK_HEADER_SIZE
    BlockCapacity,      \* STN_STRATUM_BLOCK_CAPACITY
    PrefixSize,         \* 68 bytes before the block, and the identity's 69
    MaxPayload,         \* STN_RPC_CLIENT_MAX_PAYLOAD
    DuplicateCapacity,  \* STN_STRATUM_DUPLICATE_CAPACITY
    MaxTip,             \* bound: times the chain moves
    MaxInits,           \* bound: times a session object is initialised
    MaxCalls,           \* bound: calls of stn_stratum_submit
    Null

ASSUME SessionAssumption ==
    /\ Sizes \subseteq Nat
    /\ BlockHeaderSize \in Nat \ {0} /\ BlockCapacity \in Nat /\ PrefixSize \in Nat
    /\ BlockCapacity + PrefixSize <= MaxPayload
    /\ DuplicateCapacity \in Nat \ {0}
    /\ MaxTip \in Nat /\ MaxInits \in Nat \ {0} /\ MaxCalls \in Nat

VARIABLES
    session,    \* the session objects
    job,        \* the job objects
    call,       \* the call in progress, between two of its RPCs
    tip,        \* the chain's tip
    sent,       \* how often each nonce was handed to the transport
    applied,    \* the numbers of the submissions the chain has applied
    flying,     \* submissions lost on the way that the chain may still see
    answers     \* what the calls of stn_stratum_submit returned, in order

apiVars   == <<session, job>>
chainVars == <<tip, applied, flying>>
sessionsVars ==
    <<session, job, call, tip, sent, applied, flying, answers>>

Tips == 0 .. MaxTip

(* A nonce in a life of a session object: what the history remembers.       *)
NonceKeys == [session : Sessions, epoch : 1 .. MaxInits, nonce : Nonces]

Template == [base : Tips, size : Sizes]
NoTemplate == [base |-> 0, size |-> 0]

(* stn_stratum_session_init.                                                *)
NewSession(epoch) ==
    [epoch |-> epoch, subscribed |-> FALSE, identity |-> Null,
     submitted |-> <<>>]

NoCall == [op |-> "none"]

(* What stn_stratum_submit returns: refusals of the session and the chain,  *)
(* OK, and PROVIDER for whatever else became of an RPC.                     *)
Refusals == {"STALE", "REJECTED", "DUPLICATE", "CAPACITY", "NO_JOB", "STRUCTURE"}
Statuses == Refusals \cup {"OK", "PROVIDER"}

SessionsInit ==
    /\ session = [s \in Sessions |-> NewSession(1)]
    /\ job = [j \in Jobs |-> [active |-> FALSE, of |-> NoTemplate]]
    /\ call = NoCall
    /\ tip = 0
    /\ sent = [k \in NonceKeys |-> 0]
    /\ applied = {} /\ flying = {} /\ answers = <<>>

Idle == call = NoCall

-----------------------------------------------------------------------------
(* Calls without an RPC.                                                    *)

SessionInit(s) ==
    /\ Idle /\ session[s].epoch < MaxInits
    /\ session' = [session EXCEPT ![s] = NewSession(@.epoch + 1)]
    /\ UNCHANGED <<job, call, sent, answers, chainVars>>

(* A wrong version is refused and changes nothing.                          *)
Subscribe(s) ==
    /\ Idle
    /\ session' = [session EXCEPT ![s].subscribed = TRUE]
    /\ UNCHANGED <<job, call, sent, answers, chainVars>>

RegisterIdentity(s, i) ==
    /\ Idle
    /\ session' = [session EXCEPT ![s].identity = i]
    /\ UNCHANGED <<job, call, sent, answers, chainVars>>

JobInvalidate(j) ==
    /\ Idle
    /\ job' = [job EXCEPT ![j].active = FALSE]
    /\ UNCHANGED <<session, call, sent, answers, chainVars>>

-----------------------------------------------------------------------------
(* stn_stratum_job_refresh over rpc_template: one MINING_TEMPLATE request.  *)

(* The template the chain would answer with now.                            *)
Current(size) == [base |-> tip, size |-> size]

(* stn_stratum_job_set.                                                     *)
JobSet(t) == [active |-> TRUE, of |-> t]

(* The checks of rpc_template and job_set on the length of the block.       *)
TemplateFits(t) == t.size >= BlockHeaderSize /\ t.size <= BlockCapacity

JobRefresh(j) ==
    /\ Idle
    /\ \E size \in Sizes :
        /\ TemplateFits(Current(size))
        /\ job' = [job EXCEPT ![j] = JobSet(Current(size))]
    /\ UNCHANGED <<session, call, sent, answers, chainVars>>

(* A refresh that fails, for the RPC or for the length, leaves the job as   *)
(* it was: it changes nothing and is not an action.                         *)

-----------------------------------------------------------------------------
(* stn_stratum_submit.                                                      *)

Key(s, n) == [session |-> s, epoch |-> session[s].epoch, nonce |-> n]

HasJob(s, j) == session[s].subscribed /\ job[j].active

MayCall == Idle /\ Len(answers) < MaxCalls

Ready(s, j) == MayCall /\ HasJob(s, j) /\ session[s].identity # Null

(* stn_stratum_submit returns.                                              *)
Return(status) ==
    /\ answers' = Append(answers, status)
    /\ call' = NoCall

(* The answers before the chain is asked.                                   *)
SubmitNotReady(s, j) ==
    /\ MayCall /\ ~Ready(s, j)
    /\ Return(IF HasJob(s, j) THEN "STRUCTURE" ELSE "NO_JOB")
    /\ UNCHANGED <<apiVars, sent, chainVars>>

(* rpc_tip fails; also a template too short or of the wrong length.         *)
SubmitTipFails(s, j) ==
    /\ Ready(s, j)
    /\ Return("PROVIDER")
    /\ UNCHANGED <<apiVars, sent, chainVars>>

Duplicate(s, n) == n \in ToSet(session[s].submitted)

(* Plausible error: the history is full one entry too late.                 *)
FullTooLate(s) == Len(session[s].submitted) > DuplicateCapacity

Full(s) == Len(session[s].submitted) = DuplicateCapacity

(* Plausible error: the nonce is recorded only when the chain has taken it. *)
RecordLater(s, n) == session' = session

Record(s, n) == session' = [session EXCEPT ![s].submitted = Append(@, n)]

(* What stn_stratum_submit refuses by itself once rpc_tip has answered.     *)
Refusal(s, j, n) ==
    IF job[j].of.base # tip THEN "STALE"
    ELSE IF Duplicate(s, n) THEN "DUPLICATE"
    ELSE IF Full(s) THEN "CAPACITY"
    ELSE "none"

SubmitRefused(s, j, n) ==
    /\ Ready(s, j) /\ Refusal(s, j, n) # "none"
    /\ Return(Refusal(s, j, n))
    /\ UNCHANGED <<apiVars, sent, chainVars>>

(* What passes is recorded, and the call goes on to rpc_submit.             *)
SubmitTip(s, j, n) ==
    /\ Ready(s, j) /\ Refusal(s, j, n) = "none"
    /\ Record(s, n)
    /\ call' = [op |-> "submit", nth |-> Len(answers) + 1, key |-> Key(s, n),
                of |-> job[j].of, reply |-> "none",
                identity |-> session[s].identity]
    /\ UNCHANGED <<job, sent, answers, chainVars>>

Submittable(t) == t.size >= BlockHeaderSize /\ t.size + PrefixSize <= MaxPayload

(* rpc_submit hands the payload to the client, which sends it.              *)
SubmitSend ==
    /\ call.op = "submit" /\ Submittable(call.of)
    /\ call' = [call EXCEPT !.op = "wait"]
    /\ sent' = [sent EXCEPT ![call.key] = @ + 1]
    /\ UNCHANGED <<apiVars, answers, chainVars>>

(* Plausible error: what is not an acceptance is a rejection.               *)
StatusPessimist(code) == IF code = "OK" THEN "OK" ELSE "REJECTED"

(* map_rpc, and what stn_stratum_submit keeps of it.                        *)
Status(code) ==
    IF code \in {"OK", "STALE", "REJECTED"} THEN code ELSE "PROVIDER"

Answer(code) == Return(Status(code))

(* Nothing is sent: the payload is too long or its buffers are not to be    *)
(* had.                                                                     *)
SubmitUnsent ==
    /\ call.op = "submit"
    /\ Answer(IF Submittable(call.of) THEN "CAPACITY" ELSE "ARGUMENT")
    /\ UNCHANGED <<apiVars, sent, chainVars>>

SubmitReturns ==
    /\ call.op = "wait" /\ call.reply # "none"
    /\ Answer(call.reply)
    /\ UNCHANGED <<apiVars, sent, chainVars>>

(* The reply is lost or malformed. The chain may have acted on the request, *)
(* or may still get it.                                                     *)
SubmitLost ==
    /\ call.op = "wait"
    /\ \E code \in {"TRANSPORT", "INVALID"} :
        /\ code = "INVALID" => call.reply # "none"
        /\ Answer(code)
        /\ flying' = IF call.reply = "none" THEN flying \cup {call} ELSE flying
    /\ UNCHANGED <<apiVars, tip, applied, sent>>

-----------------------------------------------------------------------------
(* The chain.                                                               *)

Extend ==
    /\ tip < MaxTip
    /\ tip' = tip + 1

ChainMoves ==
    /\ Extend
    /\ UNCHANGED <<apiVars, call, sent, applied, flying, answers>>

(* It takes a block for its tip or refuses it; a block for an earlier tip   *)
(* is stale.                                                                *)
ChainAnswers ==
    /\ call.op = "wait" /\ call.reply = "none"
    /\ \/ /\ call.of.base = tip /\ Extend
          /\ applied' = applied \cup {call.nth}
          /\ call' = [call EXCEPT !.reply = "OK"]
       \/ /\ call' = [call EXCEPT !.reply = IF call.of.base # tip THEN "STALE"
                                            ELSE "REJECTED"]
          /\ UNCHANGED <<tip, applied>>
    /\ UNCHANGED <<apiVars, sent, flying, answers>>

ChainAnswersLate(m) ==
    /\ flying' = flying \ {m}
    /\ \/ m.of.base = tip /\ Extend /\ applied' = applied \cup {m.nth}
       \/ UNCHANGED <<tip, applied>>
    /\ UNCHANGED <<apiVars, call, sent, answers>>

-----------------------------------------------------------------------------
SubmitStep == SubmitSend \/ SubmitUnsent \/ SubmitReturns \/ SubmitLost

SessionsNext ==
    \/ \E s \in Sessions : SessionInit(s) \/ Subscribe(s)
    \/ \E s \in Sessions, i \in Identities : RegisterIdentity(s, i)
    \/ \E j \in Jobs : JobInvalidate(j) \/ JobRefresh(j)
    \/ \E s \in Sessions, j \in Jobs :
          \/ SubmitNotReady(s, j) \/ SubmitTipFails(s, j)
          \/ \E n \in Nonces : SubmitRefused(s, j, n) \/ SubmitTip(s, j, n)
    \/ SubmitStep
    \/ ChainMoves \/ ChainAnswers
    \/ \E m \in flying : ChainAnswersLate(m)

SessionsSpec == SessionsInit /\ [][SessionsNext]_sessionsVars

-----------------------------------------------------------------------------
(* Properties.                                                              *)

(* Every variable stays in its type; a history never outgrows its array and *)
(* holds no nonce twice.                                                    *)
SessionTypeOK ==
    /\ session \in [Sessions ->
                      [epoch : 1 .. MaxInits, subscribed : BOOLEAN,
                       identity : Identities \cup {Null},
                       submitted : Seq(Nonces)]]
    /\ \A s \in Sessions : /\ Len(session[s].submitted) <= DuplicateCapacity
                           /\ IsInjective(session[s].submitted)
    /\ \A j \in Jobs : job[j].of \in Template \cup {NoTemplate}
    /\ call.op \in {"none", "submit", "wait"}
    /\ tip \in Tips
    /\ sent \in [NonceKeys -> Nat]
    /\ Len(answers) <= MaxCalls
    /\ answers \in Seq(Statuses)

(* stn_stratum_submit hands a nonce to the chain at most once in the life   *)
(* of a session, whatever the outcome of the first time and however often   *)
(* the job, the tip and the identity have changed since.                    *)
ForwardedOnce == \A k \in NonceKeys : sent[k] <= 1

(* stn_stratum_submit keeps the promises of SubmitLedger to its caller, for *)
(* every call and every status: OK only of a call whose block the chain     *)
(* applied; STALE, REJECTED, DUPLICATE, CAPACITY, NO_JOB and STRUCTURE,     *)
(* whether the chain or the session says so, only of a call whose block it  *)
(* never will; PROVIDER of all others, lost replies included.               *)
AnsweredWith(statuses) == {i \in DOMAIN answers : answers[i] \in statuses}

(* The submission a call is about, while there is one.                      *)
Pending == IF call = NoCall THEN {} ELSE {call.nth}

Ledger == INSTANCE SubmitLedger WITH
    Keys     <- 1 .. MaxCalls,
    taken    <- DOMAIN answers \cup Pending,
    accepted <- AnsweredWith({"OK"}),
    refused  <- AnsweredWith(Refusals),
    unknown  <- AnsweredWith({"PROVIDER"})

SessionImplementsLedger == Ledger!Spec

=============================================================================
