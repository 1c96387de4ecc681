----------------------------- MODULE RpcTransport -----------------------------
(***************************************************************************)
(* The STNC client and its Linux transport (src/src/stn_rpc_client.c and   *)
(* src/platforms/linux/stn_rpc_linux.c): one blocking call at a time, over *)
(* a connection that is kept between calls, dropped on every failure, and  *)
(* reopened on demand; reads are sent a second time, mutations never are.  *)
(*                                                                         *)
(* The chain end is external: it serves a request it has received at any   *)
(* time, also after the client has given up on it, and may never do so.    *)
(***************************************************************************)
EXTENDS Integers

CONSTANTS
    Called,      \* the methods called in this instance
    MaxCalls,    \* bound: calls made
    MaxConns,    \* bound: connections opened
    IdModulus,   \* range of the 64-bit next_request_id
    Replies      \* what the chain may answer

Reads == {"INFO", "MINING_TEMPLATE"}
Mutations == {"SUBMIT_WORK", "SUBMIT_SHARE"}
Methods == Reads \cup Mutations

ASSUME TransportAssumption ==
    /\ Called \subseteq Methods
    /\ MaxCalls \in Nat \ {0}
    /\ MaxConns \in Nat \ {0}
    /\ IdModulus \in Nat /\ IdModulus > 2
    /\ Replies \subseteq {"OK", "REJECTED", "MALFORMED", "OVERSIZE"}

VARIABLES
    sock,       \* the open connection, 0 if none
    lastSock,   \* connections opened so far
    nextId,     \* next_request_id
    serial,     \* calls made so far; the running call is number serial
    asked,      \* the method of each call
    reqId, attempt,
    pc,         \* where the running call is
    reply,      \* the response frame the call has read
    requests,   \* request frames on the way to the chain
    responses,  \* response frames on the way to the client
    applied,    \* mutations the chain has applied
    outcome     \* what each call returned

callVars == <<serial, asked, reqId>>
netVars  == <<requests, responses, applied>>
vars == <<sock, lastSock, nextId, serial, asked, reqId, attempt, pc, reply,
          requests, responses, applied, outcome>>

NoReply == [conn |-> 0, serial |-> 0, id |-> 0, code |-> "NONE"]

Init ==
    /\ sock = 0 /\ lastSock = 0 /\ nextId = 1
    /\ serial = 0 /\ reqId = 1 /\ attempt = 1
    /\ pc = "idle" /\ reply = NoReply
    /\ requests = {} /\ responses = {} /\ applied = {}
    /\ asked = [n \in 1 .. MaxCalls |-> "NONE"]
    /\ outcome = [n \in 1 .. MaxCalls |-> "NONE"]

-----------------------------------------------------------------------------
(* call: an id that is not zero, then the exchange.                         *)

Increment(n) == (n + 1) % IdModulus

(* Plausible error: zero is not skipped when the counter wraps.             *)
PlainId == nextId

(* The id of the next request: zero is skipped when the counter wraps.      *)
FreshId == IF nextId = 0 THEN Increment(nextId) ELSE nextId

Begin(m) ==
    /\ pc = "idle" /\ serial < MaxCalls
    /\ serial' = serial + 1
    /\ asked' = [asked EXCEPT ![serial + 1] = m]
    /\ reqId' = FreshId
    /\ nextId' = Increment(FreshId)
    /\ attempt' = 1
    /\ pc' = "connect"
    /\ UNCHANGED <<sock, lastSock, reply, netVars, outcome>>

(* No memory for the frames: the call fails before it takes an id.          *)
BeginNoMemory(m) ==
    /\ pc = "idle" /\ serial < MaxCalls
    /\ serial' = serial + 1
    /\ asked' = [asked EXCEPT ![serial + 1] = m]
    /\ outcome' = [outcome EXCEPT ![serial + 1] = "CAPACITY"]
    /\ UNCHANGED <<sock, lastSock, nextId, reqId, attempt, pc, reply, netVars>>

Return(code) ==
    /\ outcome' = [outcome EXCEPT ![serial] = code]
    /\ pc' = "idle"

(* Plausible error: every request is sent again.                            *)
RetryAlways == attempt = 1

(* stn_rpc_linux_exchange repeats a failed exchange once, reads only.       *)
MayRetry == attempt = 1 /\ asked[serial] \in Reads

(* exchange_once failed.                                                    *)
Failed ==
    IF MayRetry
    THEN attempt' = 2 /\ pc' = "connect" /\ UNCHANGED outcome
    ELSE Return("TRANSPORT") /\ UNCHANGED attempt

(* connect_socket.                                                          *)
Reuse ==
    /\ pc = "connect" /\ sock # 0
    /\ pc' = "send"
    /\ UNCHANGED <<sock, lastSock, nextId, callVars, attempt, reply, netVars, outcome>>

Connect ==
    /\ pc = "connect" /\ sock = 0 /\ lastSock < MaxConns
    /\ sock' = lastSock + 1 /\ lastSock' = lastSock + 1
    /\ pc' = "send"
    /\ UNCHANGED <<nextId, callVars, attempt, reply, netVars, outcome>>

ConnectFails ==
    /\ pc = "connect" /\ sock = 0
    /\ Failed
    /\ UNCHANGED <<sock, lastSock, nextId, callVars, reply, netVars>>

(* Plausible error: a failed exchange leaves the connection open.           *)
KeepSocket == sock' = sock

DropSocket == sock' = 0

(* send_all: the whole frame leaves, or the connection is dropped; the      *)
(* chain does not act on part of a frame.                                   *)
Send ==
    /\ pc = "send"
    /\ requests' = requests \cup {[conn |-> sock, serial |-> serial, id |-> reqId,
                                   method |-> asked[serial], attempt |-> attempt]}
    /\ pc' = "recv"
    /\ UNCHANGED <<sock, lastSock, nextId, callVars, attempt, reply, responses,
                   applied, outcome>>

SendFails ==
    /\ pc = "send"
    /\ DropSocket
    /\ Failed
    /\ UNCHANGED <<lastSock, nextId, callVars, reply, netVars>>

(* recv_all of header and payload; a frame larger than the caller's buffer  *)
(* is refused and drops the connection.                                     *)
Receive(r) ==
    /\ pc = "recv" /\ r.conn = sock /\ r.code # "OVERSIZE"
    /\ reply' = r
    /\ responses' = responses \ {r}
    /\ pc' = "check"
    /\ UNCHANGED <<sock, lastSock, nextId, callVars, attempt, requests, applied, outcome>>

ReceiveOversize(r) ==
    /\ pc = "recv" /\ r.conn = sock /\ r.code = "OVERSIZE"
    /\ responses' = responses \ {r}
    /\ DropSocket
    /\ Failed
    /\ UNCHANGED <<lastSock, nextId, callVars, reply, requests, applied>>

(* Plausible error: the sockets have no timeout.                            *)
NeverFails == FALSE /\ UNCHANGED vars

(* The 60-second timeout, the end of the stream or an error.                *)
ReceiveFails ==
    /\ pc = "recv"
    /\ DropSocket
    /\ Failed
    /\ UNCHANGED <<lastSock, nextId, callVars, reply, netVars>>

(* Plausible error: a payload that does not fit the method is not refused.  *)
UncheckedCode(r) == IF r.id # reqId THEN "INVALID"
                    ELSE IF r.code = "MALFORMED" THEN "REJECTED" ELSE r.code

(* The checks of call on the frame: a frame with another id, or whose       *)
(* payload does not fit the method, is INVALID and the connection stays.    *)
CheckedCode(r) ==
    IF r.id # reqId \/ r.code = "MALFORMED" THEN "INVALID" ELSE r.code

Check ==
    /\ pc = "check"
    /\ Return(CheckedCode(reply))
    /\ reply' = NoReply
    /\ UNCHANGED <<sock, lastSock, nextId, callVars, attempt, netVars>>

(* chain_transport_select between two calls: close and both inits. The      *)
(* request ids start again at 1.                                            *)
Reselect ==
    /\ pc = "idle" /\ serial > 0
    /\ sock' = 0
    /\ nextId' = 1
    /\ UNCHANGED <<lastSock, callVars, attempt, pc, reply, netVars, outcome>>

ClientStep ==
    \/ Reuse \/ Connect \/ ConnectFails \/ Send \/ SendFails
    \/ \E r \in responses : Receive(r) \/ ReceiveOversize(r)
    \/ ReceiveFails \/ Check

Caller ==
    \/ \E m \in Called : Begin(m) \/ BeginNoMemory(m)
    \/ Reselect

-----------------------------------------------------------------------------
(* The chain serves a request it has received and answers on the same       *)
(* connection. A reply that is not a refusal means the mutation is applied. *)

ChainServes(q) ==
    /\ requests' = requests \ {q}
    /\ \E code \in Replies :
        /\ responses' = responses \cup {[conn |-> q.conn, serial |-> q.serial,
                                         id |-> q.id, code |-> code]}
        /\ applied' = IF q.method \in Mutations /\ code # "REJECTED"
                      THEN applied \cup {[serial |-> q.serial, attempt |-> q.attempt]}
                      ELSE applied
    /\ UNCHANGED <<sock, lastSock, nextId, callVars, attempt, pc, reply, outcome>>

Terminated == pc = "idle" /\ serial = MaxCalls /\ UNCHANGED vars

Next == ClientStep \/ Caller \/ (\E q \in requests : ChainServes(q)) \/ Terminated

Spec == Init /\ [][Next]_vars

(* The call runs in the server's loop and its sockets time out. Nothing is  *)
(* assumed of the chain or of the caller.                                   *)
FairSpec == Spec /\ WF_vars(ClientStep)

-----------------------------------------------------------------------------
(* Properties.                                                              *)

Codes == {"OK", "REJECTED", "INVALID", "TRANSPORT", "CAPACITY"}

Requests == [conn : Nat, serial : Nat, id : Nat, method : Methods, attempt : {1, 2}]
Responses == [conn : Nat, serial : Nat, id : Nat,
              code : {"OK", "REJECTED", "MALFORMED", "OVERSIZE"}]

(* The client's state and what is in flight stay in their types; the id of  *)
(* a request is never zero, also after the counter wraps.                   *)
TypeOK ==
    /\ sock \in 0 .. lastSock /\ lastSock \in 0 .. MaxConns
    /\ nextId \in 0 .. IdModulus - 1
    /\ serial \in 0 .. MaxCalls
    /\ asked \in [1 .. MaxCalls -> Methods \cup {"NONE"}]
    /\ reqId \in 1 .. IdModulus - 1
    /\ attempt \in {1, 2}
    /\ pc \in {"idle", "connect", "send", "recv", "check"}
    /\ reply \in Responses \cup {NoReply}
    /\ requests \subseteq Requests
    /\ responses \subseteq Responses
    /\ applied \subseteq [serial : Nat, attempt : {1, 2}]
    /\ outcome \in [1 .. MaxCalls -> Codes \cup {"NONE"}]

(* A call makes the chain apply its mutation at most once, whatever fails   *)
(* and however late the chain acts on what it received.                     *)
AppliedAtMostOnce ==
    \A x, y \in applied : x.serial = y.serial => x = y

(* The frame a call reads is the answer to that very call, never the late   *)
(* answer of an earlier one, although ids repeat after a reselection.       *)
OwnReply == pc = "check" => reply.serial = serial

(* Between calls an open connection carries nothing.                        *)
CleanSocket ==
    pc = "idle" /\ sock # 0 =>
        /\ \A q \in requests : q.conn # sock
        /\ \A r \in responses : r.conn # sock

(* What a call returned stays true: after OK the mutation is applied, after *)
(* REJECTED or CAPACITY it is not and never will be. Only TRANSPORT and     *)
(* INVALID leave the outcome open.                                          *)
TruthfulOutcome ==
    \A n \in 1 .. MaxCalls :
        /\ outcome[n] \in {"REJECTED", "CAPACITY"} => \A x \in applied : x.serial # n
        /\ outcome[n] = "OK" /\ asked[n] \in Mutations => \E x \in applied : x.serial = n

(* The codes of mutations keep the promise of SubmitLedger to the caller.   *)
Taken == {n \in 1 .. serial : asked[n] \in Mutations}
AppliedCalls == {x.serial : x \in applied}
CodedWith(codes) == {n \in Taken : outcome[n] \in codes}

Ledger == INSTANCE SubmitLedger WITH
    Keys <- 1 .. MaxCalls,
    taken <- Taken,
    applied <- AppliedCalls,
    accepted <- CodedWith({"OK"}),
    refused <- CodedWith({"REJECTED", "CAPACITY"}),
    unknown <- CodedWith({"TRANSPORT", "INVALID"})
ImplementsLedger == Ledger!Spec

(* Every call returns, whether or not the chain answers.                    *)
CallReturns == pc # "idle" ~> pc = "idle"

=============================================================================
