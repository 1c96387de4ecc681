-------------------------- MODULE RpcTransportProofs --------------------------
(***************************************************************************)
(* Proofs about RpcTransport for any number of calls, connections and ids: *)
(* a late or lost answer is never taken for another, and what a call       *)
(* reports of its mutation stays true.                                     *)
(***************************************************************************)
EXTENDS RpcTransport, TLAPS

(* A running call has a number and a known method; the frame it has read is *)
(* one that fits the buffer.                                                *)
Running ==
    /\ pc # "idle" => serial \in 1 .. MaxCalls /\ asked[serial] \in Methods
    /\ pc = "check" => reply \in Responses /\ reply.code # "OVERSIZE"

TypeInv == TypeOK /\ Running

(* The open connection carries nothing outside the wait for a response, and *)
(* during it at most one frame, the request or the response of this call.   *)
SockInv ==
    /\ pc \in {"send", "recv"} => sock # 0
    /\ \A q \in requests : q.conn \in 1 .. lastSock
    /\ \A r \in responses : r.conn \in 1 .. lastSock
    /\ \A q \in requests : q.conn = sock =>
           /\ pc = "recv" /\ q.serial = serial
           /\ \A r \in responses : r.conn # sock
           /\ \A q2 \in requests : q2.conn = sock => q2 = q
    /\ \A r \in responses : r.conn = sock =>
           /\ pc = "recv" /\ r.serial = serial
           /\ \A r2 \in responses : r2.conn = sock => r2 = r
    /\ OwnReply

(* Which calls the frames in flight and the applied mutations belong to. A  *)
(* mutation has one request in its life (its attempt is the first), and     *)
(* until the chain has served it nothing is known of it: it is not applied, *)
(* not answered, and the call has not returned OK, REJECTED or CAPACITY.    *)
Mutating(n) == asked[n] \in Mutations

Numbered ==
    /\ \A n \in 1 .. MaxCalls : n > serial => outcome[n] = "NONE"
    /\ \A q \in requests : q.serial \in 1 .. serial /\ q.method = asked[q.serial]
    /\ \A r \in responses : r.serial \in 1 .. serial
    /\ \A x \in applied : x.serial \in 1 .. serial

OneAttempt ==
    /\ pc # "idle" /\ Mutating(serial) => attempt = 1
    /\ \A q \in requests : Mutating(q.serial) => q.attempt = 1
    /\ \A x \in applied : Mutating(x.serial) /\ x.attempt = 1

Unsent ==
    pc \in {"connect", "send"} /\ Mutating(serial) =>
        /\ \A q \in requests : q.serial # serial
        /\ \A r \in responses : r.serial # serial
        /\ \A x \in applied : x.serial # serial

Unserved ==
    \A q \in requests : Mutating(q.serial) =>
        /\ \A x \in applied : x.serial # q.serial
        /\ \A r \in responses : r.serial # q.serial
        /\ pc = "check" => reply.serial # q.serial
        /\ outcome[q.serial] \notin {"OK", "REJECTED", "CAPACITY"}
        /\ \A q2 \in requests : q2.serial = q.serial => q2 = q

(* An answer says whether the mutation was applied.                         *)
Says(r) ==
    Mutating(r.serial) =>
        (r.code # "REJECTED" <=> \E x \in applied : x.serial = r.serial)

Answered ==
    /\ \A r \in responses : Says(r)
    /\ pc = "check" => Says(reply)

CallInv ==
    /\ pc # "idle" => outcome[serial] = "NONE"
    /\ Numbered /\ OneAttempt /\ Unsent /\ Unserved /\ Answered
    /\ TruthfulOutcome

-----------------------------------------------------------------------------
(* Types.                                                                   *)

(* Ids stay in range and are never zero.                                    *)
LEMMA IdType ==
    ASSUME nextId \in 0 .. IdModulus - 1
    PROVE  FreshId \in 1 .. IdModulus - 1 /\ Increment(FreshId) \in 0 .. IdModulus - 1
BY TransportAssumption DEF FreshId, Increment

(* What Failed does to the running call.                                    *)
LEMMA FailedType ==
    ASSUME TypeInv, pc # "idle", Failed
    PROVE  /\ attempt' \in {1, 2}
           /\ pc' \in {"connect", "idle"}
           /\ outcome' \in [1 .. MaxCalls -> Codes \cup {"NONE"}]
           /\ \A n \in 1 .. MaxCalls : n # serial => outcome'[n] = outcome[n]
           /\ outcome'[serial] \in {"TRANSPORT", outcome[serial]}
           /\ pc' = "connect" => attempt' = 2 /\ asked[serial] \in Reads /\ outcome' = outcome
<1>1. serial \in 1 .. MaxCalls /\ outcome \in [1 .. MaxCalls -> Codes \cup {"NONE"}]
    BY DEF TypeInv, TypeOK, Running
<1>2. "TRANSPORT" \in Codes
    BY DEF Codes
<1>3. CASE MayRetry
    BY <1>1, <1>3 DEF Failed, MayRetry
<1>4. CASE ~MayRetry
    BY <1>1, <1>2, <1>4 DEF Failed, Return, TypeInv, TypeOK
<1>5. QED
    BY <1>3, <1>4

(* The client starts in its types.                                          *)
LEMMA TypeInit == Init => TypeInv
BY TransportAssumption DEF Init, TypeInv, TypeOK, Running

(* Every step keeps the types.                                              *)
LEMMA TypeStep == TypeInv /\ [Next]_vars => TypeInv'
<1> SUFFICES ASSUME TypeInv, [Next]_vars PROVE TypeInv'
    OBVIOUS
<1> USE DEF callVars, netVars
<1>0. TypeOK /\ Running
    BY DEF TypeInv
<1>1. ASSUME NEW m \in Called, Begin(m) PROVE TypeInv'
    <2>1. m \in Methods /\ serial + 1 \in 1 .. MaxCalls
        BY <1>0, <1>1, TransportAssumption DEF Begin, TypeOK
    <2>2. /\ reqId' \in 1 .. IdModulus - 1 /\ nextId' \in 0 .. IdModulus - 1
        BY <1>0, <1>1, IdType DEF Begin, TypeOK
    <2>3. asked' \in [1 .. MaxCalls -> Methods \cup {"NONE"}] /\ asked'[serial'] \in Methods
        BY <1>0, <1>1, <2>1 DEF Begin, TypeOK
    <2>4. QED
        BY <1>0, <1>1, <2>1, <2>2, <2>3 DEF Begin, TypeInv, TypeOK, Running
<1>2. ASSUME NEW m \in Called, BeginNoMemory(m) PROVE TypeInv'
    <2>1. m \in Methods /\ serial + 1 \in 1 .. MaxCalls /\ "CAPACITY" \in Codes
        BY <1>0, <1>2, TransportAssumption DEF BeginNoMemory, TypeOK, Codes
    <2>2. QED
        BY <1>0, <1>2, <2>1 DEF BeginNoMemory, TypeInv, TypeOK, Running
<1>3. CASE Reuse
    BY <1>0, <1>3 DEF Reuse, TypeInv, TypeOK, Running
<1>4. CASE Connect
    BY <1>0, <1>4, TransportAssumption DEF Connect, TypeInv, TypeOK, Running
<1>5. CASE ConnectFails
    BY <1>0, <1>5, FailedType DEF ConnectFails, TypeInv, TypeOK, Running
<1>6. CASE Send
    <2>1. [conn |-> sock, serial |-> serial, id |-> reqId,
           method |-> asked[serial], attempt |-> attempt] \in Requests
        BY <1>0, <1>6, TransportAssumption DEF Send, TypeOK, Running, Requests
    <2>2. QED
        BY <1>0, <1>6, <2>1 DEF Send, TypeInv, TypeOK, Running
<1>7. CASE SendFails
    BY <1>0, <1>7, FailedType, TransportAssumption
    DEF SendFails, DropSocket, TypeInv, TypeOK, Running
<1>8. ASSUME NEW r \in responses, Receive(r) PROVE TypeInv'
    BY <1>0, <1>8 DEF Receive, TypeInv, TypeOK, Running
<1>9. ASSUME NEW r \in responses, ReceiveOversize(r) PROVE TypeInv'
    BY <1>0, <1>9, FailedType, TransportAssumption
    DEF ReceiveOversize, DropSocket, TypeInv, TypeOK, Running
<1>10. CASE ReceiveFails
    BY <1>0, <1>10, FailedType, TransportAssumption
    DEF ReceiveFails, DropSocket, TypeInv, TypeOK, Running
<1>11. CASE Check
    <2>1. CheckedCode(reply) \in Codes
        BY <1>0, <1>11 DEF Check, Running, CheckedCode, Codes, Responses
    <2>2. QED
        BY <1>0, <1>11, <2>1 DEF Check, Return, TypeInv, TypeOK, Running
<1>12. CASE Reselect
    BY <1>0, <1>12, TransportAssumption DEF Reselect, TypeInv, TypeOK, Running
<1>13. ASSUME NEW q \in requests, ChainServes(q) PROVE TypeInv'
    <2>1. q \in Requests
        BY <1>0 DEF TypeOK
    <2>2. PICK code \in Replies :
              /\ responses' = responses \cup {[conn |-> q.conn, serial |-> q.serial,
                                               id |-> q.id, code |-> code]}
              /\ applied' = IF q.method \in Mutations /\ code # "REJECTED"
                            THEN applied \cup {[serial |-> q.serial, attempt |-> q.attempt]}
                            ELSE applied
        BY <1>13 DEF ChainServes
    <2>3. [conn |-> q.conn, serial |-> q.serial, id |-> q.id, code |-> code] \in Responses
        BY <2>1, TransportAssumption DEF Requests, Responses
    <2>4. [serial |-> q.serial, attempt |-> q.attempt] \in [serial : Nat, attempt : {1, 2}]
        BY <2>1 DEF Requests
    <2>5. QED
        BY <1>0, <1>13, <2>2, <2>3, <2>4 DEF ChainServes, TypeInv, TypeOK, Running
<1>14. CASE UNCHANGED vars
    BY <1>0, <1>14 DEF vars, TypeInv, TypeOK, Running
<1>15. QED
    BY <1>1, <1>2, <1>3, <1>4, <1>5, <1>6, <1>7, <1>8, <1>9, <1>10, <1>11, <1>12,
       <1>13, <1>14 DEF Next, ClientStep, Caller, Terminated

(* The client's state and the frames in flight stay in their types; request *)
(* ids are never zero, also when the 64-bit counter wraps.                  *)
THEOREM TransportTypes == Spec => []TypeOK
<1>1. TypeInv => TypeOK
    BY DEF TypeInv
<1>2. QED
    BY <1>1, TypeInit, TypeStep, PTL DEF Spec

-----------------------------------------------------------------------------
(* The connection.                                                          *)

(* A dropped connection carries nothing.                                    *)
LEMMA SockDropped ==
    ASSUME TypeInv, SockInv, sock' = 0, pc' \in {"connect", "idle"},
           requests' \subseteq requests, responses' \subseteq responses,
           UNCHANGED lastSock
    PROVE  SockInv'
<1>1. /\ \A q \in requests' : q.conn \in 1 .. lastSock
      /\ \A r \in responses' : r.conn \in 1 .. lastSock
    BY DEF SockInv
<1>2. lastSock \in Nat
    BY TransportAssumption DEF TypeInv, TypeOK
<1>3. /\ \A q \in requests' : q.conn # 0
      /\ \A r \in responses' : r.conn # 0
    BY <1>1, <1>2
<1>4. QED
    BY <1>1, <1>3 DEF SockInv, OwnReply

(* Every step keeps the connection clean.                                   *)
LEMMA SockStep == TypeInv /\ SockInv /\ [Next]_vars => SockInv'
<1> SUFFICES ASSUME TypeInv, SockInv, [Next]_vars PROVE SockInv'
    OBVIOUS
<1> USE DEF callVars, netVars
<1>0. /\ sock \in Nat /\ lastSock \in Nat /\ sock <= lastSock /\ serial \in Nat
    BY TransportAssumption DEF TypeInv, TypeOK
<1>1. ASSUME NEW m \in Called, Begin(m) PROVE SockInv'
    BY <1>1 DEF Begin, SockInv, OwnReply
<1>2. ASSUME NEW m \in Called, BeginNoMemory(m) PROVE SockInv'
    BY <1>2 DEF BeginNoMemory, SockInv, OwnReply
<1>3. CASE Reuse
    BY <1>3 DEF Reuse, SockInv, OwnReply
<1>4. CASE Connect
    <2>1. /\ sock' = lastSock + 1 /\ lastSock' = lastSock + 1 /\ pc' = "send"
          /\ UNCHANGED <<requests, responses>>
        BY <1>4 DEF Connect
    <2>2. /\ \A q \in requests : q.conn \in 1 .. lastSock' /\ q.conn # sock'
          /\ \A r \in responses : r.conn \in 1 .. lastSock' /\ r.conn # sock'
        BY <1>0, <2>1 DEF SockInv
    <2>3. QED
        BY <1>0, <2>1, <2>2 DEF SockInv, OwnReply
<1>5. CASE ConnectFails
    <2>1. pc' \in {"connect", "idle"}
        BY <1>5, FailedType DEF ConnectFails
    <2>2. QED
        BY <1>5, <2>1, SockDropped DEF ConnectFails
<1>6. CASE Send
    <2>1. sock # 0 /\ sock \in 1 .. lastSock
        BY <1>0, <1>6 DEF Send, SockInv
    <2>2. /\ \A q \in requests : q.conn # sock
          /\ \A r \in responses : r.conn # sock
        BY <1>6 DEF Send, SockInv
    <2>3. \A q \in requests' : q \in requests \/ (q.conn = sock /\ q.serial = serial)
        BY <1>6 DEF Send
    <2>4. \A q, q2 \in requests' : q.conn = sock /\ q2.conn = sock => q = q2
        BY <1>6, <2>2 DEF Send
    <2>5. /\ pc' = "recv"
          /\ UNCHANGED <<sock, lastSock, serial, responses>>
        BY <1>6 DEF Send
    <2>6. QED
        BY <2>1, <2>2, <2>3, <2>4, <2>5 DEF SockInv, OwnReply
<1>7. CASE SendFails
    <2>1. pc' \in {"connect", "idle"}
        BY <1>7, FailedType DEF SendFails
    <2>2. QED
        BY <1>7, <2>1, SockDropped DEF SendFails, DropSocket
<1>8. ASSUME NEW r \in responses, Receive(r) PROVE SockInv'
    <2>1. /\ r.conn = sock /\ pc = "recv" /\ pc' = "check" /\ reply' = r
          /\ responses' = responses \ {r}
          /\ UNCHANGED <<sock, lastSock, serial, requests>>
        BY <1>8 DEF Receive
    <2>2. r.serial = serial
        BY <2>1 DEF SockInv
    <2>3. \A r2 \in responses' : r2.conn # sock
        BY <2>1 DEF SockInv
    <2>4. \A q \in requests : q.conn # sock
        BY <2>1 DEF SockInv
    <2>5. QED
        BY <2>1, <2>2, <2>3, <2>4 DEF SockInv, OwnReply
<1>9. ASSUME NEW r \in responses, ReceiveOversize(r) PROVE SockInv'
    <2>1. pc' \in {"connect", "idle"}
        BY <1>9, FailedType DEF ReceiveOversize
    <2>2. QED
        BY <1>9, <2>1, SockDropped DEF ReceiveOversize, DropSocket
<1>10. CASE ReceiveFails
    <2>1. pc' \in {"connect", "idle"}
        BY <1>10, FailedType DEF ReceiveFails
    <2>2. QED
        BY <1>10, <2>1, SockDropped DEF ReceiveFails, DropSocket
<1>11. CASE Check
    BY <1>11 DEF Check, Return, SockInv, OwnReply
<1>12. CASE Reselect
    BY <1>12, SockDropped DEF Reselect
<1>13. ASSUME NEW q \in requests, ChainServes(q) PROVE SockInv'
    <2>1. PICK r : /\ r.conn = q.conn /\ r.serial = q.serial
                   /\ responses' = responses \cup {r}
        BY <1>13 DEF ChainServes
    <2>2. /\ requests' = requests \ {q}
          /\ UNCHANGED <<sock, lastSock, serial, pc, reply>>
        BY <1>13 DEF ChainServes
    <2>3. CASE q.conn = sock
        <3>1. pc = "recv" /\ q.serial = serial /\ \A r2 \in responses : r2.conn # sock
            BY <2>3 DEF SockInv
        <3>2. \A q2 \in requests' : q2.conn # sock
            BY <2>2, <2>3 DEF SockInv
        <3>3. QED
            BY <2>1, <2>2, <2>3, <3>1, <3>2 DEF SockInv, OwnReply
    <2>4. CASE q.conn # sock
        BY <2>1, <2>2, <2>4 DEF SockInv, OwnReply
    <2>5. QED
        BY <2>3, <2>4
<1>14. CASE UNCHANGED vars
    BY <1>14 DEF vars, SockInv, OwnReply
<1>15. QED
    BY <1>1, <1>2, <1>3, <1>4, <1>5, <1>6, <1>7, <1>8, <1>9, <1>10, <1>11, <1>12,
       <1>13, <1>14 DEF Next, ClientStep, Caller, Terminated

(* There is no connection at the start.                                     *)
LEMMA SockInit == Init => SockInv
BY DEF Init, SockInv, OwnReply

(* The frame a call reads is the answer to that very call, although late    *)
(* answers to earlier calls may still arrive and ids repeat.                *)
THEOREM RepliesAreOwn == Spec => []OwnReply
<1>1. SockInv => OwnReply
    BY DEF SockInv
<1>2. QED
    BY <1>1, SockInit, SockStep, TypeInit, TypeStep, PTL DEF Spec

(* A connection that is kept between two calls carries no frame.            *)
THEOREM SocketStaysClean == Spec => []CleanSocket
<1>1. SockInv => CleanSocket
    BY DEF SockInv, CleanSocket
<1>2. QED
    BY <1>1, SockInit, SockStep, TypeInit, TypeStep, PTL DEF Spec

-----------------------------------------------------------------------------
(* What calls report.                                                       *)

(* The network as it was, or with frames taken off it; the call goes on, or *)
(* returns TRANSPORT.                                                       *)
LEMMA CallFails ==
    ASSUME TypeInv, CallInv, pc # "idle", Failed,
           requests' = requests, responses' \subseteq responses,
           UNCHANGED <<serial, asked, applied>>
    PROVE  CallInv'
<1>1. /\ pc' \in {"connect", "idle"}
      /\ \A n \in 1 .. MaxCalls : n # serial => outcome'[n] = outcome[n]
      /\ outcome'[serial] \in {"TRANSPORT", outcome[serial]}
      /\ pc' = "connect" => attempt' = 2 /\ asked[serial] \in Reads /\ outcome' = outcome
    BY FailedType
<1>2. serial \in 1 .. MaxCalls /\ outcome[serial] = "NONE"
    BY DEF TypeInv, Running, CallInv
<1>3. \A n \in 1 .. MaxCalls : outcome'[n] \in {"TRANSPORT", outcome[n]}
    BY <1>1
<1>4. pc' = "connect" => ~Mutating(serial)
    BY <1>1 DEF Mutating, Reads, Mutations
<1>5. \A q \in requests : q.serial \in 1 .. MaxCalls
    BY <1>2, TransportAssumption DEF CallInv, Numbered
<1>6. Numbered'
    BY <1>1, <1>2 DEF CallInv, Numbered
<1>7. OneAttempt'
    BY <1>1, <1>4 DEF CallInv, OneAttempt, Mutating
<1>8. Unsent'
    BY <1>1, <1>4 DEF Unsent, Mutating
<1>9. Unserved'
    BY <1>1, <1>3, <1>5 DEF CallInv, Unserved, Mutating
<1>10. Answered'
    BY <1>1 DEF CallInv, Answered, Says, Mutating
<1>11. TruthfulOutcome'
    BY <1>3 DEF CallInv, TruthfulOutcome
<1>12. pc' # "idle" => outcome'[serial'] = "NONE"
    BY <1>1, <1>2
<1>13. QED
    BY <1>6, <1>7, <1>8, <1>9, <1>10, <1>11, <1>12 DEF CallInv

(* A new call has a number that nothing in flight carries.                  *)
LEMMA FreshCall ==
    ASSUME TypeInv, CallInv, serial < MaxCalls
    PROVE  /\ serial \in Nat /\ serial + 1 \in 1 .. MaxCalls
           /\ 1 .. serial \subseteq 1 .. (serial + 1)
           /\ outcome[serial + 1] = "NONE"
           /\ \A n \in 1 .. serial : n # serial + 1
           /\ \A q \in requests : q.serial \in 1 .. serial
           /\ \A r \in responses : r.serial \in 1 .. serial
           /\ \A x \in applied : x.serial \in 1 .. serial
<1>1. serial \in Nat /\ MaxCalls \in Nat
    BY TransportAssumption DEF TypeInv, TypeOK
<1>2. QED
    BY <1>1 DEF CallInv, Numbered

(* Every step keeps the reports true.                                       *)
LEMMA CallStep == TypeInv /\ SockInv /\ CallInv /\ [Next]_vars => CallInv'
<1> SUFFICES ASSUME TypeInv, SockInv, CallInv, [Next]_vars PROVE CallInv'
    OBVIOUS
<1> USE DEF callVars, netVars
<1>0. serial \in 0 .. MaxCalls /\ MaxCalls \in Nat /\ TypeOK /\ Running
    BY TransportAssumption DEF TypeInv, TypeOK
<1>1. ASSUME NEW m \in Called, Begin(m) PROVE CallInv'
    <2>1. /\ serial' = serial + 1 /\ pc = "idle" /\ pc' = "connect" /\ attempt' = 1
          /\ UNCHANGED <<requests, responses, applied, outcome>>
        BY <1>1 DEF Begin
    <2>2. /\ serial \in Nat /\ serial + 1 \in 1 .. MaxCalls
          /\ outcome[serial + 1] = "NONE"
          /\ \A n \in 1 .. serial : n # serial + 1 /\ n \in 1 .. (serial + 1)
          /\ \A q \in requests : q.serial \in 1 .. serial
          /\ \A r \in responses : r.serial \in 1 .. serial
          /\ \A x \in applied : x.serial \in 1 .. serial
        BY <1>1, FreshCall DEF Begin
    <2>3. \A n \in 1 .. MaxCalls : n # serial + 1 => asked'[n] = asked[n]
        BY <1>0, <1>1 DEF Begin, TypeOK
    <2>4. \A n \in 1 .. serial : asked'[n] = asked[n]
        BY <1>0, <2>2, <2>3
    <2>5. Numbered'
        BY <1>0, <2>1, <2>2, <2>4 DEF CallInv, Numbered
    <2>6. OneAttempt'
        BY <2>1, <2>2, <2>4 DEF CallInv, OneAttempt, Mutating
    <2>7. Unsent'
        BY <2>1, <2>2 DEF Unsent
    <2>8. Unserved'
        BY <2>1, <2>2, <2>4 DEF CallInv, Unserved, Mutating
    <2>9. Answered'
        BY <2>1, <2>2, <2>4 DEF CallInv, Answered, Says, Mutating
    <2>10. TruthfulOutcome'
        BY <2>1, <2>2, <2>3 DEF CallInv, TruthfulOutcome
    <2>11. QED
        BY <2>1, <2>2, <2>5, <2>6, <2>7, <2>8, <2>9, <2>10 DEF CallInv
<1>2. ASSUME NEW m \in Called, BeginNoMemory(m) PROVE CallInv'
    <2>1. /\ serial' = serial + 1 /\ pc = "idle" /\ pc' = "idle"
          /\ UNCHANGED <<requests, responses, applied>>
        BY <1>2 DEF BeginNoMemory
    <2>2. /\ serial \in Nat /\ serial + 1 \in 1 .. MaxCalls
          /\ \A n \in 1 .. serial : n # serial + 1 /\ n \in 1 .. (serial + 1)
          /\ \A q \in requests : q.serial \in 1 .. serial
          /\ \A r \in responses : r.serial \in 1 .. serial
          /\ \A x \in applied : x.serial \in 1 .. serial
        BY <1>2, FreshCall DEF BeginNoMemory
    <2>3. /\ \A n \in 1 .. MaxCalls : n # serial + 1 => asked'[n] = asked[n] /\ outcome'[n] = outcome[n]
          /\ outcome'[serial + 1] = "CAPACITY"
        BY <1>0, <1>2, <2>2 DEF BeginNoMemory, TypeOK
    <2>4. \A n \in 1 .. serial : asked'[n] = asked[n] /\ outcome'[n] = outcome[n]
        BY <1>0, <2>2, <2>3
    <2>5. Numbered'
        BY <1>0, <2>1, <2>2, <2>3, <2>4 DEF CallInv, Numbered
    <2>6. OneAttempt'
        BY <2>1, <2>2, <2>4 DEF CallInv, OneAttempt, Mutating
    <2>7. Unsent'
        BY <2>1 DEF Unsent
    <2>8. Unserved'
        BY <2>1, <2>2, <2>4 DEF CallInv, Unserved, Mutating
    <2>9. Answered'
        BY <2>1, <2>2, <2>4 DEF CallInv, Answered, Says, Mutating
    <2>10. TruthfulOutcome'
        BY <2>1, <2>2, <2>3 DEF CallInv, TruthfulOutcome
    <2>11. QED
        BY <2>1, <2>5, <2>6, <2>7, <2>8, <2>9, <2>10 DEF CallInv
<1>3. CASE Reuse \/ Connect
    <2>1. /\ pc = "connect" /\ pc' = "send"
          /\ UNCHANGED <<serial, asked, attempt, reply, requests, responses, applied, outcome>>
        BY <1>3 DEF Reuse, Connect
    <2>2. QED
        BY <2>1 DEF CallInv, Numbered, OneAttempt, Unsent, Unserved, Answered, Says,
                    Mutating, TruthfulOutcome
<1>4. CASE ConnectFails
    BY <1>4, CallFails DEF ConnectFails
<1>5. CASE Send
    <2>1. /\ pc = "send" /\ pc' = "recv"
          /\ UNCHANGED <<serial, asked, attempt, reply, responses, applied, outcome>>
        BY <1>5 DEF Send
    <2>2. PICK q : /\ q.serial = serial /\ q.method = asked[serial] /\ q.attempt = attempt
                   /\ requests' = requests \cup {q}
        BY <1>5 DEF Send
    <2>3. serial \in 1 .. MaxCalls /\ outcome[serial] = "NONE" /\ serial \in 1 .. serial
        BY <1>0, <2>1 DEF Running, CallInv
    <2>4. Numbered'
        BY <2>1, <2>2, <2>3 DEF CallInv, Numbered
    <2>5. OneAttempt'
        BY <2>1, <2>2 DEF CallInv, OneAttempt, Mutating
    <2>6. Unsent'
        BY <2>1 DEF Unsent
    <2>7. Unserved'
        BY <2>1, <2>2, <2>3 DEF CallInv, Unsent, Unserved, Mutating
    <2>8. Answered' /\ TruthfulOutcome'
        BY <2>1 DEF CallInv, Answered, Says, Mutating, TruthfulOutcome
    <2>9. QED
        BY <2>1, <2>3, <2>4, <2>5, <2>6, <2>7, <2>8 DEF CallInv
<1>6. CASE SendFails
    BY <1>6, CallFails DEF SendFails
<1>7. ASSUME NEW r \in responses, Receive(r) PROVE CallInv'
    <2>1. /\ pc = "recv" /\ pc' = "check" /\ reply' = r
          /\ responses' = responses \ {r}
          /\ UNCHANGED <<serial, asked, attempt, requests, applied, outcome>>
        BY <1>7 DEF Receive
    <2>2. Numbered' /\ OneAttempt' /\ Unsent' /\ TruthfulOutcome'
        BY <2>1 DEF CallInv, Numbered, OneAttempt, Unsent, Mutating, TruthfulOutcome
    <2>3. Unserved'
        BY <2>1 DEF CallInv, Unserved, Mutating
    <2>4. Answered'
        BY <2>1 DEF CallInv, Answered, Says, Mutating
    <2>5. QED
        BY <2>1, <2>2, <2>3, <2>4 DEF CallInv
<1>8. ASSUME NEW r \in responses, ReceiveOversize(r) PROVE CallInv'
    BY <1>8, CallFails DEF ReceiveOversize
<1>9. CASE ReceiveFails
    BY <1>9, CallFails DEF ReceiveFails
<1>10. CASE Check
    <2>1. /\ pc = "check" /\ pc' = "idle"
          /\ UNCHANGED <<serial, asked, attempt, requests, responses, applied>>
        BY <1>10 DEF Check, Return
    <2>2. serial \in 1 .. MaxCalls /\ reply.serial = serial
        BY <1>0, <2>1 DEF Running, SockInv, OwnReply
    <2>3. /\ outcome'[serial] = CheckedCode(reply)
          /\ \A n \in 1 .. MaxCalls : n # serial => outcome'[n] = outcome[n]
        BY <1>0, <1>10, <2>2 DEF Check, Return, TypeOK
    <2>4. /\ CheckedCode(reply) \in {"INVALID", reply.code}
          /\ reply.code \in {"OK", "REJECTED", "MALFORMED"}
        BY <1>0, <2>1 DEF CheckedCode, Running, Responses
    <2>5. Says(reply)
        BY <2>1 DEF CallInv, Answered
    <2>6. Numbered'
        BY <1>0, <2>1, <2>2, <2>3 DEF CallInv, Numbered
    <2>7. OneAttempt' /\ Unsent'
        BY <2>1 DEF CallInv, OneAttempt, Unsent, Mutating
    <2>8. Unserved'
        <3>1. \A q \in requests : q.serial \in 1 .. MaxCalls
            BY <1>0 DEF CallInv, Numbered
        <3>2. \A q \in requests : Mutating(q.serial) => q.serial # serial
            BY <2>1, <2>2 DEF CallInv, Unserved
        <3>3. QED
            BY <2>1, <2>3, <3>1, <3>2 DEF CallInv, Unserved, Mutating
    <2>9. Answered'
        BY <2>1 DEF CallInv, Answered, Says, Mutating
    <2>10. TruthfulOutcome'
        <3>1. \A x \in applied : Mutating(x.serial)
            BY DEF CallInv, OneAttempt
        <3>2. outcome'[serial] \in {"REJECTED", "CAPACITY"} => \A x \in applied : x.serial # serial
            BY <2>2, <2>3, <2>4, <2>5, <3>1 DEF Says
        <3>3. outcome'[serial] = "OK" /\ asked[serial] \in Mutations
                  => \E x \in applied : x.serial = serial
            BY <2>2, <2>3, <2>4, <2>5 DEF Says, Mutating
        <3>4. QED
            BY <2>1, <2>3, <3>2, <3>3 DEF CallInv, TruthfulOutcome
    <2>11. QED
        BY <2>1, <2>6, <2>7, <2>8, <2>9, <2>10 DEF CallInv
<1>11. CASE Reselect
    <2>1. pc = "idle" /\ UNCHANGED <<serial, asked, attempt, pc, reply, requests,
                                     responses, applied, outcome>>
        BY <1>11 DEF Reselect
    <2>2. QED
        BY <2>1 DEF CallInv, Numbered, OneAttempt, Unsent, Unserved, Answered, Says,
                    Mutating, TruthfulOutcome
<1>12. ASSUME NEW q \in requests, ChainServes(q) PROVE CallInv'
    <2>1. PICK code \in Replies :
              /\ responses' = responses \cup {[conn |-> q.conn, serial |-> q.serial,
                                               id |-> q.id, code |-> code]}
              /\ applied' = IF q.method \in Mutations /\ code # "REJECTED"
                            THEN applied \cup {[serial |-> q.serial, attempt |-> q.attempt]}
                            ELSE applied
        BY <1>12 DEF ChainServes
    <2>2. PICK r : r.serial = q.serial /\ r.code = code /\ responses' = responses \cup {r}
        BY <2>1
    <2>3. /\ requests' = requests \ {q}
          /\ UNCHANGED <<serial, asked, attempt, pc, reply, outcome>>
        BY <1>12 DEF ChainServes
    <2>4. q.serial \in 1 .. serial /\ q.method = asked[q.serial]
        BY DEF CallInv, Numbered
    <2>5. CASE Mutating(q.serial) /\ code # "REJECTED"
        <3>1. PICK y : y.serial = q.serial /\ y.attempt = q.attempt /\ applied' = applied \cup {y}
            BY <2>1, <2>4, <2>5 DEF Mutating
        <3>2. /\ q.attempt = 1
              /\ \A x \in applied : x.serial # q.serial
              /\ \A r2 \in responses : r2.serial # q.serial
              /\ pc = "check" => reply.serial # q.serial
              /\ outcome[q.serial] \notin {"OK", "REJECTED", "CAPACITY"}
              /\ \A q2 \in requests' : q2.serial # q.serial
            BY <2>3, <2>5 DEF CallInv, Unserved, OneAttempt
        <3>3. Numbered' /\ OneAttempt'
            BY <2>2, <2>3, <2>4, <2>5, <3>1, <3>2 DEF CallInv, Numbered, OneAttempt, Mutating
        <3>4. Unsent'
            BY <2>2, <2>3, <3>1 DEF CallInv, Unsent, Mutating
        <3>5. Unserved'
            BY <2>2, <2>3, <3>1, <3>2 DEF CallInv, Unserved, Mutating
        <3>6. Answered'
            BY <2>2, <2>3, <2>5, <3>1, <3>2 DEF CallInv, Answered, Says, Mutating
        <3>7. TruthfulOutcome'
            BY <2>3, <3>1, <3>2 DEF CallInv, TruthfulOutcome
        <3>8. QED
            BY <2>3, <3>3, <3>4, <3>5, <3>6, <3>7 DEF CallInv
    <2>6. CASE ~(Mutating(q.serial) /\ code # "REJECTED")
        <3>1. applied' = applied
            BY <2>1, <2>4, <2>6 DEF Mutating
        <3>2. Numbered' /\ OneAttempt' /\ TruthfulOutcome'
            BY <2>2, <2>3, <2>4, <3>1 DEF CallInv, Numbered, OneAttempt, Mutating, TruthfulOutcome
        <3>3. Unsent'
            BY <2>2, <2>3, <3>1 DEF CallInv, Unsent, Mutating
        <3>4. Unserved'
            BY <2>2, <2>3, <3>1 DEF CallInv, Unserved, Mutating
        <3>5. Answered'
            BY <2>2, <2>3, <2>6, <3>1 DEF CallInv, Unserved, Answered, Says, Mutating
        <3>6. QED
            BY <2>3, <3>2, <3>3, <3>4, <3>5 DEF CallInv
    <2>7. QED
        BY <2>5, <2>6
<1>13. CASE UNCHANGED vars
    BY <1>13 DEF vars, CallInv, Numbered, OneAttempt, Unsent, Unserved, Answered, Says,
                 Mutating, TruthfulOutcome
<1>14. QED
    BY <1>1, <1>2, <1>3, <1>4, <1>5, <1>6, <1>7, <1>8, <1>9, <1>10, <1>11, <1>12,
       <1>13 DEF Next, ClientStep, Caller, Terminated

(* No call has been made at the start.                                      *)
LEMMA CallInit == Init => CallInv
BY TransportAssumption DEF Init, CallInv, Numbered, OneAttempt, Unsent, Unserved, Answered,
   Says, Mutating, TruthfulOutcome

(* However often connections fail, and however late the chain serves what   *)
(* it received, one call makes it apply its mutation at most once.          *)
THEOREM MutationsApplyOnce == Spec => []AppliedAtMostOnce
<1>1. TypeInv /\ CallInv => AppliedAtMostOnce
    <2>1. SUFFICES ASSUME TypeInv, CallInv,
                          NEW x \in applied, NEW y \in applied, x.serial = y.serial
                   PROVE  x = y
        BY DEF AppliedAtMostOnce
    <2>2. x.attempt = 1 /\ y.attempt = 1
        BY <2>1 DEF CallInv, OneAttempt
    <2>3. x \in [serial : Nat, attempt : {1, 2}] /\ y \in [serial : Nat, attempt : {1, 2}]
        BY <2>1 DEF TypeInv, TypeOK
    <2>4. QED
        BY <2>1, <2>2, <2>3
<1>2. QED
    BY <1>1, CallInit, CallStep, SockInit, SockStep, TypeInit, TypeStep, PTL DEF Spec

(* OK means applied, REJECTED and CAPACITY mean never applied, for good:    *)
(* only TRANSPORT and INVALID leave the fate of a mutation open.            *)
THEOREM OutcomesAreTrue == Spec => []TruthfulOutcome
<1>1. CallInv => TruthfulOutcome
    BY DEF CallInv
<1>2. QED
    BY <1>1, CallInit, CallStep, SockInit, SockStep, TypeInit, TypeStep, PTL DEF Spec

-----------------------------------------------------------------------------
(* The codes keep the promise of SubmitLedger.                              *)

(* The codes of a ledger entry once the running call has returned.          *)
LEMMA CodedReturn ==
    ASSUME TypeInv, CallInv, pc # "idle", UNCHANGED <<serial, asked>>,
           NEW code, outcome' = [outcome EXCEPT ![serial] = code],
           NEW S, "NONE" \notin S
    PROVE  /\ serial \notin CodedWith(S)
           /\ code \in S /\ Mutating(serial) => CodedWith(S)' = CodedWith(S) \cup {serial}
           /\ code \notin S \/ ~Mutating(serial) => CodedWith(S)' = CodedWith(S)
<1>1. serial \in 1 .. MaxCalls /\ outcome[serial] = "NONE" /\ MaxCalls \in Nat
    BY TransportAssumption DEF TypeInv, Running, CallInv
<1>2. \A n \in 1 .. serial : n \in 1 .. MaxCalls
    BY <1>1
<1>3. /\ outcome'[serial] = code
      /\ \A n \in 1 .. serial : n # serial => outcome'[n] = outcome[n]
    BY <1>1, <1>2 DEF TypeInv, TypeOK
<1>4. Taken' = Taken /\ (serial \in Taken <=> Mutating(serial))
    BY <1>1 DEF Taken, Mutating
<1>5. \A n \in Taken : n \in 1 .. serial
    BY DEF Taken
<1>6. QED
    BY <1>1, <1>3, <1>4, <1>5 DEF CodedWith

(* A call that returns is an answer of the ledger: accepted if its mutation *)
(* was applied, refused if it was not and never will be, unknown otherwise. *)
LEMMA LedgerReturn ==
    ASSUME TypeInv, CallInv, pc # "idle", UNCHANGED <<serial, asked, applied>>,
           NEW code \in Codes, outcome' = [outcome EXCEPT ![serial] = code],
           code = "OK" /\ Mutating(serial) => serial \in AppliedCalls,
           code \in {"REJECTED", "CAPACITY"} => serial \notin AppliedCalls
    PROVE  [Ledger!Next]_(Ledger!vars)
<1> DEFINE Yes == {"OK"}
           No == {"REJECTED", "CAPACITY"}
           Open == {"TRANSPORT", "INVALID"}
<1>1. Taken' = Taken /\ AppliedCalls' = AppliedCalls
    BY DEF Taken, AppliedCalls
<1>2. serial \in 1 .. MaxCalls /\ MaxCalls \in Nat
    BY TransportAssumption DEF TypeInv, Running
<1>3. /\ serial \notin CodedWith(Yes)
      /\ serial \notin CodedWith(No)
      /\ serial \notin CodedWith(Open)
    BY CodedReturn
<1>4. CASE ~Mutating(serial)
    <2>1. /\ CodedWith(Yes)' = CodedWith(Yes)
          /\ CodedWith(No)' = CodedWith(No)
          /\ CodedWith(Open)' = CodedWith(Open)
        BY <1>4, CodedReturn
    <2>2. QED
        BY <1>1, <2>1 DEF Ledger!vars
<1>5. CASE Mutating(serial)
    <2>0. serial \in Taken
        BY <1>2, <1>5 DEF Taken, Mutating
    <2>00. Taken' = Taken \cup {serial}
        BY <1>1, <2>0
    <2>1. CASE code \in Yes
        <3>1. /\ CodedWith(Yes)' = CodedWith(Yes) \cup {serial}
              /\ CodedWith(No)' = CodedWith(No)
              /\ CodedWith(Open)' = CodedWith(Open)
            BY <1>5, <2>1, CodedReturn
        <3>2. Ledger!Accept(serial)
            BY <1>1, <1>3, <1>5, <2>1, <3>1 DEF Ledger!Accept, Ledger!Answered
        <3>3. QED
            BY <1>2, <3>2 DEF Ledger!Next
    <2>2. CASE code \in No
        <3>1. /\ CodedWith(Yes)' = CodedWith(Yes)
              /\ CodedWith(No)' = CodedWith(No) \cup {serial}
              /\ CodedWith(Open)' = CodedWith(Open)
            BY <1>5, <2>2, CodedReturn
        <3>2. Ledger!Refuse(serial)
            BY <1>1, <1>3, <2>00, <2>2, <3>1 DEF Ledger!Refuse, Ledger!Answered
        <3>3. QED
            BY <1>2, <3>2 DEF Ledger!Next
    <2>3. CASE code \in Open
        <3>1. /\ CodedWith(Yes)' = CodedWith(Yes)
              /\ CodedWith(No)' = CodedWith(No)
              /\ CodedWith(Open)' = CodedWith(Open) \cup {serial}
            BY <1>5, <2>3, CodedReturn
        <3>2. Ledger!Doubt(serial)
            BY <1>1, <1>3, <2>00, <3>1 DEF Ledger!Doubt, Ledger!Answered
        <3>3. QED
            BY <1>2, <3>2 DEF Ledger!Next
    <2>4. QED
        BY <2>1, <2>2, <2>3 DEF Codes
<1>6. QED
    BY <1>4, <1>5

(* A failed exchange is a retry the ledger does not see, or a return.       *)
LEMMA LedgerFails ==
    ASSUME TypeInv, CallInv, pc # "idle", Failed, UNCHANGED <<serial, asked, applied>>
    PROVE  [Ledger!Next]_(Ledger!vars)
<1>1. CASE MayRetry
    BY <1>1 DEF Failed, Ledger!vars, Taken, AppliedCalls, CodedWith
<1>2. CASE ~MayRetry
    <2>1. outcome' = [outcome EXCEPT ![serial] = "TRANSPORT"]
        BY <1>2 DEF Failed, Return
    <2>2. QED
        BY <2>1, LedgerReturn DEF Codes
<1>3. QED
    BY <1>1, <1>2

(* What a new call adds to the ledger: its number if it is a mutation, and  *)
(* its code if it has one already.                                          *)
LEMMA CodedBegin ==
    ASSUME TypeInv, CallInv, serial < MaxCalls, serial' = serial + 1,
           NEW m \in Methods, asked' = [asked EXCEPT ![serial + 1] = m],
           NEW code, outcome' = [outcome EXCEPT ![serial + 1] = code],
           NEW S, "NONE" \notin S
    PROVE  /\ serial + 1 \notin Taken /\ serial + 1 \notin CodedWith(S)
           /\ Taken' = IF m \in Mutations THEN Taken \cup {serial + 1} ELSE Taken
           /\ code \in S /\ m \in Mutations => CodedWith(S)' = CodedWith(S) \cup {serial + 1}
           /\ code \notin S \/ m \notin Mutations => CodedWith(S)' = CodedWith(S)
<1>1. /\ serial \in Nat /\ serial + 1 \in 1 .. MaxCalls /\ MaxCalls \in Nat
      /\ outcome[serial + 1] = "NONE"
      /\ \A n \in 1 .. serial : n # serial + 1 /\ n \in 1 .. MaxCalls
    BY FreshCall, TransportAssumption
<1>2. \A n : n \in 1 .. (serial + 1) <=> n \in 1 .. serial \/ n = serial + 1
    BY <1>1
<1>3. /\ asked'[serial + 1] = m /\ outcome'[serial + 1] = code
      /\ \A n \in 1 .. serial : asked'[n] = asked[n] /\ outcome'[n] = outcome[n]
    BY <1>1 DEF TypeInv, TypeOK
<1>4. serial + 1 \notin Taken /\ \A n \in Taken : n \in 1 .. serial
    BY <1>1 DEF Taken
<1>5. Taken' = IF m \in Mutations THEN Taken \cup {serial + 1} ELSE Taken
    BY <1>2, <1>3 DEF Taken
<1>6. QED
    BY <1>3, <1>4, <1>5 DEF CodedWith

(* Every step of the client or the chain is a step of the ledger or none.   *)
LEMMA LedgerStep ==
    TypeInv /\ SockInv /\ CallInv /\ [Next]_vars => [Ledger!Next]_(Ledger!vars)
<1> SUFFICES ASSUME TypeInv, SockInv, CallInv, [Next]_vars
             PROVE  [Ledger!Next]_(Ledger!vars)
    OBVIOUS
<1> USE DEF callVars, netVars
<1>0. TypeOK /\ Running /\ MaxCalls \in Nat
    BY TransportAssumption DEF TypeInv
<1>1. ASSUME UNCHANGED <<serial, asked, applied, outcome>>
      PROVE  [Ledger!Next]_(Ledger!vars)
    BY <1>1 DEF Ledger!vars, Taken, AppliedCalls, CodedWith
<1>2. ASSUME NEW m \in Called, Begin(m) PROVE [Ledger!Next]_(Ledger!vars)
    <2>1. m \in Methods /\ serial + 1 \in 1 .. MaxCalls
        BY <1>2, FreshCall, TransportAssumption DEF Begin
    <2>2. /\ serial' = serial + 1 /\ serial < MaxCalls
          /\ asked' = [asked EXCEPT ![serial + 1] = m]
          /\ UNCHANGED <<outcome, applied>>
        BY <1>2 DEF Begin
    <2>3. outcome' = [outcome EXCEPT ![serial + 1] = "NONE"]
        BY <1>0, <2>2, FreshCall DEF TypeOK
    <2>4. ASSUME NEW S, "NONE" \notin S PROVE CodedWith(S)' = CodedWith(S)
        BY <2>1, <2>2, <2>3, <2>4, CodedBegin
    <2>5. /\ serial + 1 \notin Taken
          /\ Taken' = IF m \in Mutations THEN Taken \cup {serial + 1} ELSE Taken
        <3>1. "NONE" \notin {"OK"}
            OBVIOUS
        <3>2. QED
            BY <2>1, <2>2, <2>3, <3>1, CodedBegin
    <2>6. AppliedCalls' = AppliedCalls
        BY <2>2 DEF AppliedCalls
    <2>7. CASE m \in Mutations
        <3>1. Ledger!Take(serial + 1)
            BY <2>4, <2>5, <2>6, <2>7 DEF Ledger!Take
        <3>2. QED
            BY <2>1, <3>1 DEF Ledger!Next
    <2>8. CASE m \notin Mutations
        BY <2>4, <2>5, <2>6, <2>8 DEF Ledger!vars
    <2>9. QED
        BY <2>7, <2>8
<1>3. ASSUME NEW m \in Called, BeginNoMemory(m) PROVE [Ledger!Next]_(Ledger!vars)
    <2>1. m \in Methods /\ serial + 1 \in 1 .. MaxCalls
        BY <1>3, FreshCall, TransportAssumption DEF BeginNoMemory
    <2>2. /\ serial' = serial + 1 /\ serial < MaxCalls
          /\ asked' = [asked EXCEPT ![serial + 1] = m]
          /\ outcome' = [outcome EXCEPT ![serial + 1] = "CAPACITY"]
          /\ UNCHANGED applied
        BY <1>3 DEF BeginNoMemory
    <2>3. ASSUME NEW S, "NONE" \notin S
          PROVE  /\ serial + 1 \notin CodedWith(S)
                 /\ "CAPACITY" \notin S => CodedWith(S)' = CodedWith(S)
        BY <2>1, <2>2, <2>3, CodedBegin
    <2>4. /\ m \in Mutations => CodedWith({"REJECTED", "CAPACITY"})'
                                 = CodedWith({"REJECTED", "CAPACITY"}) \cup {serial + 1}
          /\ m \notin Mutations => CodedWith({"REJECTED", "CAPACITY"})'
                                    = CodedWith({"REJECTED", "CAPACITY"})
        BY <2>1, <2>2, CodedBegin
    <2>5. Taken' = IF m \in Mutations THEN Taken \cup {serial + 1} ELSE Taken
        <3>1. "NONE" \notin {"OK"}
            OBVIOUS
        <3>2. QED
            BY <2>1, <2>2, <3>1, CodedBegin
    <2>6. AppliedCalls' = AppliedCalls /\ serial + 1 \notin AppliedCalls
        BY <2>2, FreshCall DEF AppliedCalls
    <2>7. CASE m \in Mutations
        <3>1. Ledger!Refuse(serial + 1)
            BY <2>3, <2>4, <2>5, <2>6, <2>7 DEF Ledger!Refuse, Ledger!Answered
        <3>2. QED
            BY <2>1, <3>1 DEF Ledger!Next
    <2>8. CASE m \notin Mutations
        BY <2>3, <2>4, <2>5, <2>6, <2>8 DEF Ledger!vars
    <2>9. QED
        BY <2>7, <2>8
<1>4. CASE ConnectFails
    BY <1>4, LedgerFails DEF ConnectFails
<1>5. CASE SendFails
    BY <1>5, LedgerFails DEF SendFails
<1>6. ASSUME NEW r \in responses, ReceiveOversize(r) PROVE [Ledger!Next]_(Ledger!vars)
    BY <1>6, LedgerFails DEF ReceiveOversize
<1>7. CASE ReceiveFails
    BY <1>7, LedgerFails DEF ReceiveFails
<1>8. CASE Check
    <2>1. /\ pc = "check" /\ UNCHANGED <<serial, asked, applied>>
          /\ outcome' = [outcome EXCEPT ![serial] = CheckedCode(reply)]
        BY <1>8 DEF Check, Return
    <2>2. reply.serial = serial /\ Says(reply) /\ \A x \in applied : Mutating(x.serial)
        BY <2>1 DEF SockInv, OwnReply, CallInv, Answered, OneAttempt
    <2>3. /\ CheckedCode(reply) \in {"INVALID", reply.code}
          /\ CheckedCode(reply) \in Codes
        BY <1>0, <2>1 DEF CheckedCode, Running, Responses, Codes
    <2>4. CheckedCode(reply) = "OK" /\ Mutating(serial) => serial \in AppliedCalls
        BY <2>2, <2>3 DEF Says, AppliedCalls
    <2>5. CheckedCode(reply) \in {"REJECTED", "CAPACITY"} => serial \notin AppliedCalls
        BY <1>0, <2>1, <2>2, <2>3 DEF Says, AppliedCalls, Running, Responses
    <2>6. QED
        BY <2>1, <2>3, <2>4, <2>5, LedgerReturn
<1>9. ASSUME NEW q \in requests, ChainServes(q) PROVE [Ledger!Next]_(Ledger!vars)
    <2>1. PICK code \in Replies :
              applied' = IF q.method \in Mutations /\ code # "REJECTED"
                         THEN applied \cup {[serial |-> q.serial, attempt |-> q.attempt]}
                         ELSE applied
        BY <1>9 DEF ChainServes
    <2>2. UNCHANGED <<serial, asked, outcome>>
        BY <1>9 DEF ChainServes
    <2>3. q.serial \in 1 .. serial /\ q.method = asked[q.serial] /\ q.serial \in 1 .. MaxCalls
        BY <1>0 DEF CallInv, Numbered, TypeOK
    <2>4. CASE Mutating(q.serial) /\ code # "REJECTED"
        <3>1. applied' = applied \cup {[serial |-> q.serial, attempt |-> q.attempt]}
            BY <2>1, <2>3, <2>4 DEF Mutating
        <3>2. AppliedCalls' = AppliedCalls \cup {q.serial}
            <4>1. PICK y : y.serial = q.serial /\ applied' = applied \cup {y}
                BY <3>1
            <4>2. QED
                BY <4>1 DEF AppliedCalls
        <3>3. /\ q.serial \in Taken /\ q.serial \notin AppliedCalls
              /\ outcome[q.serial] \notin {"OK", "REJECTED", "CAPACITY"}
            BY <2>3, <2>4 DEF CallInv, Unserved, AppliedCalls, Taken, Mutating
        <3>4. UNCHANGED <<Taken, CodedWith({"OK"}), CodedWith({"REJECTED", "CAPACITY"}),
                          CodedWith({"TRANSPORT", "INVALID"})>>
            BY <2>2 DEF Taken, CodedWith
        <3>5. Ledger!Apply(q.serial)
            BY <3>2, <3>3, <3>4 DEF Ledger!Apply, CodedWith
        <3>6. QED
            BY <2>3, <3>5 DEF Ledger!Next
    <2>5. CASE ~(Mutating(q.serial) /\ code # "REJECTED")
        <3>1. UNCHANGED applied
            BY <2>1, <2>3, <2>5 DEF Mutating
        <3>2. QED
            BY <1>1, <2>2, <3>1
    <2>6. QED
        BY <2>4, <2>5
<1>10. CASE Reuse \/ Connect \/ Send \/ Reselect \/ UNCHANGED vars
    BY <1>1, <1>10 DEF Reuse, Connect, Send, Reselect, vars
<1>11. ASSUME NEW r \in responses, Receive(r) PROVE [Ledger!Next]_(Ledger!vars)
    BY <1>1, <1>11 DEF Receive
<1>12. QED
    BY <1>2, <1>3, <1>4, <1>5, <1>6, <1>7, <1>8, <1>9, <1>10, <1>11
    DEF Next, ClientStep, Caller, Terminated

(* The client keeps the ledger's promise to its caller: an attempt that     *)
(* failed, a late answer and a chain that acts after the call has returned  *)
(* change nothing about what OK, REJECTED and CAPACITY were said of.        *)
THEOREM TransportImplementsLedger == Spec => ImplementsLedger
<1>1. Init => Ledger!Init
    BY DEF Init, Ledger!Init, Taken, AppliedCalls, CodedWith
<1>2. QED
    BY <1>1, LedgerStep, CallInit, CallStep, SockInit, SockStep, TypeInit, TypeStep, PTL
    DEF Spec, ImplementsLedger, Ledger!Spec

=============================================================================
