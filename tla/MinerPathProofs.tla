---------------------------- MODULE MinerPathProofs ----------------------------
(***************************************************************************)
(* Proofs about the path of a miner's message. The Linux frame reader, for *)
(* any frame sizes and any number of frames, dispatches whole frames and   *)
(* implements FrameQueue. The session prototype, for any number of         *)
(* sessions, blocks and nonces, forwards a nonce once and implements       *)
(* SubmitLedger. The rates of progress reports and their sum are exact at  *)
(* any width of the integers and for any number of sessions. The share     *)
(* target and the verdict on a proof are those of the numbers the bytes    *)
(* stand for, for any number of bytes and any base.                        *)
(***************************************************************************)
EXTENDS FrameReader, HashRate, ShareTarget, StratumSession, Induction

(* The reader stands at a frame boundary plus rx_used bytes, and knows the  *)
(* type of the frame it is in as soon as it has read any of it.             *)
InFrame ==
    /\ off = rxUsed
    /\ rxUsed > 0 => queue # <<>> /\ rxType = Head(queue) /\ rxUsed <= FrameSize[rxType]

(* How far each step of service_client has got.                             *)
Progressing ==
    /\ pc = "header" => rxUsed <= HeaderSize
    /\ pc \in {"check", "body", "dispatch"} => rxUsed >= HeaderSize
    /\ pc \in {"body", "dispatch"} => rxType \in Known
    /\ pc = "dispatch" => rxUsed = FrameSize[rxType]
    /\ pc = "after" => rxUsed = 0
    /\ open <=> pc # "gone"

ReaderInv == TypeOK /\ InFrame /\ Progressing

-----------------------------------------------------------------------------

(* The reader starts at the first frame.                                    *)
LEMMA ReaderInit == Init => ReaderInv
BY ReaderAssumption DEF Init, ReaderInv, TypeOK, InFrame, Progressing, Types

(* A recv reads on within the frame the reader is in.                       *)
LEMMA ReceiveStep ==
    ASSUME ReaderInv, NEW n \in 1 .. RxCapacity, Receive(n)
    PROVE  ReaderInv'
<1>1. /\ RxCapacity \in Nat /\ HeaderSize \in Nat \ {0}
      /\ \A t \in Types : /\ FrameSize[t] \in Nat
                          /\ HeaderSize <= FrameSize[t] /\ FrameSize[t] <= RxCapacity
    BY ReaderAssumption
<1>2. /\ queue \in Seq(Types) /\ queue # <<>> /\ Head(queue) \in Types
      /\ rxUsed \in Nat /\ n \in Nat /\ n > 0 /\ off = rxUsed /\ rxType \in Types
      /\ off' = off + n /\ rxUsed' = rxUsed + n
      /\ UNCHANGED <<queue, pc, handled, open, peerOpen>>
      /\ pc \in {"header", "body"}
    BY <1>1 DEF ReaderInv, TypeOK, InFrame, Receive
<1>3. CASE pc = "header"
    <2>1. rxType' = Head(queue)
        BY <1>2, <1>3 DEF Receive
    <2>2. rxUsed' <= HeaderSize
        BY <1>1, <1>2, <1>3 DEF Receive, Wanted
    <2>3. rxUsed' <= FrameSize[rxType'] /\ rxUsed' \in 0 .. RxCapacity
        BY <1>1, <1>2, <2>1, <2>2
    <2>4. QED
        BY <1>2, <1>3, <2>1, <2>2, <2>3 DEF ReaderInv, TypeOK, InFrame, Progressing
<1>4. CASE pc = "body"
    <2>1. rxType' = rxType /\ rxType \in Known /\ rxUsed >= HeaderSize
        BY <1>2, <1>4 DEF Receive, ReaderInv, Progressing
    <2>2. rxUsed' <= FrameSize[rxType]
        BY <1>1, <1>2, <1>4 DEF Receive, Wanted
    <2>3. rxUsed' \in 0 .. RxCapacity /\ rxUsed' >= HeaderSize
        BY <1>1, <1>2, <2>1, <2>2
    <2>4. rxType = Head(queue)
        BY <1>1, <1>2, <2>1 DEF ReaderInv, InFrame
    <2>5. QED
        BY <1>2, <1>4, <2>1, <2>2, <2>3, <2>4 DEF ReaderInv, TypeOK, InFrame, Progressing
<1>5. QED
    BY <1>2, <1>3, <1>4

(* Every step of the Linux branch keeps the reader in its frame.            *)
LEMMA ReaderInvStep ==
    ASSUME ~HeaderOnly
    PROVE  ReaderInv /\ [Next]_vars => ReaderInv'
<1> SUFFICES ASSUME ReaderInv, [Next]_vars PROVE ReaderInv'
    OBVIOUS
<1>0. /\ RxCapacity \in Nat /\ HeaderSize \in Nat \ {0} /\ rxUsed \in Nat
      /\ \A t \in Types : /\ FrameSize[t] \in Nat
                          /\ HeaderSize <= FrameSize[t] /\ FrameSize[t] <= RxCapacity
    BY ReaderAssumption DEF ReaderInv, TypeOK
<1>1. CASE Enter
    BY <1>0, <1>1 DEF Enter, ReaderInv, TypeOK, InFrame, Progressing
<1>2. CASE HeaderComplete
    BY <1>0, <1>2 DEF HeaderComplete, ReaderInv, TypeOK, InFrame, Progressing
<1>3. CASE CheckHeader
    BY <1>0, <1>3 DEF CheckHeader, ReaderInv, TypeOK, InFrame, Progressing, Types
<1>4. CASE BodyComplete
    BY <1>0, <1>4 DEF BodyComplete, BodyFull, ReaderInv, TypeOK, InFrame, Progressing
<1>5. ASSUME NEW n \in 1 .. RxCapacity, Receive(n) PROVE ReaderInv'
    BY <1>5, ReceiveStep
<1>6. CASE Dispatch
    <2>1. /\ queue \in Seq(Types) /\ queue # <<>> /\ rxType = Head(queue) /\ rxType \in Types
          /\ off = rxUsed /\ rxUsed = FrameSize[rxType] /\ rxUsed >= HeaderSize
        BY <1>0, <1>6 DEF Dispatch, ReaderInv, TypeOK, InFrame, Progressing
    <2>2. queue' = Tail(queue) /\ off' = 0 /\ rxUsed' = 0 /\ pc' = "after"
          /\ UNCHANGED <<rxType, open, peerOpen>>
        BY <1>0, <1>6, <2>1 DEF Dispatch
    <2>3. queue' \in Seq(Types) /\ handled' \in Seq(Types)
        BY <1>6, <2>1, <2>2 DEF Dispatch, ReaderInv, TypeOK
    <2>4. open
        BY <1>6 DEF Dispatch, ReaderInv, Progressing
    <2>5. QED
        BY <1>0, <2>1, <2>2, <2>3, <2>4 DEF ReaderInv, TypeOK, InFrame, Progressing
<1>7. CASE StillConnected \/ HandlerRemoved
    <2>1. CASE StillConnected
        BY <1>0, <2>1 DEF StillConnected, ReaderInv, TypeOK, InFrame, Progressing
    <2>2. CASE HandlerRemoved
        BY <2>2 DEF HandlerRemoved, ReaderInv, TypeOK, InFrame, Progressing
    <2>3. QED
        BY <1>7, <2>1, <2>2
<1>8. CASE WouldBlock
    BY <1>8 DEF WouldBlock, KeepPartial, ReaderInv, TypeOK, InFrame, Progressing
<1>9. CASE PeerClosed
    BY <1>9 DEF PeerClosed, ReaderInv, TypeOK, InFrame, Progressing
<1>10. ASSUME NEW t \in Types, MinerSend(t) PROVE ReaderInv'
    <2>1. queue \in Seq(Types) /\ queue' = Append(queue, t)
          /\ UNCHANGED <<off, rxUsed, rxType, pc, handled, open, peerOpen>>
        BY <1>10 DEF MinerSend, ReaderInv, TypeOK
    <2>2. /\ queue' \in Seq(Types) /\ queue' # <<>>
          /\ queue # <<>> => Head(queue') = Head(queue)
        BY <2>1
    <2>3. QED
        BY <2>1, <2>2 DEF ReaderInv, TypeOK, InFrame, Progressing
<1>11. CASE MinerClose
    BY <1>11 DEF MinerClose, ReaderInv, TypeOK, InFrame, Progressing
<1>12. CASE UNCHANGED vars
    BY <1>12 DEF vars, ReaderInv, TypeOK, InFrame, Progressing
<1>13. QED
    BY <1>1, <1>2, <1>3, <1>4, <1>5, <1>6, <1>7, <1>8, <1>9, <1>10, <1>11, <1>12
    DEF Next, ReaderStep, Terminated

(* For any frame sizes and any fragmentation of the stream, service_client  *)
(* runs a handler on exactly one complete frame, from its first byte to its *)
(* last.                                                                    *)
THEOREM FramesAreWhole ==
    ASSUME ~HeaderOnly
    PROVE  Spec => []WholeFrames
<1>1. ReaderInv => WholeFrames
    BY ReaderAssumption DEF ReaderInv, TypeOK, InFrame, Progressing, WholeFrames
<1>2. QED
    BY <1>1, ReaderInit, ReaderInvStep, PTL DEF Spec

(* rx_used never exceeds the buffer.                                        *)
THEOREM ReaderTypes ==
    ASSUME ~HeaderOnly
    PROVE  Spec => []TypeOK
<1>1. ReaderInv => TypeOK
    BY DEF ReaderInv
<1>2. QED
    BY <1>1, ReaderInit, ReaderInvStep, PTL DEF Spec

(* The bytes and partial reads of service_client implement the queue of     *)
(* whole frames: dispatching is Handle, every way to lose the session is    *)
(* Remove, and everything else the handlers cannot see.                     *)
THEOREM ReaderImplementsQueue ==
    ASSUME ~HeaderOnly
    PROVE  Spec => ImplementsQueue
<1>1. Init => Frames!Init
    BY DEF Init, Frames!Init
<1>2. ReaderInv /\ [Next]_vars => [Frames!Next]_Frames!vars
    <2> SUFFICES ASSUME ReaderInv, [Next]_vars PROVE [Frames!Next]_Frames!vars
        OBVIOUS
    <2>1. CASE Dispatch
        <3>1. /\ open /\ queue # <<>> /\ rxType = Head(queue) /\ off >= FrameSize[Head(queue)]
            BY <2>1, ReaderAssumption DEF Dispatch, ReaderInv, TypeOK, InFrame, Progressing
        <3>2. Frames!Handle
            BY <2>1, <3>1 DEF Dispatch, Frames!Handle
        <3>3. QED
            BY <3>2 DEF Frames!Next
    <2>2. CASE CheckHeader
        BY <2>2 DEF CheckHeader, ReaderInv, Progressing, Frames!Next, Frames!Remove, Frames!vars
    <2>3. CASE HandlerRemoved \/ PeerClosed
        BY <2>3 DEF HandlerRemoved, PeerClosed, ReaderInv, Progressing, Frames!Next,
                    Frames!Remove
    <2>4. ASSUME NEW t \in Types, MinerSend(t) PROVE Frames!Next
        BY <2>4 DEF MinerSend, Frames!Next, Frames!Send
    <2>5. CASE UNCHANGED <<queue, handled, open>>
        BY <2>5 DEF Frames!vars
    <2>6. QED
        BY <2>1, <2>2, <2>3, <2>4, <2>5
        DEF Next, ReaderStep, Enter, HeaderComplete, BodyComplete, Receive, StillConnected,
            WouldBlock, MinerClose, Terminated, vars
<1>3. QED
    BY <1>1, <1>2, ReaderInit, ReaderInvStep, PTL DEF Spec, ImplementsQueue, Frames!Spec

-----------------------------------------------------------------------------
(* The session prototype.                                                   *)

(* A key is recorded: its nonce is in the history of the session it was     *)
(* submitted in, or that session object has been initialised since.         *)
Recorded(k) ==
    \/ k.epoch < session[k.session].epoch
    \/ /\ k.epoch = session[k.session].epoch
       /\ k.nonce \in ToSet(session[k.session].submitted)

(* The call in progress comes after those that have been answered.          *)
CallOK ==
    call = NoCall \/
        /\ call.op \in {"submit", "wait"}
        /\ call.key \in NonceKeys /\ Recorded(call.key)
        /\ call.reply \in {"none", "OK", "STALE", "REJECTED"}
        /\ call.nth = Len(answers) + 1 /\ call.nth <= MaxCalls

(* Whatever was sent was recorded before.                                   *)
RecordedFirst == \A k \in NonceKeys : sent[k] > 0 => Recorded(k)

(* What has not been sent is sent next; what was is not sent again.         *)
SentOnce ==
    /\ ForwardedOnce
    /\ call.op = "submit" => sent[call.key] = 0

(* The chain applies what was submitted; the reply in the call in progress  *)
(* tells whether it has applied that; what is lost on the way was answered  *)
(* with PROVIDER, is not applied and exists once.                           *)
FateOK ==
    /\ applied \subseteq DOMAIN answers \cup Pending
    /\ call # NoCall => (call.reply = "OK" <=> call.nth \in applied)
    /\ \A m \in flying : /\ m.nth \in DOMAIN answers /\ m.nth \notin applied
                         /\ answers[m.nth] = "PROVIDER"
    /\ \A m, n \in flying : m.nth = n.nth => m = n

SessionInv == SessionTypeOK /\ CallOK /\ RecordedFirst /\ SentOnce /\ FateOK

-----------------------------------------------------------------------------
(* The session objects.                                                     *)

(* A history that records one more nonce, not yet in it, stays without      *)
(* repetition.                                                              *)
LEMMA HistoryGrows ==
    ASSUME NEW h \in Seq(Nonces), IsInjective(h), NEW n \in Nonces, n \notin ToSet(h)
    PROVE  /\ Append(h, n) \in Seq(Nonces) /\ Len(Append(h, n)) = Len(h) + 1
           /\ IsInjective(Append(h, n))
           /\ ToSet(Append(h, n)) = ToSet(h) \cup {n}
  <1> DEFINE g == Append(h, n)
  <1>1. /\ g \in Seq(Nonces) /\ Len(g) = Len(h) + 1 /\ Len(h) \in Nat
        /\ DOMAIN h = 1 .. Len(h) /\ DOMAIN g = 1 .. Len(h) + 1
        /\ \A i \in 1 .. Len(h) : g[i] = h[i]
        /\ g[Len(h) + 1] = n
    OBVIOUS
  <1>2. \A i \in 1 .. Len(h) : h[i] # n
    BY <1>1 DEF ToSet
  <1> HIDE DEF g
  <1>3. IsInjective(g)
    BY <1>1, <1>2 DEF IsInjective
  <1>4. ToSet(g) = ToSet(h) \cup {n}
    <2>1. 1 .. Len(h) + 1 = (1 .. Len(h)) \cup {Len(h) + 1}
      BY <1>1
    <2> QED
      BY <1>1, <2>1 DEF ToSet
  <1> QED
    BY <1>1, <1>3, <1>4 DEF g

(* A session object that is initialised, subscribes, registers an identity  *)
(* or records a nonce keeps its type and forgets no key.                    *)
LEMMA SessionChanges ==
    ASSUME SessionTypeOK, NEW s \in Sessions, NEW t,
           session' = [session EXCEPT ![s] = t],
           t \in [epoch : 1 .. MaxInits, subscribed : BOOLEAN,
                  identity : Identities \cup {Null}, submitted : Seq(Nonces)],
           Len(t.submitted) <= DuplicateCapacity, IsInjective(t.submitted),
           \/ t.epoch > session[s].epoch
           \/ /\ t.epoch = session[s].epoch
              /\ ToSet(session[s].submitted) \subseteq ToSet(t.submitted),
           UNCHANGED <<job, tip, sent, answers>>, call'.op \in {"none", "submit", "wait"}
    PROVE  SessionTypeOK' /\ \A k \in NonceKeys : Recorded(k) => Recorded(k)'
  <1>1. session' \in [Sessions ->
                        [epoch : 1 .. MaxInits, subscribed : BOOLEAN,
                         identity : Identities \cup {Null}, submitted : Seq(Nonces)]]
    BY DEF SessionTypeOK
  <1>2. \A r \in Sessions : session'[r] = IF r = s THEN t ELSE session[r]
    BY DEF SessionTypeOK
  <1>3. SessionTypeOK'
    BY <1>1, <1>2 DEF SessionTypeOK
  <1>4. ASSUME NEW k \in NonceKeys, Recorded(k) PROVE Recorded(k)'
    <2>1. /\ k.session \in Sessions /\ k.epoch \in 1 .. MaxInits
          /\ session[k.session].epoch \in 1 .. MaxInits
          /\ session'[k.session].epoch \in 1 .. MaxInits
      BY <1>1 DEF NonceKeys, SessionTypeOK
    <2>2. MaxInits \in Nat
      BY SessionAssumption
    <2> QED
      BY <1>2, <1>4, <2>1, <2>2 DEF Recorded
  <1> QED
    BY <1>3, <1>4

(* Nothing that was recorded is forgotten by a call without an RPC.         *)
LEMMA ApiKeeps ==
    ASSUME SessionInv, NEW s \in Sessions, NEW t,
           session' = [session EXCEPT ![s] = t],
           t \in [epoch : 1 .. MaxInits, subscribed : BOOLEAN,
                  identity : Identities \cup {Null}, submitted : Seq(Nonces)],
           Len(t.submitted) <= DuplicateCapacity, IsInjective(t.submitted),
           \/ t.epoch > session[s].epoch
           \/ /\ t.epoch = session[s].epoch
              /\ ToSet(session[s].submitted) \subseteq ToSet(t.submitted),
           UNCHANGED <<job, call, sent, answers, tip, applied, flying>>
    PROVE  SessionInv'
  <1>1. SessionTypeOK' /\ \A k \in NonceKeys : Recorded(k) => Recorded(k)'
    BY SessionChanges DEF SessionInv, SessionTypeOK
  <1>3. CallOK' /\ RecordedFirst'
    BY <1>1 DEF SessionInv, CallOK, RecordedFirst
  <1>4. SentOnce' /\ FateOK'
    BY DEF SessionInv, SentOnce, ForwardedOnce, FateOK, Pending
  <1> QED
    BY <1>1, <1>3, <1>4 DEF SessionInv

(* stn_stratum_session_init, _subscribe and _register_identity.             *)
LEMMA ApiStep ==
    ASSUME SessionInv, NEW s \in Sessions,
           SessionInit(s) \/ Subscribe(s) \/ \E i \in Identities : RegisterIdentity(s, i)
    PROVE  SessionInv'
  <1> DEFINE T == [epoch : 1 .. MaxInits, subscribed : BOOLEAN,
                   identity : Identities \cup {Null}, submitted : Seq(Nonces)]
  <1>1. /\ session[s] \in T /\ Len(session[s].submitted) <= DuplicateCapacity
        /\ IsInjective(session[s].submitted)
    BY DEF SessionInv, SessionTypeOK
  <1>2. CASE SessionInit(s)
    <2> DEFINE t == NewSession(session[s].epoch + 1)
    <2>1. /\ session' = [session EXCEPT ![s] = t] /\ t.epoch = session[s].epoch + 1
          /\ t.submitted = <<>> /\ t \in T
      BY <1>1, <1>2, SessionAssumption DEF SessionInit, NewSession
    <2>2. Len(t.submitted) <= DuplicateCapacity /\ IsInjective(t.submitted)
      BY <2>1, SessionAssumption DEF IsInjective
    <2>3. UNCHANGED <<job, call, sent, answers, tip, applied, flying>>
      BY <1>2 DEF SessionInit, chainVars
    <2>4. t.epoch > session[s].epoch
      BY <1>1, <2>1, SessionAssumption
    <2> HIDE DEF t
    <2> QED
      BY <2>1, <2>2, <2>3, <2>4, ApiKeeps
  <1>3. CASE Subscribe(s)
    <2> DEFINE t == [session[s] EXCEPT !.subscribed = TRUE]
    <2>1. /\ session' = [session EXCEPT ![s] = t] /\ t.epoch = session[s].epoch
          /\ t.submitted = session[s].submitted /\ t \in T
      BY <1>1, <1>3 DEF Subscribe
    <2>2. UNCHANGED <<job, call, sent, answers, tip, applied, flying>>
      BY <1>3 DEF Subscribe, chainVars
    <2> HIDE DEF t
    <2> QED
      BY <1>1, <2>1, <2>2, ApiKeeps
  <1>4. ASSUME NEW i \in Identities, RegisterIdentity(s, i) PROVE SessionInv'
    <2> DEFINE t == [session[s] EXCEPT !.identity = i]
    <2>1. /\ session' = [session EXCEPT ![s] = t] /\ t.epoch = session[s].epoch
          /\ t.submitted = session[s].submitted /\ t \in T
      BY <1>1, <1>4 DEF RegisterIdentity
    <2>2. UNCHANGED <<job, call, sent, answers, tip, applied, flying>>
      BY <1>4 DEF RegisterIdentity, chainVars
    <2> HIDE DEF t
    <2> QED
      BY <1>1, <2>1, <2>2, ApiKeeps
  <1> QED
    BY <1>2, <1>3, <1>4

(* stn_stratum_job_set, _refresh and _invalidate.                           *)
LEMMA JobStep ==
    ASSUME SessionInv, NEW j \in Jobs, JobInvalidate(j) \/ JobRefresh(j)
    PROVE  SessionInv'
  <1>1. UNCHANGED <<session, call, sent, answers, tip, applied, flying>>
    BY DEF JobInvalidate, JobRefresh, chainVars
  <1>2. \A r \in Jobs : job'[r].of \in Template \cup {NoTemplate}
    <2>1. CASE JobInvalidate(j)
      BY <2>1 DEF JobInvalidate, SessionInv, SessionTypeOK
    <2>2. CASE JobRefresh(j)
      <3>1. PICK size \in Sizes : job' = [job EXCEPT ![j] = JobSet(Current(size))]
        BY <2>2 DEF JobRefresh
      <3>2. JobSet(Current(size)).of \in Template
        BY DEF JobSet, Current, Template, SessionInv, SessionTypeOK
      <3> QED
        BY <3>1, <3>2 DEF SessionInv, SessionTypeOK
    <2> QED
      BY <2>1, <2>2
  <1>3. SessionTypeOK'
    BY <1>1, <1>2 DEF SessionInv, SessionTypeOK
  <1> QED
    BY <1>1, <1>3 DEF SessionInv, CallOK, Recorded, RecordedFirst, SentOnce,
       ForwardedOnce, FateOK, Pending

-----------------------------------------------------------------------------
(* stn_stratum_submit.                                                      *)

(* A submission that passes the checks has a key nobody has sent, which is  *)
(* recorded before it is sent, and the next number.                         *)
LEMMA SubmitTipStep ==
    ASSUME SessionInv, NEW s \in Sessions, NEW j \in Jobs, NEW n \in Nonces,
           SubmitTip(s, j, n)
    PROVE  /\ SessionInv'
           /\ call = NoCall /\ call' # NoCall
           /\ call'.nth = Len(answers) + 1 /\ call'.nth \in 1 .. MaxCalls
           /\ UNCHANGED <<applied, answers>>
  <1>0. /\ call = NoCall /\ UNCHANGED <<job, sent, answers, tip, applied, flying>>
        /\ Len(answers) < MaxCalls
    BY DEF SubmitTip, Ready, MayCall, Idle, chainVars
  <1> DEFINE k == Key(s, n)
             t == [session[s] EXCEPT !.submitted = Append(@, n)]
             T == [epoch : 1 .. MaxInits, subscribed : BOOLEAN,
                   identity : Identities \cup {Null}, submitted : Seq(Nonces)]
  <1>1. /\ ~Duplicate(s, n) /\ ~Full(s) /\ Record(s, n)
        /\ call' = [op |-> "submit", nth |-> Len(answers) + 1, key |-> k,
                    of |-> job[j].of, reply |-> "none",
                    identity |-> session[s].identity]
    BY DEF SubmitTip, Refusal
  <1>2. /\ session[s] \in T /\ Len(session[s].submitted) <= DuplicateCapacity
        /\ IsInjective(session[s].submitted)
    BY DEF SessionInv, SessionTypeOK
  <1>3. /\ t \in T /\ t.epoch = session[s].epoch
        /\ Len(t.submitted) = Len(session[s].submitted) + 1
        /\ IsInjective(t.submitted)
        /\ ToSet(t.submitted) = ToSet(session[s].submitted) \cup {n}
    BY <1>1, <1>2, HistoryGrows DEF Duplicate
  <1>4. session' = [session EXCEPT ![s] = t]
    BY <1>1, <1>2 DEF Record
  <1>5. Len(t.submitted) <= DuplicateCapacity
    BY <1>1, <1>2, <1>3, SessionAssumption DEF Full
  <1>6. /\ call'.op = "submit" /\ call'.key = k /\ call'.reply = "none"
        /\ call'.nth = Len(answers) + 1 /\ call' # NoCall
    BY <1>1 DEF NoCall
  <1>7. /\ k \in NonceKeys /\ k.session = s /\ k.epoch = session[s].epoch
        /\ k.nonce = n /\ session[s].epoch \in Nat
    BY <1>2, SessionAssumption DEF Key, NonceKeys
  <1>8. ~Recorded(k)
    BY <1>1, <1>7 DEF Recorded, Duplicate
  <1>9. session'[s] = t
    BY <1>4 DEF SessionInv, SessionTypeOK
  <1>10. Recorded(call.key)'
    BY <1>3, <1>6, <1>7, <1>9 DEF Recorded
  <1> HIDE DEF k, t
  <1>11. SessionTypeOK' /\ \A q \in NonceKeys : Recorded(q) => Recorded(q)'
    BY <1>0, <1>3, <1>4, <1>5, <1>6, SessionChanges DEF SessionInv
  <1>12. sent[k] = 0
    BY <1>7, <1>8 DEF SessionInv, SessionTypeOK, RecordedFirst
  <1>13. /\ Len(answers) \in Nat /\ MaxCalls \in Nat
         /\ DOMAIN answers = 1 .. Len(answers)
    BY SessionAssumption DEF SessionInv, SessionTypeOK
  <1>14. CallOK'
    BY <1>0, <1>6, <1>7, <1>10, <1>13 DEF CallOK
  <1>15. RecordedFirst'
    BY <1>0, <1>11 DEF SessionInv, RecordedFirst
  <1>16. SentOnce'
    BY <1>0, <1>6, <1>12 DEF SessionInv, SentOnce, ForwardedOnce
  <1>17. applied \subseteq DOMAIN answers /\ call'.nth \notin DOMAIN answers
    BY <1>0, <1>6, <1>13 DEF SessionInv, FateOK, Pending
  <1>18. FateOK'
    BY <1>0, <1>6, <1>17 DEF SessionInv, FateOK, Pending
  <1> QED
    BY <1>0, <1>6, <1>11, <1>13, <1>14, <1>15, <1>16, <1>18 DEF SessionInv

(* A return is the answer to the call in progress, or to one that asked     *)
(* nobody to submit anything. What stays open may be lost on the way.       *)
LEMMA ReturnStep ==
    ASSUME SessionInv, Len(answers) < MaxCalls, NEW status \in Statuses, Return(status),
           UNCHANGED <<session, job, sent, tip, applied>>,
           \/ UNCHANGED flying
           \/ /\ status = "PROVIDER" /\ call # NoCall /\ call.reply = "none"
              /\ flying' = flying \cup {call}
    PROVE  SessionInv'
  <1> DEFINE last == Len(answers) + 1
  <1>1. answers' = Append(answers, status) /\ call' = NoCall /\ NoCall.op = "none"
    BY DEF Return, NoCall
  <1>2. /\ answers \in Seq(Statuses) /\ Len(answers) \in Nat
        /\ DOMAIN answers = 1 .. Len(answers) /\ MaxCalls \in Nat
    BY SessionAssumption DEF SessionInv, SessionTypeOK
  <1>3. /\ answers' \in Seq(Statuses) /\ Len(answers') = last
        /\ DOMAIN answers' = DOMAIN answers \cup {last} /\ last \notin DOMAIN answers
        /\ answers'[last] = status
        /\ \A i \in DOMAIN answers : answers'[i] = answers[i]
    BY <1>1, <1>2
  <1>4. call # NoCall => call.nth = last
    BY DEF SessionInv, CallOK
  <1>5. SessionTypeOK'
    BY <1>1, <1>2, <1>3 DEF SessionInv, SessionTypeOK
  <1>6. CallOK' /\ RecordedFirst' /\ SentOnce'
    BY <1>1 DEF SessionInv, CallOK, RecordedFirst, Recorded, SentOnce, ForwardedOnce
  <1> HIDE DEF last
  <1>7. applied' \subseteq DOMAIN answers'
    BY <1>3, <1>4 DEF SessionInv, FateOK, Pending
  <1>8. ASSUME call # NoCall, call.reply = "none" PROVE last \notin applied
    BY <1>4, <1>8 DEF SessionInv, FateOK
  <1>9. \A m \in flying' : /\ m.nth \in DOMAIN answers' /\ m.nth \notin applied'
                           /\ answers'[m.nth] = "PROVIDER"
    BY <1>3, <1>4, <1>8 DEF SessionInv, FateOK
  <1>10. \A m, n \in flying' : m.nth = n.nth => m = n
    BY <1>3, <1>4 DEF SessionInv, FateOK
  <1>11. FateOK'
    BY <1>1, <1>7, <1>9, <1>10 DEF FateOK, Pending
  <1> QED
    BY <1>5, <1>6, <1>11 DEF SessionInv

(* The answers of stn_stratum_submit that hand nothing to the chain.        *)
LEMMA LocalReturn ==
    ASSUME SessionInv, NEW s \in Sessions, NEW j \in Jobs,
           \/ SubmitNotReady(s, j) \/ SubmitTipFails(s, j)
           \/ \E n \in Nonces : SubmitRefused(s, j, n)
    PROVE  /\ call = NoCall /\ Len(answers) < MaxCalls
           /\ UNCHANGED <<session, job, sent, tip, applied, flying>>
           /\ \E status \in Refusals \cup {"PROVIDER"} : Return(status)
  <1>1. CASE SubmitNotReady(s, j)
    <2>1. Return("STRUCTURE") \/ Return("NO_JOB")
      <3>1. CASE HasJob(s, j)
        BY <1>1, <3>1 DEF SubmitNotReady
      <3>2. CASE ~HasJob(s, j)
        BY <1>1, <3>2 DEF SubmitNotReady
      <3> QED
        BY <3>1, <3>2
    <2> QED
      BY <1>1, <2>1 DEF SubmitNotReady, MayCall, Idle, Refusals, apiVars, chainVars
  <1>2. CASE SubmitTipFails(s, j)
    BY <1>2 DEF SubmitTipFails, Ready, MayCall, Idle, apiVars, chainVars
  <1>3. ASSUME NEW n \in Nonces, SubmitRefused(s, j, n)
        PROVE  /\ call = NoCall /\ Len(answers) < MaxCalls
               /\ UNCHANGED <<session, job, sent, tip, applied, flying>>
               /\ \E status \in Refusals : Return(status)
    <2>1. Refusal(s, j, n) \in Refusals
      BY <1>3 DEF SubmitRefused, Refusal, Refusals
    <2> QED
      BY <1>3, <2>1 DEF SubmitRefused, Ready, MayCall, Idle, apiVars, chainVars
  <1> QED
    BY <1>1, <1>2, <1>3

(* They keep the invariant.                                                 *)
LEMMA LocalKeeps ==
    ASSUME SessionInv, NEW s \in Sessions, NEW j \in Jobs,
           \/ SubmitNotReady(s, j) \/ SubmitTipFails(s, j)
           \/ \E n \in Nonces : SubmitRefused(s, j, n)
    PROVE  SessionInv'
  <1>1. /\ call = NoCall /\ Len(answers) < MaxCalls
        /\ UNCHANGED <<session, job, sent, tip, applied, flying>>
        /\ \E status \in Refusals \cup {"PROVIDER"} : Return(status)
    BY LocalReturn
  <1>2. PICK status \in Statuses : Return(status)
    BY <1>1 DEF Statuses
  <1> QED
    BY <1>1, <1>2, ReturnStep

(* An answer ends the call. What the client did not refuse or report lost   *)
(* is the chain's own answer.                                               *)
LEMMA AnswerStep ==
    ASSUME SessionInv, call # NoCall, NEW code, Answer(code),
           UNCHANGED <<session, job, sent, tip, applied>>,
           \/ UNCHANGED flying
           \/ /\ code = "TRANSPORT" /\ call.reply = "none"
              /\ flying' = flying \cup {call}
    PROVE  SessionInv'
  <1>1. Status(code) \in Statuses /\ (code = "TRANSPORT" => Status(code) = "PROVIDER")
    BY DEF Status, Statuses, Refusals
  <1>2. Len(answers) < MaxCalls
    <2>1. Len(answers) \in Nat /\ MaxCalls \in Nat
      BY SessionAssumption DEF SessionInv, SessionTypeOK
    <2> QED
      BY <2>1 DEF SessionInv, CallOK
  <1>3. Return(Status(code))
    BY DEF Answer
  <1> HIDE DEF Status
  <1> QED
    BY <1>1, <1>2, <1>3, ReturnStep

(* The steps of a submission after its tip.                                 *)
LEMMA SubmitKeeps == ASSUME SessionInv, SubmitStep PROVE SessionInv'
  <1>0. call # NoCall
    BY DEF SubmitStep, SubmitSend, SubmitUnsent, SubmitReturns, SubmitLost, NoCall
  <1>1. CASE SubmitSend
    <2>1. /\ call.op = "submit" /\ call'.op = "wait" /\ call'.key = call.key
          /\ call'.nth = call.nth
          /\ call'.reply = call.reply /\ call' # NoCall /\ call.key \in NonceKeys
          /\ Recorded(call.key)
          /\ sent' = [sent EXCEPT ![call.key] = @ + 1]
          /\ UNCHANGED <<session, job, answers, tip, applied, flying>>
      BY <1>0, <1>1 DEF SubmitSend, NoCall, SessionInv, CallOK, apiVars, chainVars
    <2>2. sent[call.key] = 0 /\ sent \in [NonceKeys -> Nat]
      BY <2>1 DEF SessionInv, SentOnce, SessionTypeOK
    <2>3. \A k \in NonceKeys : sent'[k] = IF k = call.key THEN 1 ELSE sent[k]
      BY <2>1, <2>2
    <2>4. SessionTypeOK'
      BY <2>1, <2>2 DEF SessionInv, SessionTypeOK
    <2>5. CallOK' /\ RecordedFirst'
      BY <1>0, <2>1, <2>3 DEF SessionInv, CallOK, RecordedFirst, Recorded
    <2>6. SentOnce'
      BY <2>1, <2>3 DEF SessionInv, SentOnce, ForwardedOnce
    <2>7. FateOK'
      BY <1>0, <2>1 DEF SessionInv, FateOK, Pending
    <2> QED
      BY <2>4, <2>5, <2>6, <2>7 DEF SessionInv
  <1>2. CASE SubmitUnsent \/ SubmitReturns
    BY <1>0, <1>2, AnswerStep DEF SubmitUnsent, SubmitReturns, apiVars, chainVars
  <1>3. CASE SubmitLost
    <2>1. PICK code \in {"TRANSPORT", "INVALID"} :
              /\ code = "INVALID" => call.reply # "none"
              /\ Answer(code)
              /\ flying' = IF call.reply = "none" THEN flying \cup {call} ELSE flying
      BY <1>3 DEF SubmitLost
    <2> QED
      BY <1>0, <1>3, <2>1, AnswerStep DEF SubmitLost, apiVars
  <1> QED
    BY <1>1, <1>2, <1>3 DEF SubmitStep

-----------------------------------------------------------------------------
(* The chain.                                                               *)

(* It applies the block of the call, or one that was lost, once, and lets   *)
(* the session know or not.                                                 *)
LEMMA ChainKeeps ==
    ASSUME SessionInv,
           ChainMoves \/ ChainAnswers \/ \E m \in flying : ChainAnswersLate(m)
    PROVE  SessionInv'
  <1>0. MaxTip \in Nat /\ tip \in 0 .. MaxTip
    BY SessionAssumption DEF SessionInv, SessionTypeOK, Tips
  <1>1. CASE ChainMoves
    BY <1>0, <1>1 DEF ChainMoves, Extend, apiVars, SessionInv, SessionTypeOK, Tips,
       CallOK, Recorded, RecordedFirst, SentOnce, ForwardedOnce, FateOK, Pending
  <1>2. CASE ChainAnswers
    <2>1. /\ call # NoCall /\ call.op = "wait" /\ call.reply = "none"
          /\ call.key \in NonceKeys /\ Recorded(call.key) /\ call.nth \notin applied
          /\ UNCHANGED <<session, job, sent, flying, answers>>
      BY <1>2 DEF ChainAnswers, NoCall, SessionInv, CallOK, FateOK, apiVars
    <2>2. PICK r \in {"OK", "STALE", "REJECTED"} :
              /\ call' = [call EXCEPT !.reply = r]
              /\ applied' = IF r = "OK" THEN applied \cup {call.nth} ELSE applied
              /\ tip' \in 0 .. MaxTip
      BY <1>0, <1>2 DEF ChainAnswers, Extend
    <2>3. /\ call'.op = "wait" /\ call'.key = call.key /\ call'.nth = call.nth
          /\ call'.reply = r /\ call' # NoCall
      <3>1. call'.op = "wait" /\ call'.key = call.key /\ call'.nth = call.nth
        BY <2>1, <2>2
      <3>2. call'.reply = r
        BY <2>1, <2>2
      <3> QED
        BY <3>1, <3>2 DEF NoCall
    <2>4. SessionTypeOK'
      BY <2>1, <2>2, <2>3 DEF SessionInv, SessionTypeOK, Tips
    <2>5. CallOK' /\ RecordedFirst' /\ SentOnce'
      BY <2>1, <2>2, <2>3 DEF SessionInv, CallOK, Recorded, RecordedFirst,
         SentOnce, ForwardedOnce
    <2>6. \A m \in flying : m.nth # call.nth
      <3>1. Len(answers) \in Nat /\ DOMAIN answers = 1 .. Len(answers)
        BY DEF SessionInv, SessionTypeOK
      <3> QED
        BY <2>1, <3>1 DEF SessionInv, CallOK, FateOK
    <2>7. FateOK'
      BY <2>1, <2>2, <2>3, <2>6 DEF SessionInv, FateOK, Pending
    <2> QED
      BY <2>4, <2>5, <2>7 DEF SessionInv
  <1>3. ASSUME NEW m \in flying, ChainAnswersLate(m) PROVE SessionInv'
    <2>1. /\ UNCHANGED <<session, job, call, sent, answers>> /\ flying' = flying \ {m}
          /\ tip' \in 0 .. MaxTip
          /\ applied' = applied \cup {m.nth} \/ applied' = applied
      BY <1>0, <1>3 DEF ChainAnswersLate, Extend, apiVars
    <2>2. m.nth \in DOMAIN answers /\ m.nth \notin applied
      BY DEF SessionInv, FateOK
    <2>3. call # NoCall => m.nth # call.nth
      <3>1. Len(answers) \in Nat /\ DOMAIN answers = 1 .. Len(answers)
        BY DEF SessionInv, SessionTypeOK
      <3> QED
        BY <2>2, <3>1 DEF SessionInv, CallOK
    <2>4. SessionTypeOK'
      BY <2>1 DEF SessionInv, SessionTypeOK, Tips
    <2>5. CallOK' /\ RecordedFirst' /\ SentOnce'
      BY <2>1 DEF SessionInv, CallOK, Recorded, RecordedFirst, SentOnce, ForwardedOnce
    <2>6. FateOK'
      BY <2>1, <2>2, <2>3 DEF SessionInv, FateOK, Pending
    <2> QED
      BY <2>4, <2>5, <2>6 DEF SessionInv
  <1> QED
    BY <1>1, <1>2, <1>3

-----------------------------------------------------------------------------
(* The results.                                                             *)

(* No session has submitted anything yet.                                   *)
LEMMA SessionsStart == SessionsInit => SessionInv
  <1> SUFFICES ASSUME SessionsInit PROVE SessionInv
    OBVIOUS
  <1>1. \A s \in Sessions :
           /\ session[s] = NewSession(1) /\ session[s].submitted = <<>>
           /\ session[s] \in [epoch : 1 .. MaxInits, subscribed : BOOLEAN,
                             identity : Identities \cup {Null}, submitted : Seq(Nonces)]
    BY SessionAssumption DEF SessionsInit, NewSession
  <1>2. \A s \in Sessions : Len(session[s].submitted) <= DuplicateCapacity
                           /\ IsInjective(session[s].submitted)
    BY <1>1, SessionAssumption DEF IsInjective
  <1>3. session \in [Sessions ->
                       [epoch : 1 .. MaxInits, subscribed : BOOLEAN,
                        identity : Identities \cup {Null}, submitted : Seq(Nonces)]]
    BY <1>1 DEF SessionsInit
  <1>4. SessionTypeOK
    BY <1>2, <1>3, SessionAssumption DEF SessionsInit, SessionTypeOK, NoCall, Tips
  <1>5. CallOK /\ RecordedFirst /\ SentOnce /\ FateOK
    BY DEF SessionsInit, CallOK, RecordedFirst, SentOnce, ForwardedOnce, FateOK, NoCall,
       Pending
  <1> QED
    BY <1>4, <1>5 DEF SessionInv

(* Every call of the library and every step of the chain keeps the          *)
(* invariant.                                                               *)
LEMMA SessionStep == SessionInv /\ [SessionsNext]_sessionsVars => SessionInv'
  <1> SUFFICES ASSUME SessionInv, [SessionsNext]_sessionsVars PROVE SessionInv'
    OBVIOUS
  <1>1. ASSUME UNCHANGED <<session, job, call, tip, sent, applied, flying, answers>>
        PROVE  SessionInv'
    BY <1>1 DEF SessionInv, SessionTypeOK, CallOK, Recorded, RecordedFirst,
       SentOnce, ForwardedOnce, FateOK, Pending
  <1>2. CASE UNCHANGED sessionsVars
    BY <1>1, <1>2 DEF sessionsVars
  <1> QED
    BY <1>2, ApiStep, JobStep, LocalKeeps, SubmitTipStep, SubmitKeeps, ChainKeeps
       DEF SessionsNext

(* The invariant of the session prototype.                                  *)
THEOREM SessionInvariant == SessionsSpec => []SessionInv
  <1> QED
    BY SessionsStart, SessionStep, PTL DEF SessionsSpec

(* A history of nonces never outgrows its array nor repeats itself,         *)
(* whatever sequence of calls a caller makes.                               *)
THEOREM SessionTypes == SessionsSpec => []SessionTypeOK
  <1>1. SessionInv => SessionTypeOK
    BY DEF SessionInv
  <1> QED
    BY <1>1, SessionInvariant, PTL

(* stn_stratum_submit hands a nonce to the chain at most once in the life   *)
(* of a session, for any number of sessions, jobs and tips and any capacity *)
(* of the history.                                                          *)
THEOREM NoncesForwardedOnce == SessionsSpec => []ForwardedOnce
  <1>1. SessionInv => ForwardedOnce
    BY DEF SessionInv, SentOnce
  <1> QED
    BY <1>1, SessionInvariant, PTL

-----------------------------------------------------------------------------
(* The refinement of SubmitLedger.                                          *)

(* What has been taken: the calls answered and the one in progress.         *)
TakenCalls == DOMAIN answers \cup Pending

(* A return joins the answers of its status. It answers the call in         *)
(* progress or takes the next number.                                       *)
LEMMA ReturnJoins ==
    ASSUME SessionInv, Len(answers) < MaxCalls, NEW status \in Statuses, Return(status)
    PROVE  LET last == Len(answers) + 1 IN
           /\ last \in 1 .. MaxCalls /\ TakenCalls' = TakenCalls \cup {last}
           /\ \A S : AnsweredWith(S)' = AnsweredWith(S)
                       \cup (IF status \in S THEN {last} ELSE {})
           /\ \A S : last \notin AnsweredWith(S)
           /\ call # NoCall => call.nth = last
           /\ call = NoCall => last \notin applied
  <1> DEFINE last == Len(answers) + 1
  <1>1. answers' = Append(answers, status) /\ call' = NoCall
    BY DEF Return
  <1>2. /\ answers \in Seq(Statuses) /\ Len(answers) \in Nat
        /\ DOMAIN answers = 1 .. Len(answers) /\ MaxCalls \in Nat
    BY SessionAssumption DEF SessionInv, SessionTypeOK
  <1>3. /\ last \in 1 .. MaxCalls /\ last \notin DOMAIN answers
        /\ DOMAIN answers' = DOMAIN answers \cup {last} /\ answers'[last] = status
        /\ \A i \in DOMAIN answers : answers'[i] = answers[i]
    BY <1>1, <1>2
  <1>4. call # NoCall => call.nth = last
    BY DEF SessionInv, CallOK
  <1> HIDE DEF last
  <1>5. TakenCalls' = TakenCalls \cup {last}
    BY <1>1, <1>3, <1>4 DEF TakenCalls, Pending
  <1>6. \A S : AnsweredWith(S)' = AnsweredWith(S)
                  \cup (IF status \in S THEN {last} ELSE {})
    BY <1>3 DEF AnsweredWith
  <1>7. \A S : last \notin AnsweredWith(S)
    BY <1>3 DEF AnsweredWith
  <1>8. call = NoCall => last \notin applied
    BY <1>3 DEF SessionInv, FateOK, Pending
  <1> QED
    BY <1>3, <1>4, <1>5, <1>6, <1>7, <1>8 DEF last

(* A return is a step of the ledger when its status is true of its call.    *)
LEMMA ReturnInLedger ==
    ASSUME SessionInv, Len(answers) < MaxCalls, NEW status \in Statuses, Return(status),
           applied' = applied,
           status = "OK" => call # NoCall /\ call.reply = "OK",
           status \in Refusals => call = NoCall \/ call.reply # "OK"
    PROVE  Ledger!Next
  <1> DEFINE last == Len(answers) + 1
             Yes == {"OK"}
             Open == {"PROVIDER"}
  <1>1. /\ last \in 1 .. MaxCalls /\ TakenCalls' = TakenCalls \cup {last}
        /\ AnsweredWith(Yes)' = AnsweredWith(Yes)
              \cup (IF status \in Yes THEN {last} ELSE {})
        /\ AnsweredWith(Refusals)' = AnsweredWith(Refusals)
              \cup (IF status \in Refusals THEN {last} ELSE {})
        /\ AnsweredWith(Open)' = AnsweredWith(Open)
              \cup (IF status \in Open THEN {last} ELSE {})
        /\ last \notin AnsweredWith(Yes) \cup AnsweredWith(Refusals)
                       \cup AnsweredWith(Open)
        /\ call # NoCall => call.nth = last
        /\ call = NoCall => last \notin applied
    BY ReturnJoins
  <1>2. call # NoCall => (call.reply = "OK" <=> last \in applied)
    BY <1>1 DEF SessionInv, FateOK
  <1>3. call # NoCall => last \in TakenCalls
    BY <1>1 DEF TakenCalls, Pending
  <1> HIDE DEF last
  <1>4. CASE status = "OK"
    <2>1. TakenCalls' = TakenCalls /\ last \in applied
      BY <1>1, <1>2, <1>3, <1>4
    <2>2. Ledger!Accept(last)
      BY <1>1, <1>4, <2>1 DEF Ledger!Accept, Ledger!Answered, TakenCalls, Refusals
    <2> QED
      BY <1>1, <2>2 DEF Ledger!Next
  <1>5. CASE status \in Refusals
    <2>1. last \notin applied /\ status \notin Yes /\ status \notin Open
      BY <1>1, <1>2, <1>5 DEF Refusals
    <2>2. Ledger!Refuse(last)
      BY <1>1, <1>5, <2>1 DEF Ledger!Refuse, Ledger!Answered, TakenCalls
    <2> QED
      BY <1>1, <2>2 DEF Ledger!Next
  <1>6. CASE status = "PROVIDER"
    <2>1. status \notin Yes /\ status \notin Refusals
      BY <1>6 DEF Refusals
    <2>2. Ledger!Doubt(last)
      BY <1>1, <1>6, <2>1 DEF Ledger!Doubt, Ledger!Answered, TakenCalls
    <2> QED
      BY <1>1, <2>2 DEF Ledger!Next
  <1> QED
    BY <1>4, <1>5, <1>6 DEF Statuses

(* So is an answer that comes after the chain was asked to submit.          *)
LEMMA AnswerInLedger ==
    ASSUME SessionInv, SubmitUnsent \/ SubmitReturns \/ SubmitLost
    PROVE  Ledger!Next
  <1>1. call # NoCall /\ applied' = applied
    BY DEF SubmitUnsent, SubmitReturns, SubmitLost, NoCall, chainVars
  <1>2. /\ call.reply \in {"none", "OK", "STALE", "REJECTED"}
        /\ Len(answers) < MaxCalls
    <2>1. Len(answers) \in Nat /\ MaxCalls \in Nat
      BY SessionAssumption DEF SessionInv, SessionTypeOK
    <2> QED
      BY <1>1, <2>1 DEF SessionInv, CallOK
  <1>3. ASSUME NEW code \in {"CAPACITY", "ARGUMENT", "TRANSPORT", "INVALID"},
               Answer(code)
        PROVE  Ledger!Next
    <2>1. Return("PROVIDER")
      BY <1>3 DEF Answer, Status
    <2>2. "PROVIDER" \in Statuses /\ "PROVIDER" \notin Refusals
      BY DEF Statuses, Refusals
    <2> QED
      BY <1>1, <1>2, <2>1, <2>2, ReturnInLedger
  <1>4. CASE SubmitUnsent
    <2>1. CASE Submittable(call.of)
      BY <1>3, <1>4, <2>1 DEF SubmitUnsent
    <2>2. CASE ~Submittable(call.of)
      BY <1>3, <1>4, <2>2 DEF SubmitUnsent
    <2> QED
      BY <2>1, <2>2
  <1>5. CASE SubmitLost
    <2>1. PICK code \in {"TRANSPORT", "INVALID"} : Answer(code)
      BY <1>5 DEF SubmitLost
    <2> QED
      BY <1>3, <2>1
  <1>6. CASE SubmitReturns
    <2>1. Return(call.reply) /\ call.reply \in {"OK", "STALE", "REJECTED"}
      BY <1>2, <1>6 DEF SubmitReturns, Answer, Status
    <2>2. call.reply \in Statuses /\ "OK" \notin Refusals
      BY <2>1 DEF Statuses, Refusals
    <2> QED
      BY <1>1, <1>2, <2>1, <2>2, ReturnInLedger
  <1> QED
    BY <1>4, <1>5, <1>6

(* A submission is taken when the session has passed it, and applied while  *)
(* it waits for its reply or after its reply was lost.                      *)
LEMMA ApplyInLedger ==
    ASSUME SessionInv, NEW k \in TakenCalls, k \notin applied,
           k \notin AnsweredWith({"OK"}) \cup AnsweredWith(Refusals),
           applied' = applied \cup {k}, UNCHANGED <<answers, Pending>>
    PROVE  Ledger!Next
  <1>1. TakenCalls' = TakenCalls /\ \A S : AnsweredWith(S)' = AnsweredWith(S)
    BY DEF TakenCalls, AnsweredWith
  <1>2. k \in 1 .. MaxCalls
    <2>1. /\ Len(answers) \in Nat /\ MaxCalls \in Nat /\ Len(answers) <= MaxCalls
          /\ DOMAIN answers = 1 .. Len(answers)
      BY SessionAssumption DEF SessionInv, SessionTypeOK
    <2> QED
      BY <2>1 DEF TakenCalls, Pending, SessionInv, CallOK
  <1>3. Ledger!Apply(k)
    BY <1>1 DEF Ledger!Apply, TakenCalls
  <1> QED
    BY <1>2, <1>3 DEF Ledger!Next

(* The chain's steps are steps of the ledger.                               *)
LEMMA ChainInLedger ==
    ASSUME SessionInv, ChainAnswers \/ \E m \in flying : ChainAnswersLate(m)
    PROVE  [Ledger!Next]_(Ledger!vars)
  <1>1. /\ Len(answers) \in Nat /\ DOMAIN answers = 1 .. Len(answers)
    BY DEF SessionInv, SessionTypeOK
  <1>2. CASE ChainAnswers
    <2>1. /\ call # NoCall /\ call.op = "wait" /\ call.reply = "none"
          /\ call.nth = Len(answers) + 1
          /\ call.nth \notin applied /\ answers' = answers
      BY <1>2 DEF ChainAnswers, NoCall, SessionInv, CallOK, FateOK
    <2>2. call'.nth = call.nth /\ call' # NoCall
      <3>1. PICK r : call' = [call EXCEPT !.reply = r]
        BY <1>2 DEF ChainAnswers
      <3>2. call'.op = "wait" /\ call'.nth = call.nth
        BY <2>1, <3>1
      <3> QED
        BY <3>2 DEF NoCall
    <2>3. Pending = {call.nth} /\ Pending' = Pending
      BY <2>1, <2>2 DEF Pending
    <2>4. call.nth \in TakenCalls /\ \A S : call.nth \notin AnsweredWith(S)
      BY <1>1, <2>1, <2>3 DEF TakenCalls, AnsweredWith
    <2>5. applied' = applied \cup {call.nth} \/ applied' = applied
      BY <1>2 DEF ChainAnswers
    <2>6. CASE applied' = applied
      BY <2>1, <2>3, <2>6 DEF Ledger!vars, AnsweredWith
    <2> QED
      BY <2>1, <2>3, <2>4, <2>5, <2>6, ApplyInLedger
  <1>3. ASSUME NEW m \in flying, ChainAnswersLate(m) PROVE [Ledger!Next]_(Ledger!vars)
    <2>1. /\ m.nth \in DOMAIN answers /\ m.nth \notin applied
          /\ answers[m.nth] = "PROVIDER"
      BY DEF SessionInv, FateOK
    <2>2. answers' = answers /\ Pending' = Pending
      BY <1>3 DEF ChainAnswersLate, Pending
    <2>3. m.nth \in TakenCalls
      BY <2>1 DEF TakenCalls
    <2>4. m.nth \notin AnsweredWith({"OK"}) \cup AnsweredWith(Refusals)
      BY <2>1 DEF AnsweredWith, Refusals
    <2>5. applied' = applied \cup {m.nth} \/ applied' = applied
      BY <1>3 DEF ChainAnswersLate
    <2>6. CASE applied' = applied
      BY <2>2, <2>6 DEF Ledger!vars, AnsweredWith
    <2> QED
      BY <2>1, <2>2, <2>3, <2>4, <2>5, <2>6, ApplyInLedger
  <1> QED
    BY <1>2, <1>3

(* Every step of the session is a step of the ledger or changes nothing it  *)
(* shows.                                                                   *)
LEMMA SessionLedgerStep ==
    SessionInv /\ [SessionsNext]_sessionsVars => [Ledger!Next]_(Ledger!vars)
  <1> SUFFICES ASSUME SessionInv, [SessionsNext]_sessionsVars
               PROVE  [Ledger!Next]_(Ledger!vars)
    OBVIOUS
  <1>1. ASSUME UNCHANGED <<call, applied, answers>> PROVE [Ledger!Next]_(Ledger!vars)
    BY <1>1 DEF Ledger!vars, Pending, AnsweredWith
  <1>2. ASSUME NEW s \in Sessions, NEW j \in Jobs, NEW n \in Nonces, SubmitTip(s, j, n)
        PROVE  [Ledger!Next]_(Ledger!vars)
    <2>1. /\ call = NoCall /\ call' # NoCall
          /\ call'.nth = Len(answers) + 1 /\ call'.nth \in 1 .. MaxCalls
          /\ UNCHANGED <<applied, answers>>
      BY <1>2, SubmitTipStep
    <2>2. Len(answers) \in Nat /\ DOMAIN answers = 1 .. Len(answers)
      BY DEF SessionInv, SessionTypeOK
    <2>3. call'.nth \notin TakenCalls /\ TakenCalls' = TakenCalls \cup {call'.nth}
      BY <2>1, <2>2 DEF TakenCalls, Pending
    <2>4. \A S : AnsweredWith(S)' = AnsweredWith(S)
      BY <2>1 DEF AnsweredWith
    <2>5. Ledger!Take(call'.nth)
      BY <2>1, <2>3, <2>4 DEF Ledger!Take, TakenCalls
    <2> QED
      BY <2>1, <2>5 DEF Ledger!Next
  <1>3. ASSUME NEW s \in Sessions, NEW j \in Jobs,
               \/ SubmitNotReady(s, j) \/ SubmitTipFails(s, j)
               \/ \E n \in Nonces : SubmitRefused(s, j, n)
        PROVE  [Ledger!Next]_(Ledger!vars)
    <2>1. /\ call = NoCall /\ Len(answers) < MaxCalls /\ applied' = applied
          /\ \E status \in Refusals \cup {"PROVIDER"} : Return(status)
      BY <1>3, LocalReturn
    <2>2. PICK status \in Statuses : Return(status) /\ status # "OK"
      BY <2>1 DEF Statuses, Refusals
    <2> QED
      BY <2>1, <2>2, ReturnInLedger
  <1>4. CASE SubmitSend
    <2>1. /\ call # NoCall /\ call' # NoCall /\ call'.nth = call.nth
          /\ UNCHANGED <<applied, answers>>
      BY <1>4 DEF SubmitSend, NoCall, SessionInv, CallOK, chainVars
    <2> QED
      BY <2>1 DEF Ledger!vars, Pending, AnsweredWith
  <1>5. CASE SessionsNext
    <2>1. ASSUME NEW s \in Sessions, SessionInit(s) \/ Subscribe(s)
          PROVE  [Ledger!Next]_(Ledger!vars)
      BY <1>1, <2>1 DEF SessionInit, Subscribe, chainVars
    <2>2. ASSUME NEW s \in Sessions, NEW i \in Identities, RegisterIdentity(s, i)
          PROVE  [Ledger!Next]_(Ledger!vars)
      BY <1>1, <2>2 DEF RegisterIdentity, chainVars
    <2>3. ASSUME NEW j \in Jobs, JobInvalidate(j) \/ JobRefresh(j)
          PROVE  [Ledger!Next]_(Ledger!vars)
      BY <1>1, <2>3 DEF JobInvalidate, JobRefresh, chainVars
    <2>4. CASE ChainMoves
      BY <1>1, <2>4 DEF ChainMoves
    <2> QED
      BY <1>2, <1>3, <1>4, <1>5, <2>1, <2>2, <2>3, <2>4, AnswerInLedger, ChainInLedger
         DEF SessionsNext, SubmitStep
  <1>6. CASE UNCHANGED sessionsVars
    BY <1>1, <1>6 DEF sessionsVars
  <1> QED
    BY <1>5, <1>6

(* The status stn_stratum_submit returns keeps the promises of the ledger,  *)
(* whoever decides on it: OK only of a call whose block the chain applied,  *)
(* a refusal, the session's own STALE, DUPLICATE and CAPACITY included,     *)
(* only of a call whose block it never will, PROVIDER of everything else,   *)
(* lost replies included.                                                   *)
THEOREM SessionKeepsLedger == SessionsSpec => SessionImplementsLedger
  <1>1. SessionsInit => Ledger!Init
    BY DEF SessionsInit, Ledger!Init, Pending, AnsweredWith
  <1> QED
    BY <1>1, SessionLedgerStep, SessionsStart, SessionStep, PTL
       DEF SessionsSpec, SessionImplementsLedger, Ledger!Spec

-----------------------------------------------------------------------------
(* The hashrate: one frame.                                                 *)

(* A number is at most the quotient if its product with the divisor is at   *)
(* most the dividend.                                                       *)
LEMMA QuotientLargest ==
    ASSUME NEW a \in Nat, NEW b \in Nat \ {0}, NEW c \in Nat
    PROVE  c * b <= a <=> c <= a \div b
<1> DEFINE q == a \div b
           r == a % b
<1>1. q \in Nat /\ r \in 0 .. b - 1 /\ a = b * q + r
    BY Division
<1> HIDE DEF q, r
<1>2. ASSUME c <= q PROVE c * b <= a
    <2>1. c * b <= q * b
        BY <1>1, <1>2, ProductGrows
    <2> QED BY <1>1, <2>1
<1>3. ASSUME c > q PROVE c * b > a
    <2>1. (q + 1) * b <= c * b
        BY <1>1, <1>3, ProductGrows
    <2>2. (q + 1) * b = b * q + b
        BY <1>1
    <2> QED BY <1>1, <2>1, <2>2
<1>4. c <= q \/ c > q
    BY <1>1
<1>5. c * b \in Nat
    OBVIOUS
<1> QED BY <1>1, <1>2, <1>3, <1>4, <1>5 DEF q

(* The exact rate splits along the quotient.                                *)
LEMMA QuotientSplits ==
    ASSUME NEW q \in Nat, NEW r \in Nat, NEW e \in Nat \ {0}, NEW s \in Nat
    PROVE  ((e * q + r) * s) \div e = q * s + ((r * s) \div e)
<1> DEFINE x == (r * s) \div e
           y == ((e * q + r) * s) \div e
<1>1. r * s \in Nat /\ (e * q + r) * s \in Nat /\ q * s \in Nat
    OBVIOUS
<1>2. x \in Nat /\ y \in Nat
    BY <1>1, Division
<1>3. x * e <= r * s /\ ~((x + 1) * e <= r * s)
    BY <1>1, <1>2, QuotientLargest
<1> HIDE DEF x
<1>4. /\ (q * s + x) * e = (e * q) * s + x * e
      /\ (q * s + x + 1) * e = (e * q) * s + (x + 1) * e
    BY <1>2
<1>5. (e * q + r) * s = (e * q) * s + r * s
    OBVIOUS
<1>6. (q * s + x) * e <= (e * q + r) * s /\ ~((q * s + x + 1) * e <= (e * q + r) * s)
    <2>1. (e * q) * s \in Nat /\ x * e \in Nat /\ (x + 1) * e \in Nat
        BY <1>2
    <2> HIDE DEF x
    <2> QED BY <1>1, <1>3, <1>4, <1>5, <2>1
<1>7. q * s + x <= y /\ ~(q * s + x + 1 <= y)
    <2>1. q * s + x \in Nat /\ q * s + x + 1 \in Nat
        BY <1>1, <1>2
    <2> QED BY <1>1, <2>1, <1>6, QuotientLargest
<1> HIDE DEF x, y
<1>8. y = q * s + x
    BY <1>1, <1>2, <1>7
<1> QED BY <1>8 DEF x, y

(* For a remainder too large to be multiplied the code divides by the       *)
(* divisor's thousandth, rounded up: it loses at most one.                  *)
LEMMA LargeRemainder ==
    ASSUME NEW r \in Nat, NEW e \in Nat, r < e, NEW s \in Nat \ {0}, s * s < r
    PROVE  LET x == (r * s) \div e
               y == r \div ((e \div s) + 1)
           IN x \in Nat /\ y \in Nat /\ y <= x /\ x <= y + 1 /\ x < s
<1> DEFINE x == (r * s) \div e
           d == (e \div s) + 1
           y == r \div d
<1>1. /\ r * s \in Nat /\ e \in Nat \ {0} /\ d \in Nat \ {0}
      /\ x \in Nat /\ y \in Nat
    OBVIOUS
<1>2. e <= d * s /\ d * s <= e + s
    <2> DEFINE q == e \div s
               m == e % s
    <2>1. q \in Nat /\ m \in 0 .. s - 1 /\ e = s * q + m
        BY Division
    <2> HIDE DEF q, m
    <2>2. (q + 1) * s = s * q + s
        BY <2>1
    <2>3. e <= (q + 1) * s /\ (q + 1) * s <= e + s
        BY <2>1, <2>2
    <2> QED BY <2>3 DEF q
<1>3. \A c \in Nat : c * e <= r * s <=> c <= x
    BY <1>1, QuotientLargest
<1>4. \A c \in Nat : c * d <= r <=> c <= y
    BY <1>1, QuotientLargest
<1> HIDE DEF x, d, y
<1>5. y <= x
    <2>1. y * d <= r
        BY <1>1, <1>4
    <2>2. (y * d) * s <= r * s
        BY <1>1, <2>1, ProductGrows
    <2>3. y * e <= y * (d * s)
        BY <1>1, <1>2, ProductGrows
    <2>4. y * (d * s) = (y * d) * s
        BY <1>1
    <2>5. y * e \in Nat /\ y * (d * s) \in Nat
        BY <1>1
    <2>6. y * e <= r * s
        BY <1>1, <2>2, <2>3, <2>4, <2>5
    <2> QED BY <1>1, <1>3, <2>6
<1>6. x < s
    <2>1. (r + 1) * s <= e * s
        BY ProductGrows
    <2>2. (r + 1) * s = r * s + s
        OBVIOUS
    <2>3. s * e = e * s /\ e * s \in Nat
        OBVIOUS
    <2>4. ~(s * e <= r * s)
        BY <1>1, <2>1, <2>2, <2>3
    <2> QED BY <1>1, <1>3, <2>4
<1>7. x <= y + 1
    <2> SUFFICES ASSUME x > 0 PROVE x - 1 <= y
        BY <1>1
    <2> DEFINE c == x - 1
    <2>1. c \in Nat /\ c <= s /\ x = c + 1
        BY <1>1, <1>6
    <2> HIDE DEF c
    <2> SUFFICES ASSUME ~(c * d <= r) PROVE FALSE
        BY <1>1, <1>4, <2>1
    <2>2. (r + 1) * s <= (c * d) * s
        <3>1. c * d \in Nat
            BY <1>1, <2>1
        <3>2. r + 1 <= c * d
            BY <3>1
        <3> QED BY <3>1, <3>2, ProductGrows
    <2>3. (c * d) * s = c * (d * s)
        BY <1>1, <2>1
    <2>4. c * (d * s) <= c * (e + s)
        BY <1>1, <1>2, <2>1, ProductGrows
    <2>5. c * (e + s) = c * e + c * s
        BY <2>1
    <2>6. c * e = x * e - e
        BY <2>1
    <2>7. x * e <= r * s
        BY <1>1, <1>3
    <2>8. c * s <= s * s
        BY <2>1, ProductGrows
    <2>9. (r + 1) * s = r * s + s
        OBVIOUS
    <2>10. /\ x * e \in Nat /\ c * e \in Nat /\ c * s \in Nat /\ s * s \in Nat
           /\ (c * d) * s \in Nat
        BY <1>1, <2>1
    <2> QED BY <1>1, <2>1, <2>2, <2>3, <2>4, <2>5, <2>6, <2>7, <2>8, <2>9, <2>10
<1> QED BY <1>1, <1>5, <1>6, <1>7 DEF x, y, d

UInt == 0 .. UIntMax

(* A saturated sum is the sum cut off.                                      *)
LEMMA SaturatedIsMin ==
    ASSUME NEW a \in UInt, NEW b \in Nat
    PROVE  /\ Saturated(a, b) = IF a + b > UIntMax THEN UIntMax ELSE a + b
           /\ Saturated(a, b) \in UInt
BY HashRateAssumption DEF UInt, Saturated

(* process_hash_progress, for every pair of hashes and milliseconds.        *)
LEMMA RateOfFrame ==
    ASSUME NEW h \in UInt, NEW e \in UInt, e # 0
    PROVE  LET exact == (h * Scale) \div e
               best == IF exact > UIntMax THEN UIntMax ELSE exact
           IN /\ Rate(h, e) \in UInt
              /\ Rate(h, e) <= best
              /\ Rate(h, e) >= (IF h % e > UIntMax \div Scale THEN best - 1 ELSE best)
<1> DEFINE q == h \div e
           r == h % e
           x == (r * Scale) \div e
           y == r \div ((e \div Scale) + 1)
           exact == (h * Scale) \div e
           limit == UIntMax \div Scale
<1>0. /\ UIntMax \in Nat /\ Scale \in Nat \ {0}
      /\ h \in Nat /\ e \in Nat \ {0}
    BY HashRateAssumption DEF UInt
<1>1. q \in Nat /\ r \in Nat /\ r < e /\ h = e * q + r
    <2>1. q \in Nat /\ r \in 0 .. e - 1 /\ h = e * q + r
        BY <1>0, Division
    <2> HIDE DEF q, r
    <2> QED BY <1>0, <2>1
<1>2. x \in Nat /\ limit \in Nat
    <2> HIDE DEF r
    <2>1. r * Scale \in Nat
        BY <1>0, <1>1
    <2> QED BY <1>0, <2>1, Division
<1>3. exact = q * Scale + x
    <2>1. ((e * q + r) * Scale) \div e = q * Scale + ((r * Scale) \div e)
        <3> HIDE DEF q, r
        <3> QED BY <1>0, <1>1, QuotientSplits
    <2> QED BY <1>1, <2>1
<1>4. \A c \in Nat : c * Scale <= UIntMax <=> c <= limit
    BY <1>0, QuotientLargest
<1>5. Rate(h, e) = IF q > limit THEN UIntMax ELSE Saturated(q * Scale, Extra(r, e))
    BY <1>0 DEF Rate
<1>6. Extra(r, e) = IF r <= limit THEN x ELSE IF y > Scale - 1 THEN Scale - 1 ELSE y
    BY DEF Extra
<1>7. ASSUME r > limit
      PROVE  y \in Nat /\ y <= x /\ x <= y + 1 /\ x < Scale
    <2> HIDE DEF r, limit
    <2>1. (Scale * Scale) * Scale <= UIntMax
        BY <1>0, HashRateAssumption
    <2>2. Scale * Scale \in Nat
        BY <1>0
    <2>3. Scale * Scale <= limit
        BY <1>4, <2>1, <2>2
    <2>4. Scale * Scale < r
        BY <1>1, <1>2, <1>7, <2>2, <2>3
    <2> QED BY <1>0, <1>1, <2>4, LargeRemainder
<1>8. exact \in Nat /\ q * Scale \in Nat
    <2> HIDE DEF q, x
    <2>1. q * Scale \in Nat
        BY <1>0, <1>1
    <2> QED BY <1>2, <1>3, <2>1
<1> HIDE DEF q, r, x, y, exact, limit
<1> DEFINE best == IF exact > UIntMax THEN UIntMax ELSE exact
<1>9. CASE q > limit
    <2>1. ~(q * Scale <= UIntMax)
        BY <1>1, <1>2, <1>4, <1>9
    <2>2. exact > UIntMax
        BY <1>0, <1>2, <1>3, <1>8, <2>1
    <2>3. Rate(h, e) = UIntMax /\ best = UIntMax
        BY <1>5, <1>9, <2>2
    <2> QED BY <1>0, <2>3 DEF UInt, exact
<1>10. CASE ~(q > limit)
    <2>1. q * Scale <= UIntMax
        BY <1>1, <1>2, <1>4, <1>10
    <2>2. q * Scale \in UInt
        BY <1>0, <1>8, <2>1 DEF UInt
    <2> DEFINE z == Extra(r, e)
    <2>3. /\ z \in Nat /\ z <= x /\ x <= z + 1
          /\ r <= limit => z = x
        <3>1. CASE r <= limit
            BY <1>2, <1>6, <3>1
        <3>2. CASE ~(r <= limit)
            <4>1. y \in Nat /\ y <= x /\ x <= y + 1 /\ x < Scale
                BY <1>1, <1>2, <1>7, <3>2
            <4>2. z = y
                BY <1>0, <1>2, <1>6, <3>2, <4>1
            <4> QED BY <4>1, <4>2, <3>2
        <3> QED BY <3>1, <3>2
    <2>4. Rate(h, e) = Saturated(q * Scale, z)
        BY <1>5, <1>10
    <2> HIDE DEF z
    <2>5. /\ Rate(h, e) = IF q * Scale + z > UIntMax THEN UIntMax ELSE q * Scale + z
          /\ Rate(h, e) \in UInt
        BY <2>2, <2>3, <2>4, SaturatedIsMin
    <2>6. /\ Rate(h, e) <= best
          /\ Rate(h, e) >= (IF r > limit THEN best - 1 ELSE best)
        BY <1>0, <1>1, <1>2, <1>3, <1>8, <2>3, <2>5
    <2> QED BY <2>5, <2>6 DEF exact, r, limit
<1> QED BY <1>9, <1>10

-----------------------------------------------------------------------------
(* The hashrate: the sum over the sessions.                                 *)

(* stn_client_session_total_hashrate: the partial sums of the walk.         *)
LEMMA TotalSteps ==
    ASSUME NEW list \in Seq(UInt)
    PROVE  \E f \in [0 .. Len(list) -> UInt] :
              /\ f[0] = 0
              /\ \A i \in 1 .. Len(list) : f[i] = Saturated(f[i - 1], list[i])
              /\ TotalHashrate(list) = f[Len(list)]
<1>0. PICK N \in Nat : N = Len(list)
    OBVIOUS
<1> DEFINE Eq(u) == u = [i \in 0 .. N |-> IF i = 0 THEN 0
                                          ELSE Saturated(u[i - 1], list[i])]
           total == CHOOSE u : Eq(u)
<1>1. 0 \in UInt /\ \A i \in 1 .. N : list[i] \in UInt
    BY <1>0, HashRateAssumption DEF UInt
<1>2. \A a, b \in UInt : Saturated(a, b) \in UInt
    <2>1. UInt \subseteq Nat
        BY DEF UInt
    <2> QED BY <2>1, SaturatedIsMin
<1>4. PICK G \in [(1 .. N) \X UInt -> UInt] :
            \A i \in 1 .. N, v \in UInt : G[<<i, v>>] = Saturated(v, list[i])
    <2> DEFINE g == [p \in (1 .. N) \X UInt |-> Saturated(p[2], list[p[1]])]
    <2>1. g \in [(1 .. N) \X UInt -> UInt]
        BY <1>1, <1>2
    <2>2. \A i \in 1 .. N, v \in UInt : g[<<i, v>>] = Saturated(v, list[i])
        OBVIOUS
    <2> HIDE DEF g
    <2> QED BY <2>1, <2>2
<1>5. PICK f \in [0 .. N -> UInt] : Recursion(f, 0, N, G)
    BY <1>1, RecursionExists
<1>6. \A i \in 1 .. N : f[i] = Saturated(f[i - 1], list[i])
    <2>1. \A i \in 1 .. N : i - 1 \in 0 .. N
        BY <1>1
    <2> QED BY <1>4, <1>5, <2>1 DEF Recursion
<1>7. Eq(f)
    <2>1. \A i \in 0 .. N : f[i] = IF i = 0 THEN 0 ELSE Saturated(f[i - 1], list[i])
        <3>1. \A i \in 0 .. N : i = 0 \/ i \in 1 .. N
            BY <1>1
        <3> QED BY <1>5, <1>6, <3>1 DEF Recursion
    <2> QED BY <2>1
<1>8. Eq(total)
    <2> HIDE DEF Eq
    <2> QED BY <1>7
<1>9. total[0] = 0 /\ \A i \in 1 .. N : total[i] = Saturated(total[i - 1], list[i])
    <2> HIDE DEF total
    <2>1. \A i \in 0 .. N : total[i] = IF i = 0 THEN 0 ELSE Saturated(total[i - 1], list[i])
        BY <1>8
    <2>2. 0 \in 0 .. N /\ \A i \in 1 .. N : i \in 0 .. N /\ i # 0
        BY <1>1
    <2> QED BY <2>1, <2>2
<1>10. total \in [0 .. N -> UInt]
    <2> HIDE DEF total
    <2>1. \A i \in 0 .. N : total[i] \in UInt
        <3>1. total[0] \in UInt /\ \A i \in 1 .. N : total[i - 1] \in UInt => total[i] \in UInt
            BY <1>1, <1>2, <1>9
        <3> HIDE DEF UInt
        <3> QED BY <1>1, <3>1, RecursionTyped
    <2>2. total = [i \in 0 .. N |-> total[i]]
        BY <1>8
    <2> QED BY <2>1, <2>2
<1>11. TotalHashrate(list) = total[N]
    BY <1>0 DEF TotalHashrate
<1> HIDE DEF total
<1> QED BY <1>0, <1>9, <1>10, <1>11

(* The partial sums without a bound.                                        *)
LEMMA ExactSteps ==
    ASSUME NEW list \in Seq(UInt)
    PROVE  \E f \in [0 .. Len(list) -> Nat] :
              /\ f[0] = 0
              /\ \A i \in 1 .. Len(list) : f[i] = f[i - 1] + list[i]
              /\ ExactTotal(list) = f[Len(list)]
<1>0. PICK N \in Nat : N = Len(list)
    OBVIOUS
<1> DEFINE Eq(u) == u = [i \in 0 .. N |-> IF i = 0 THEN 0
                                          ELSE u[i - 1] + list[i]]
           sum == CHOOSE u : Eq(u)
<1>1. 0 \in Nat /\ \A i \in 1 .. N : list[i] \in Nat
    BY <1>0, HashRateAssumption DEF UInt
<1>4. PICK G \in [(1 .. N) \X Nat -> Nat] :
            \A i \in 1 .. N, v \in Nat : G[<<i, v>>] = v + list[i]
    <2> DEFINE g == [p \in (1 .. N) \X Nat |-> p[2] + list[p[1]]]
    <2>1. g \in [(1 .. N) \X Nat -> Nat]
        BY <1>1
    <2>2. \A i \in 1 .. N, v \in Nat : g[<<i, v>>] = v + list[i]
        OBVIOUS
    <2> HIDE DEF g
    <2> QED BY <2>1, <2>2
<1>5. PICK f \in [0 .. N -> Nat] : Recursion(f, 0, N, G)
    BY <1>1, RecursionExists
<1>6. \A i \in 1 .. N : f[i] = f[i - 1] + list[i]
    <2>1. \A i \in 1 .. N : i - 1 \in 0 .. N
        BY <1>1
    <2> QED BY <1>4, <1>5, <2>1 DEF Recursion
<1>7. Eq(f)
    <2>1. \A i \in 0 .. N : f[i] = IF i = 0 THEN 0 ELSE f[i - 1] + list[i]
        <3>1. \A i \in 0 .. N : i = 0 \/ i \in 1 .. N
            BY <1>1
        <3> QED BY <1>5, <1>6, <3>1 DEF Recursion
    <2> QED BY <2>1
<1>8. Eq(sum)
    <2> HIDE DEF Eq
    <2> QED BY <1>7
<1>9. sum[0] = 0 /\ \A i \in 1 .. N : sum[i] = sum[i - 1] + list[i]
    <2> HIDE DEF sum
    <2>1. \A i \in 0 .. N : sum[i] = IF i = 0 THEN 0 ELSE sum[i - 1] + list[i]
        BY <1>8
    <2>2. 0 \in 0 .. N /\ \A i \in 1 .. N : i \in 0 .. N /\ i # 0
        BY <1>1
    <2> QED BY <2>1, <2>2
<1>10. sum \in [0 .. N -> Nat]
    <2> HIDE DEF sum
    <2>1. \A i \in 0 .. N : sum[i] \in Nat
        <3>1. \A i \in 1 .. N : list[i] \in Nat
            BY <1>1 DEF UInt
        <3>2. ASSUME NEW i \in 1 .. N, sum[i - 1] \in Nat PROVE sum[i] \in Nat
            <4>1. sum[i] = sum[i - 1] + list[i] /\ list[i] \in Nat
                BY <1>9, <3>1
            <4> QED BY <3>2, <4>1
        <3> QED BY <1>1, <1>9, <3>2, RecursionTyped
    <2>2. sum = [i \in 0 .. N |-> sum[i]]
        BY <1>8
    <2> QED BY <2>1, <2>2
<1>11. ExactTotal(list) = sum[N]
    BY <1>0 DEF ExactTotal
<1> HIDE DEF sum
<1> QED BY <1>0, <1>9, <1>10, <1>11

(* The walk yields the exact sum cut off at UIntMax.                        *)
LEMMA TotalIsMin ==
    ASSUME NEW list \in Seq(UInt)
    PROVE  LET sum == ExactTotal(list)
           IN TotalHashrate(list) = IF sum > UIntMax THEN UIntMax ELSE sum
<1>0. PICK N \in Nat : N = Len(list)
    OBVIOUS
<1>1. PICK f \in [0 .. N -> UInt] :
            /\ f[0] = 0
            /\ \A i \in 1 .. N : f[i] = Saturated(f[i - 1], list[i])
            /\ TotalHashrate(list) = f[N]
    BY <1>0, TotalSteps
<1>2. PICK g \in [0 .. N -> Nat] :
            /\ g[0] = 0
            /\ \A i \in 1 .. N : g[i] = g[i - 1] + list[i]
            /\ ExactTotal(list) = g[N]
    BY <1>0, ExactSteps
<1>3. \A i \in 1 .. N : list[i] \in UInt
    BY <1>0
<1> DEFINE Cut(n) == f[n] = IF g[n] > UIntMax THEN UIntMax ELSE g[n]
           T == {n \in 0 .. N : Cut(n)}
<1>4. 0 \in T
    BY <1>1, <1>2, HashRateAssumption
<1>5. ASSUME NEW n \in 0 .. N - 1, n \in T PROVE n + 1 \in T
    <2>1. n + 1 \in 1 .. N /\ (n + 1) - 1 = n /\ n \in 0 .. N /\ n + 1 \in 0 .. N
        OBVIOUS
    <2>2. f[n + 1] = Saturated(f[n], list[n + 1]) /\ g[n + 1] = g[n] + list[n + 1]
        BY <1>1, <1>2, <2>1
    <2>3. f[n] \in UInt /\ g[n] \in Nat /\ list[n + 1] \in UInt
        BY <1>1, <1>2, <1>3, <2>1
    <2>4. Cut(n)
        BY <1>5
    <2>5. f[n + 1] = IF f[n] + list[n + 1] > UIntMax THEN UIntMax ELSE f[n] + list[n + 1]
        <3>1. list[n + 1] \in Nat
            BY <2>3 DEF UInt
        <3> QED BY <2>2, <2>3, <3>1, SaturatedIsMin
    <2>6. Cut(n + 1)
        <3>1. /\ UIntMax \in Nat /\ list[n + 1] \in Nat
              /\ f[n] = IF g[n] > UIntMax THEN UIntMax ELSE g[n]
            BY <2>3, <2>4, HashRateAssumption DEF UInt
        <3>2. g[n + 1] \in Nat /\ g[n + 1] = g[n] + list[n + 1]
            BY <2>1, <2>2
        <3> QED BY <2>3, <2>5, <3>1, <3>2
    <2> QED BY <2>1, <2>6
<1>6. N \in T
    <2> HIDE DEF T
    <2>1. 0 .. N \subseteq T
        BY <1>4, <1>5, IntervalInduction
    <2> QED BY <2>1
<1> QED BY <1>1, <1>2, <1>6

-----------------------------------------------------------------------------
(* The hashrate: every behaviour.                                           *)

RateInv ==
    /\ rates \in Seq(UInt)
    /\ sample \in [hashes : UInt, elapsed : UInt, rate : UInt]
    /\ RateAccurate

(* The rates fit their integers and the last one is accurate, whatever      *)
(* frames came and sessions went.                                           *)
THEOREM RateInvariant == RateSpec => []RateInv
<1>0. 0 \in UInt /\ Inputs \subseteq UInt /\ UIntMax \in Nat
    BY HashRateAssumption DEF UInt
<1>1. RateInit => RateInv
    BY <1>0 DEF RateInit, RateInv, RateAccurate, NoSample
<1>2. RateInv /\ [RateNext]_rateVars => RateInv'
    <2> SUFFICES ASSUME RateInv, [RateNext]_rateVars PROVE RateInv'
        OBVIOUS
    <2>1. CASE Join
        BY <1>0, <2>1 DEF Join, RateInv, RateAccurate
    <2>2. ASSUME NEW i \in DOMAIN rates, Leave(i) PROVE RateInv'
        <3>1. SubSeq(rates, 1, i - 1) \in Seq(UInt) /\ SubSeq(rates, i + 1, Len(rates)) \in Seq(UInt)
            BY DEF RateInv
        <3>2. rates' \in Seq(UInt)
            BY <2>2, <3>1 DEF Leave, RemoveAt
        <3> QED BY <2>2, <3>2 DEF Leave, RateInv, RateAccurate
    <2>3. ASSUME NEW i \in DOMAIN rates, NEW h \in Inputs, NEW e \in Inputs,
                 Progress(i, h, e)
          PROVE  RateInv'
        <3>1. h \in UInt /\ e \in UInt
            BY <1>0
        <3>2. Rate(h, e) \in UInt
            <4>1. CASE e = 0
                BY <1>0, <4>1 DEF Rate
            <4>2. CASE e # 0
                BY <3>1, <4>2, RateOfFrame
            <4> QED BY <4>1, <4>2
        <3>3. rates' \in Seq(UInt) /\ rates'[i] = Rate(h, e)
            BY <2>3, <3>2 DEF Progress, RateInv
        <3>4. /\ sample' = [hashes |-> h, elapsed |-> e, rate |-> Rate(h, e)]
              /\ sample' \in [hashes : UInt, elapsed : UInt, rate : UInt]
            BY <2>3, <3>1, <3>2, <3>3 DEF Progress
        <3>5. RateAccurate'
            <4> SUFFICES ASSUME e # 0 PROVE RateAccurate'
                BY <3>4 DEF RateAccurate
            <4> HIDE DEF UInt
            <4> QED BY <3>1, <3>4, RateOfFrame DEF RateAccurate
        <3> QED BY <3>3, <3>4, <3>5 DEF RateInv
    <2>4. CASE ClearJobs
        <3>1. rates' \in Seq(UInt)
            BY <1>0, <2>4 DEF ClearJobs, RateInv
        <3> QED BY <2>4, <3>1 DEF ClearJobs, RateInv, RateAccurate
    <2>5. CASE UNCHANGED rateVars
        BY <2>5 DEF rateVars, RateInv, RateAccurate
    <2> QED BY <2>1, <2>2, <2>3, <2>4, <2>5 DEF RateNext
<1> QED BY <1>1, <1>2, PTL DEF RateSpec

(* process_hash_progress and stn_client_session_total_hashrate are exact    *)
(* for every width of the integers, every scale and every list.             *)
THEOREM HashratesAreExact == RateSpec => []HashratesExact
<1>1. RateInv => HashratesExact
    BY TotalIsMin DEF RateInv, HashratesExact, TotalSaturates
<1> QED BY <1>1, RateInvariant, PTL

-----------------------------------------------------------------------------
(* The share target: numbers and their digits.                              *)

(* What is used of the constants.                                           *)
LEMMA TargetConstants ==
    /\ Base \in Nat \ {0} /\ NDigits \in Nat \ {0} /\ Factor \in Nat \ {0}
    /\ Top \in Nat \ {0} /\ Top <= Base /\ 1 \in 1 .. NDigits
    /\ \A d \in Digits : d \in Nat /\ d < Base
<1>1. /\ Base \in Nat \ {0} /\ NDigits \in Nat \ {0} /\ Factor \in Nat \ {0}
      /\ 1 \in 1 .. NDigits /\ \A d \in Digits : d \in Nat /\ d < Base
    BY ShareTargetAssumption DEF Digits
<1>2. Top \in Nat \ {0} /\ Top <= Base
    BY ShareTargetAssumption DEF Top
<1> QED BY <1>1, <1>2

(* f holds the values of the prefixes of the digits a.                      *)
PrefixValues(f, a) == \A i \in 1 .. NDigits : f[i] = f[i - 1] * Base + a[i]

(* The value of a number is that of its last prefix.                        *)
LEMMA ValueSteps ==
    ASSUME NEW a \in Numbers
    PROVE  \E f \in [0 .. NDigits -> Nat] :
              f[0] = 0 /\ PrefixValues(f, a) /\ Value(a) = f[NDigits]
<1> DEFINE Eq(u) == u = [i \in 0 .. NDigits |->
                            IF i = 0 THEN 0 ELSE u[i - 1] * Base + a[i]]
           upto == CHOOSE u : Eq(u)
<1>1. /\ NDigits \in Nat /\ 0 \in Nat /\ Base \in Nat
      /\ \A i \in 1 .. NDigits : a[i] \in Nat
    BY TargetConstants DEF Numbers
<1>2. PICK G \in [(1 .. NDigits) \X Nat -> Nat] :
            \A i \in 1 .. NDigits, v \in Nat : G[<<i, v>>] = v * Base + a[i]
    <2> DEFINE g == [p \in (1 .. NDigits) \X Nat |-> p[2] * Base + a[p[1]]]
    <2>1. g \in [(1 .. NDigits) \X Nat -> Nat]
        <3>1. ASSUME NEW i \in 1 .. NDigits, NEW v \in Nat PROVE v * Base + a[i] \in Nat
            <4>1. v * Base \in Nat /\ a[i] \in Nat
                BY <1>1
            <4> QED BY <4>1
        <3> QED BY <3>1
    <2>2. \A i \in 1 .. NDigits, v \in Nat : g[<<i, v>>] = v * Base + a[i]
        OBVIOUS
    <2> HIDE DEF g
    <2> QED BY <2>1, <2>2
<1>3. PICK f \in [0 .. NDigits -> Nat] : Recursion(f, 0, NDigits, G)
    BY <1>1, RecursionExists
<1>4. Eq(f)
    <2>1. \A i \in 0 .. NDigits : i = 0 \/ (i \in 1 .. NDigits /\ i - 1 \in 0 .. NDigits)
        BY <1>1
    <2>2. \A i \in 0 .. NDigits : f[i] = IF i = 0 THEN 0 ELSE f[i - 1] * Base + a[i]
        BY <1>2, <1>3, <2>1 DEF Recursion
    <2> QED BY <2>2
<1>5. Eq(upto)
    <2> HIDE DEF Eq
    <2> QED BY <1>4
<1>6. Value(a) = upto[NDigits]
    BY DEF Value
<1> HIDE DEF upto
<1>7. upto[0] = 0 /\ \A i \in 1 .. NDigits : upto[i] = upto[i - 1] * Base + a[i]
    <2>1. \A i \in 0 .. NDigits : upto[i] = IF i = 0 THEN 0 ELSE upto[i - 1] * Base + a[i]
        BY <1>5
    <2>2. 0 \in 0 .. NDigits /\ \A i \in 1 .. NDigits : i \in 0 .. NDigits /\ i # 0
        BY <1>1
    <2> QED BY <2>1, <2>2
<1>8. \A i \in 0 .. NDigits : upto[i] \in Nat
    <2>1. ASSUME NEW i \in 1 .. NDigits, upto[i - 1] \in Nat PROVE upto[i] \in Nat
        <3>1. upto[i - 1] * Base \in Nat /\ a[i] \in Nat
            BY <1>1, <2>1
        <3> QED BY <1>7, <3>1
    <2> QED BY <1>1, <1>7, <2>1, RecursionTyped
<1>9. upto = [i \in 0 .. NDigits |-> upto[i]]
    BY <1>5
<1>10. upto \in [0 .. NDigits -> Nat]
    BY <1>8, <1>9
<1> QED BY <1>6, <1>7, <1>10 DEF PrefixValues

(* One digit more keeps the order of two prefixes.                          *)
LEMMA DigitKeepsOrder ==
    ASSUME NEW x \in Nat, NEW y \in Nat, NEW d \in Digits, NEW e \in Digits
    PROVE  /\ x < y => x * Base + d < y * Base + e
           /\ x <= y /\ d <= e => x * Base + d <= y * Base + e
<1>1. Base \in Nat /\ d \in Nat /\ e \in Nat /\ d < Base
    BY TargetConstants
<1>2. x * Base \in Nat /\ y * Base \in Nat
    BY <1>1
<1>3. ASSUME x < y PROVE x * Base + d < y * Base + e
    <2>1. (x + 1) * Base <= y * Base
        BY <1>1, <1>3, ProductGrows
    <2>2. (x + 1) * Base = x * Base + Base
        BY <1>1
    <2> QED BY <1>1, <1>2, <2>1, <2>2
<1>4. ASSUME x <= y, d <= e PROVE x * Base + d <= y * Base + e
    <2>1. x * Base <= y * Base
        BY <1>1, <1>4, ProductGrows
    <2> QED BY <1>1, <1>2, <1>4, <2>1
<1> QED BY <1>3, <1>4

(* A prefix that is less decides, whatever digits follow.                   *)
LEMMA PrefixDecides ==
    ASSUME NEW f \in [0 .. NDigits -> Nat], NEW g \in [0 .. NDigits -> Nat],
           NEW a \in Numbers, NEW b \in Numbers, PrefixValues(f, a), PrefixValues(g, b),
           NEW k \in 0 .. NDigits, f[k] < g[k]
    PROVE  f[NDigits] < g[NDigits]
<1> DEFINE T == {n \in 0 .. NDigits : n >= k => f[n] < g[n]}
<1>0. NDigits \in Nat
    BY TargetConstants
<1>1. 0 \in T
    <2>1. 0 >= k => k = 0
        BY <1>0
    <2> QED BY <1>0, <2>1
<1>2. ASSUME NEW n \in 0 .. NDigits - 1, n \in T PROVE n + 1 \in T
    <2>1. /\ n \in 0 .. NDigits /\ n + 1 \in 1 .. NDigits /\ n + 1 \in 0 .. NDigits
          /\ (n + 1) - 1 = n
        BY <1>0
    <2> SUFFICES ASSUME n + 1 >= k PROVE f[n + 1] < g[n + 1]
        BY <2>1
    <2>2. CASE n >= k
        <3>1. f[n] < g[n] /\ f[n] \in Nat /\ g[n] \in Nat
            BY <1>2, <2>1, <2>2
        <3>2. a[n + 1] \in Digits /\ b[n + 1] \in Digits
            BY <2>1 DEF Numbers
        <3>3. f[n + 1] = f[n] * Base + a[n + 1] /\ g[n + 1] = g[n] * Base + b[n + 1]
            BY <2>1 DEF PrefixValues
        <3> QED BY <3>1, <3>2, <3>3, DigitKeepsOrder
    <2>3. CASE ~(n >= k)
        <3>1. n + 1 = k
            BY <1>0, <2>3
        <3> QED BY <3>1
    <2> QED BY <2>2, <2>3
<1>3. 0 .. NDigits \subseteq T
    <2> HIDE DEF T
    <2> QED BY <1>0, <1>1, <1>2, IntervalInduction
<1>4. NDigits \in 0 .. NDigits
    BY <1>0
<1> QED BY <1>0, <1>3, <1>4

(* Equal digits have equal prefixes.                                        *)
LEMMA PrefixesAgree ==
    ASSUME NEW f \in [0 .. NDigits -> Nat], NEW g \in [0 .. NDigits -> Nat],
           NEW a \in Numbers, NEW b \in Numbers, PrefixValues(f, a), PrefixValues(g, b),
           f[0] = g[0],
           NEW k \in 0 .. NDigits, \A i \in 1 .. k : a[i] = b[i]
    PROVE  f[k] = g[k]
<1> DEFINE T == {n \in 0 .. k : f[n] = g[n]}
<1>0. NDigits \in Nat /\ k \in Nat
    BY TargetConstants
<1>1. 0 \in T
    BY <1>0
<1>2. ASSUME NEW n \in 0 .. k - 1, n \in T PROVE n + 1 \in T
    <2>1. /\ n + 1 \in 1 .. k /\ n + 1 \in 1 .. NDigits
          /\ n + 1 \in 0 .. k /\ (n + 1) - 1 = n
        BY <1>0
    <2>2. f[n + 1] = f[n] * Base + a[n + 1] /\ g[n + 1] = g[n] * Base + b[n + 1]
        BY <2>1 DEF PrefixValues
    <2>3. f[n] = g[n] /\ a[n + 1] = b[n + 1]
        BY <1>2, <2>1
    <2> QED BY <2>1, <2>2, <2>3
<1>3. 0 .. k \subseteq T
    <2> HIDE DEF T
    <2> QED BY <1>0, <1>1, <1>2, IntervalInduction
<1>4. k \in 0 .. k
    BY <1>0
<1> QED BY <1>3, <1>4

(* le of stn_share_verify.c compares the numbers the digits stand for.      *)
LEMMA LeIsLessOrEqual ==
    ASSUME NEW a \in Numbers, NEW b \in Numbers
    PROVE  Le(a, b) <=> Value(a) <= Value(b)
<1>0. NDigits \in Nat
    BY TargetConstants
<1>1. PICK f \in [0 .. NDigits -> Nat] :
            f[0] = 0 /\ PrefixValues(f, a) /\ Value(a) = f[NDigits]
    BY ValueSteps
<1>2. PICK g \in [0 .. NDigits -> Nat] :
            g[0] = 0 /\ PrefixValues(g, b) /\ Value(b) = g[NDigits]
    BY ValueSteps
<1>3. \A i \in 1 .. NDigits : a[i] \in Nat /\ b[i] \in Nat
    BY TargetConstants DEF Numbers
<1>4. Value(a) \in Nat /\ Value(b) \in Nat
    BY <1>0, <1>1, <1>2
<1>5. ASSUME a = b PROVE Le(a, b) /\ Value(a) <= Value(b)
    BY <1>4, <1>5 DEF Le
<1>6. ASSUME a # b PROVE Le(a, b) <=> Value(a) <= Value(b)
    <2> DEFINE D == {i \in 1 .. NDigits : a[i] # b[i]}
    <2>1. D # {}
        <3> SUFFICES ASSUME \A i \in 1 .. NDigits : a[i] = b[i] PROVE FALSE
            OBVIOUS
        <3>1. /\ a = [i \in 1 .. NDigits |-> a[i]]
              /\ b = [i \in 1 .. NDigits |-> b[i]]
            BY DEF Numbers
        <3> QED BY <1>6, <3>1
    <2>2. PICK i \in D : \A k \in D : i <= k
        <3>1. D \in SUBSET Nat
            BY <1>0
        <3> HIDE DEF D
        <3> QED BY <2>1, <3>1, LeastNumber
    <2>3. /\ i \in 1 .. NDigits /\ a[i] # b[i]
          /\ \A k \in 1 .. i - 1 : a[k] = b[k]
        <3>1. \A k \in 1 .. i - 1 : k \in 1 .. NDigits /\ ~(i <= k)
            BY <1>0
        <3> QED BY <2>2, <3>1
    <2> HIDE DEF D
    <2>4. f[i - 1] = g[i - 1]
        <3>1. i - 1 \in 0 .. NDigits
            BY <1>0, <2>3
        <3>2. f[0] = g[0] /\ PrefixValues(f, a) /\ PrefixValues(g, b)
            BY <1>1, <1>2
        <3>3. \A k \in 1 .. i - 1 : a[k] = b[k]
            BY <2>3
        <3> QED BY <3>1, <3>2, <3>3, PrefixesAgree
    <2>5. /\ f[i] = f[i - 1] * Base + a[i] /\ g[i] = g[i - 1] * Base + b[i]
          /\ i \in 0 .. NDigits /\ f[i - 1] * Base \in Nat
        <3>1. f[i] = f[i - 1] * Base + a[i] /\ g[i] = g[i - 1] * Base + b[i]
            BY <1>1, <1>2, <2>3 DEF PrefixValues
        <3>2. i \in 0 .. NDigits /\ f[i - 1] \in Nat /\ Base \in Nat
            BY <1>0, <1>1, <2>3, TargetConstants
        <3> QED BY <3>1, <3>2
    <2>6. CASE a[i] < b[i]
        <3>1. Le(a, b)
            BY <2>3, <2>6 DEF Le
        <3>2. f[i] < g[i]
            BY <1>3, <2>3, <2>4, <2>5, <2>6
        <3>3. Value(a) < Value(b)
            BY <1>1, <1>2, <2>5, <3>2, PrefixDecides
        <3> QED BY <1>4, <3>1, <3>3
    <2>7. CASE b[i] < a[i]
        <3>1. ASSUME Le(a, b) PROVE FALSE
            <4>1. PICK j \in 1 .. NDigits :
                        a[j] < b[j] /\ \A k \in 1 .. j - 1 : a[k] = b[k]
                BY <1>6, <3>1 DEF Le
            <4>2. CASE j = i
                BY <1>3, <2>3, <2>7, <4>1, <4>2
            <4>3. CASE j < i
                <5>1. j \in 1 .. i - 1
                    BY <1>0, <2>3, <4>3
                <5> QED BY <1>3, <2>3, <4>1, <5>1
            <4>4. CASE i < j
                <5>1. i \in 1 .. j - 1
                    BY <1>0, <2>3, <4>4
                <5> QED BY <2>3, <4>1, <5>1
            <4> QED BY <1>0, <2>3, <4>2, <4>3, <4>4
        <3>2. g[i] < f[i]
            BY <1>3, <2>3, <2>4, <2>5, <2>7
        <3>3. Value(b) < Value(a)
            BY <1>1, <1>2, <2>5, <3>2, PrefixDecides
        <3> QED BY <1>4, <3>1, <3>3
    <2> QED BY <1>3, <2>3, <2>6, <2>7
<1> QED BY <1>5, <1>6

(* The carries of a product, and its digits.                                *)
LEMMA CarrySteps ==
    ASSUME NEW t \in Numbers
    PROVE  \E c \in [1 .. NDigits + 1 -> Nat] :
              /\ c[NDigits + 1] = 0
              /\ \A i \in 1 .. NDigits : c[i] = (t[i] * Factor + c[i + 1]) \div Base
              /\ Scaled(t) = [i \in 0 .. NDigits |->
                      IF i = 0 THEN c[1] ELSE (t[i] * Factor + c[i + 1]) % Base]
<1> DEFINE Step(i, v) == (t[i] * Factor + v) \div Base
           Eq(u) == u = [i \in 1 .. NDigits + 1 |->
                            IF i = NDigits + 1 THEN 0 ELSE Step(i, u[i + 1])]
           carry == CHOOSE u : Eq(u)
<1>1. /\ NDigits \in Nat /\ 0 \in Nat /\ Base \in Nat \ {0}
      /\ \A i \in 1 .. NDigits : t[i] * Factor \in Nat
    <2>1. \A i \in 1 .. NDigits : t[i] \in Nat
        BY TargetConstants DEF Numbers
    <2> QED BY <2>1, TargetConstants
<1>2. ASSUME NEW i \in 1 .. NDigits, NEW v \in Nat PROVE Step(i, v) \in Nat
    <2>1. t[i] * Factor + v \in Nat
        BY <1>1
    <2> QED BY <1>1, <2>1, Division
<1> HIDE DEF Step
<1>3. PICK G \in [(1 .. NDigits) \X Nat -> Nat] :
            \A j \in 1 .. NDigits, v \in Nat : G[<<j, v>>] = Step((NDigits + 1) - j, v)
    <2> DEFINE g == [p \in (1 .. NDigits) \X Nat |-> Step((NDigits + 1) - p[1], p[2])]
    <2>1. \A j \in 1 .. NDigits : (NDigits + 1) - j \in 1 .. NDigits
        BY <1>1
    <2>2. g \in [(1 .. NDigits) \X Nat -> Nat]
        BY <1>2, <2>1
    <2>3. \A j \in 1 .. NDigits, v \in Nat : g[<<j, v>>] = Step((NDigits + 1) - j, v)
        OBVIOUS
    <2> HIDE DEF g
    <2> QED BY <2>2, <2>3
<1>4. PICK f \in [0 .. NDigits -> Nat] : Recursion(f, 0, NDigits, G)
    BY <1>1, RecursionExists
<1> DEFINE w == [i \in 1 .. NDigits + 1 |-> f[(NDigits + 1) - i]]
<1>5. Eq(w)
    <2>1. ASSUME NEW i \in 1 .. NDigits + 1
          PROVE  w[i] = IF i = NDigits + 1 THEN 0 ELSE Step(i, w[i + 1])
        <3>1. CASE i = NDigits + 1
            <4>1. (NDigits + 1) - i = 0
                BY <1>1, <3>1
            <4> QED BY <1>4, <3>1, <4>1 DEF Recursion
        <3>2. CASE i # NDigits + 1
            <4> DEFINE j == (NDigits + 1) - i
            <4>1. /\ j \in 1 .. NDigits /\ i + 1 \in 1 .. NDigits + 1
                  /\ (NDigits + 1) - j = i /\ (NDigits + 1) - (i + 1) = j - 1
                  /\ j - 1 \in 0 .. NDigits
                BY <1>1, <3>2
            <4>2. w[i] = f[j] /\ w[i + 1] = f[j - 1]
                BY <4>1
            <4> HIDE DEF w, j
            <4>3. f[j] = G[<<j, f[j - 1]>>] /\ f[j - 1] \in Nat
                BY <1>4, <4>1 DEF Recursion
            <4>4. f[j] = Step((NDigits + 1) - j, f[j - 1])
                BY <1>3, <4>1, <4>3
            <4>5. w[i] = Step(i, w[i + 1])
                BY <4>1, <4>2, <4>4
            <4> QED BY <3>2, <4>5
        <3> QED BY <3>1, <3>2
    <2>2. w = [i \in 1 .. NDigits + 1 |-> w[i]]
        OBVIOUS
    <2> HIDE DEF w
    <2> QED BY <2>1, <2>2
<1>6. Eq(carry)
    <2> HIDE DEF Eq, w
    <2> QED BY <1>5
<1>7. Scaled(t) = [i \in 0 .. NDigits |->
                      IF i = 0 THEN carry[1] ELSE (t[i] * Factor + carry[i + 1]) % Base]
    BY DEF Scaled, Step
<1> HIDE DEF carry
<1>8. /\ carry[NDigits + 1] = 0
      /\ \A i \in 1 .. NDigits : carry[i] = Step(i, carry[i + 1])
    <2>1. \A i \in 1 .. NDigits + 1 :
              carry[i] = IF i = NDigits + 1 THEN 0 ELSE Step(i, carry[i + 1])
        BY <1>6
    <2>2. /\ NDigits + 1 \in 1 .. NDigits + 1
          /\ \A i \in 1 .. NDigits : i \in 1 .. NDigits + 1 /\ i # NDigits + 1
        BY <1>1
    <2> QED BY <2>1, <2>2
<1>9. \A n \in 0 .. NDigits : carry[(NDigits + 1) - n] \in Nat
    <2> DEFINE T == {n \in 0 .. NDigits : carry[(NDigits + 1) - n] \in Nat}
    <2>1. 0 \in T
        BY <1>1, <1>8
    <2>2. ASSUME NEW n \in 0 .. NDigits - 1, n \in T PROVE n + 1 \in T
        <3> DEFINE i == (NDigits + 1) - (n + 1)
        <3>1. i \in 1 .. NDigits /\ i + 1 = (NDigits + 1) - n /\ n + 1 \in 0 .. NDigits
            BY <1>1
        <3>2. carry[i + 1] \in Nat
            BY <2>2, <3>1
        <3> HIDE DEF i
        <3>3. carry[i] \in Nat
            BY <1>2, <1>8, <3>1, <3>2
        <3> QED BY <3>1, <3>3 DEF i
    <2>3. 0 .. NDigits \subseteq T
        <3> HIDE DEF T
        <3> QED BY <1>1, <2>1, <2>2, IntervalInduction
    <2> QED BY <2>3
<1>10. carry \in [1 .. NDigits + 1 -> Nat]
    <2>1. ASSUME NEW i \in 1 .. NDigits + 1 PROVE carry[i] \in Nat
        <3>1. (NDigits + 1) - i \in 0 .. NDigits /\ (NDigits + 1) - ((NDigits + 1) - i) = i
            BY <1>1
        <3> QED BY <1>9, <3>1
    <2>2. carry = [i \in 1 .. NDigits + 1 |-> carry[i]]
        BY <1>6
    <2> QED BY <2>1, <2>2
<1> QED BY <1>7, <1>8, <1>10 DEF Step

(* The digits of a product stand for the product of the values.             *)
LEMMA ScaledValue ==
    ASSUME NEW t \in Numbers
    PROVE  /\ Scaled(t)[0] \in Nat /\ \A i \in 1 .. NDigits : Scaled(t)[i] \in Digits
           /\ \E w \in [0 .. NDigits -> Nat] :
                 /\ w[0] = Scaled(t)[0] /\ PrefixValues(w, Scaled(t))
                 /\ w[NDigits] = Factor * Value(t)
<1>0. NDigits \in Nat /\ Base \in Nat \ {0} /\ Factor \in Nat
    BY TargetConstants
<1>1. PICK c \in [1 .. NDigits + 1 -> Nat] :
            /\ c[NDigits + 1] = 0
            /\ \A i \in 1 .. NDigits : c[i] = (t[i] * Factor + c[i + 1]) \div Base
            /\ Scaled(t) = [i \in 0 .. NDigits |->
                      IF i = 0 THEN c[1] ELSE (t[i] * Factor + c[i + 1]) % Base]
    BY CarrySteps
<1>2. PICK f \in [0 .. NDigits -> Nat] :
            f[0] = 0 /\ PrefixValues(f, t) /\ Value(t) = f[NDigits]
    BY ValueSteps
<1>3. Scaled(t)[0] = c[1] /\ c[1] \in Nat
    BY <1>0, <1>1
<1>4. ASSUME NEW i \in 1 .. NDigits
      PROVE  /\ Scaled(t)[i] \in Digits /\ Scaled(t)[i] \in Nat
             /\ t[i] \in Nat /\ c[i] \in Nat /\ c[i + 1] \in Nat
             /\ t[i] * Factor + c[i + 1] = Base * c[i] + Scaled(t)[i]
    <2>1. t[i] \in Nat /\ i \in 1 .. NDigits + 1 /\ i + 1 \in 1 .. NDigits + 1
        BY <1>0, TargetConstants DEF Numbers
    <2>2. c[i] \in Nat /\ c[i + 1] \in Nat
        BY <2>1
    <2> DEFINE x == t[i] * Factor + c[i + 1]
    <2>3. x \in Nat
        <3>1. t[i] * Factor \in Nat
            BY <1>0, <2>1
        <3> QED BY <2>2, <3>1
    <2>4. c[i] = x \div Base
        BY <1>1
    <2>5. Scaled(t)[i] = x % Base
        <3>1. i \in 0 .. NDigits /\ i # 0
            BY <1>0
        <3> QED BY <1>1, <3>1
    <2> HIDE DEF x
    <2>6. x = Base * (x \div Base) + (x % Base) /\ x % Base \in 0 .. Base - 1
        BY <1>0, <2>3, Division
    <2>7. Scaled(t)[i] \in Digits
        BY <2>5, <2>6 DEF Digits
    <2>8. x = Base * c[i] + Scaled(t)[i]
        BY <2>4, <2>5, <2>6
    <2> QED BY <2>1, <2>2, <2>7, <2>8, TargetConstants DEF x
<1> DEFINE w == [i \in 0 .. NDigits |-> Factor * f[i] + c[i + 1]]
<1>5. w \in [0 .. NDigits -> Nat]
    <2>1. ASSUME NEW i \in 0 .. NDigits PROVE Factor * f[i] + c[i + 1] \in Nat
        <3>1. f[i] \in Nat /\ i + 1 \in 1 .. NDigits + 1
            BY <1>0
        <3>2. c[i + 1] \in Nat /\ Factor * f[i] \in Nat
            BY <1>0, <3>1
        <3> QED BY <3>2
    <2> QED BY <2>1
<1>6. w[0] = Scaled(t)[0]
    <2>1. w[0] = Factor * 0 + c[1]
        BY <1>0, <1>2
    <2> QED BY <1>0, <1>3, <2>1
<1>7. ASSUME NEW i \in 1 .. NDigits PROVE w[i] = w[i - 1] * Base + Scaled(t)[i]
    <2>1. i \in 0 .. NDigits /\ i - 1 \in 0 .. NDigits /\ (i - 1) + 1 = i
        BY <1>0
    <2>2. /\ w[i] = Factor * f[i] + c[i + 1]
          /\ w[i - 1] = Factor * f[i - 1] + c[i]
        BY <2>1
    <2>3. f[i] = f[i - 1] * Base + t[i] /\ f[i - 1] \in Nat
        BY <1>2, <2>1 DEF PrefixValues
    <2> HIDE DEF w
    <2> DEFINE p == f[i - 1]
               y == c[i]
               z == c[i + 1]
               d == t[i]
               r == Scaled(t)[i]
    <2>4. /\ p \in Nat /\ y \in Nat /\ z \in Nat /\ d \in Nat /\ r \in Nat
          /\ d * Factor + z = Base * y + r
        BY <1>4, <2>3
    <2>5. w[i] = Factor * (p * Base + d) + z /\ w[i - 1] = Factor * p + y
        BY <2>2, <2>3
    <2> HIDE DEF p, y, z, d, r
    <2>6. Factor * (p * Base + d) = (Factor * p) * Base + d * Factor
        BY <1>0, <2>4
    <2>7. (Factor * p + y) * Base = (Factor * p) * Base + Base * y
        BY <1>0, <2>4
    <2>8. Factor * (p * Base + d) + z = (Factor * p + y) * Base + r
        <3> DEFINE fpb == (Factor * p) * Base
                   df == d * Factor
                   by == Base * y
        <3>1. fpb \in Nat /\ df \in Nat /\ by \in Nat
            BY <1>0, <2>4
        <3>2. df + z = by + r
            BY <2>4
        <3> HIDE DEF fpb, df, by
        <3>3. (fpb + df) + z = (fpb + by) + r
            BY <2>4, <3>1, <3>2
        <3> QED BY <2>6, <2>7, <3>3 DEF fpb, df, by
    <2> QED BY <2>5, <2>8 DEF r
<1>8. w[NDigits] = Factor * Value(t)
    <2>1. w[NDigits] = Factor * f[NDigits] + 0 /\ f[NDigits] \in Nat
        BY <1>0, <1>1
    <2>2. Factor * f[NDigits] \in Nat
        BY <1>0, <2>1
    <2> QED BY <1>2, <2>1, <2>2
<1> HIDE DEF w
<1> QED BY <1>3, <1>4, <1>5, <1>6, <1>7, <1>8 DEF PrefixValues

-----------------------------------------------------------------------------
(* The share target: the limit.                                             *)

(* A number exceeds MAX_TARGET exactly when its prefix of one digit does.   *)
LEMMA MaxTargetIsLimit ==
    ASSUME NEW f \in [0 .. NDigits -> Nat], NEW a \in Numbers, PrefixValues(f, a)
    PROVE  /\ f[1] >= Top => f[NDigits] > Value(MaxTarget)
           /\ f[1] < Top => f[NDigits] <= Value(MaxTarget)
<1>0. /\ NDigits \in Nat \ {0} /\ Base \in Nat \ {0} /\ Top \in Nat \ {0} /\ Top <= Base
      /\ 1 \in 1 .. NDigits /\ 1 \in 0 .. NDigits /\ f[1] \in Nat
    <2>1. NDigits \in Nat \ {0} /\ 1 \in 0 .. NDigits
        BY TargetConstants
    <2> QED BY <2>1, TargetConstants
<1>1. /\ MaxTarget \in Numbers /\ MaxTarget[1] = Top - 1
      /\ \A i \in 2 .. NDigits : MaxTarget[i] = Base - 1
    <2>1. Top - 1 \in Digits /\ Base - 1 \in Digits
        BY <1>0 DEF Digits
    <2>2. MaxTarget \in Numbers
        BY <2>1 DEF MaxTarget, Numbers
    <2>3. \A i \in 2 .. NDigits : i \in 1 .. NDigits /\ i # 1
        BY <1>0
    <2> QED BY <1>0, <2>2, <2>3 DEF MaxTarget
<1>2. PICK m \in [0 .. NDigits -> Nat] :
            m[0] = 0 /\ PrefixValues(m, MaxTarget) /\ Value(MaxTarget) = m[NDigits]
    BY <1>1, ValueSteps
<1>3. m[1] = Top - 1
    <2>1. m[1] = m[1 - 1] * Base + MaxTarget[1]
        BY <1>0, <1>2 DEF PrefixValues
    <2>2. m[1 - 1] = 0
        BY <1>2
    <2>3. 0 * Base = 0
        BY <1>0
    <2> QED BY <1>0, <1>1, <2>1, <2>2, <2>3
<1>4. ASSUME f[1] >= Top PROVE f[NDigits] > Value(MaxTarget)
    <2>1. m[1] < f[1]
        BY <1>0, <1>3, <1>4
    <2>2. m[NDigits] < f[NDigits]
        BY <1>0, <1>1, <1>2, <2>1, PrefixDecides
    <2>3. m[NDigits] \in Nat /\ f[NDigits] \in Nat
        BY <1>0
    <2> QED BY <1>2, <2>2, <2>3
<1>5. ASSUME f[1] < Top PROVE f[NDigits] <= Value(MaxTarget)
    <2> DEFINE T == {n \in 0 .. NDigits : n >= 1 => f[n] <= m[n]}
    <2>1. 0 \in T
        BY <1>0
    <2>2. ASSUME NEW n \in 0 .. NDigits - 1, n \in T PROVE n + 1 \in T
        <3>1. /\ n \in 0 .. NDigits /\ n + 1 \in 1 .. NDigits /\ n + 1 \in 0 .. NDigits
              /\ (n + 1) - 1 = n
            BY <1>0
        <3> SUFFICES f[n + 1] <= m[n + 1]
            BY <3>1
        <3>2. CASE n = 0
            BY <1>0, <1>3, <1>5, <3>2
        <3>3. CASE n >= 1
            <4>1. f[n] <= m[n] /\ f[n] \in Nat /\ m[n] \in Nat
                BY <2>2, <3>1, <3>3
            <4>2. n + 1 \in 2 .. NDigits
                BY <1>0, <3>3
            <4>3. /\ a[n + 1] \in Digits /\ MaxTarget[n + 1] \in Digits
                  /\ a[n + 1] <= MaxTarget[n + 1]
                <5>1. a[n + 1] \in Digits /\ MaxTarget[n + 1] \in Digits
                    BY <1>1, <3>1 DEF Numbers
                <5>2. a[n + 1] <= Base - 1
                    BY <1>0, <5>1 DEF Digits
                <5> QED BY <1>1, <4>2, <5>1, <5>2
            <4>4. /\ f[n + 1] = f[n] * Base + a[n + 1]
                  /\ m[n + 1] = m[n] * Base + MaxTarget[n + 1]
                BY <1>2, <3>1 DEF PrefixValues
            <4> QED BY <4>1, <4>3, <4>4, DigitKeepsOrder
        <3> QED BY <3>2, <3>3
    <2>3. 0 .. NDigits \subseteq T
        <3>1. NDigits \in Nat
            BY <1>0
        <3> HIDE DEF T
        <3> QED BY <3>1, <2>1, <2>2, IntervalInduction
    <2>4. NDigits \in 0 .. NDigits /\ NDigits >= 1
        BY <1>0
    <2> QED BY <1>2, <2>3, <2>4
<1> QED BY <1>4, <1>5

(* share_target_from_chain computes min(MAX_TARGET, target * factor).       *)
LEMMA ShareValue ==
    ASSUME NEW t \in Numbers
    PROVE  /\ ShareOf(t) \in Numbers
           /\ LET product == Factor * Value(t)
                  limit == Value(MaxTarget)
              IN Value(ShareOf(t)) = IF product > limit THEN limit ELSE product
<1>0. /\ NDigits \in Nat \ {0} /\ Base \in Nat \ {0} /\ Top \in Nat \ {0} /\ Top <= Base
      /\ 1 \in 1 .. NDigits /\ 1 \in 0 .. NDigits
    <2>1. NDigits \in Nat \ {0} /\ 1 \in 0 .. NDigits
        BY TargetConstants
    <2> QED BY <2>1, TargetConstants
<1> DEFINE s == Scaled(t)
           d == [i \in 1 .. NDigits |-> s[i]]
<1>1. s[0] \in Nat /\ \A i \in 1 .. NDigits : s[i] \in Digits
    BY ScaledValue
<1>2. PICK w \in [0 .. NDigits -> Nat] :
            w[0] = s[0] /\ PrefixValues(w, s) /\ w[NDigits] = Factor * Value(t)
    BY ScaledValue
<1>3. ShareOf(t) = IF s[0] # 0 \/ s[1] >= Top THEN MaxTarget ELSE d
    BY DEF ShareOf
<1> HIDE DEF s
<1>4. d \in Numbers /\ PrefixValues(w, d)
    BY <1>1, <1>2 DEF Numbers, PrefixValues
<1>5. w[1] = w[0] * Base + s[1] /\ s[1] \in Nat /\ w[1] \in Nat
    <2>1. w[1] = w[1 - 1] * Base + s[1]
        BY <1>0, <1>2 DEF PrefixValues
    <2>2. 1 - 1 = 0
        OBVIOUS
    <2>3. s[1] \in Nat
        BY <1>0, <1>1, TargetConstants
    <2> QED BY <1>0, <2>1, <2>2, <2>3
<1>6. w[NDigits] \in Nat
    BY <1>0
<1>7. MaxTarget \in Numbers /\ Value(MaxTarget) \in Nat
    <2>1. Top - 1 \in Digits /\ Base - 1 \in Digits
        BY <1>0 DEF Digits
    <2>2. MaxTarget \in Numbers
        BY <2>1 DEF MaxTarget, Numbers
    <2>3. PICK m \in [0 .. NDigits -> Nat] : Value(MaxTarget) = m[NDigits]
        BY <2>2, ValueSteps
    <2> QED BY <1>0, <2>2, <2>3
<1> HIDE DEF d
<1>8. CASE s[0] # 0 \/ s[1] >= Top
    <2>1. w[1] >= Top
        <3>1. CASE s[0] = 0
            <4>1. w[0] * Base = 0
                BY <1>0, <1>2, <3>1
            <4> QED BY <1>0, <1>5, <1>8, <3>1, <4>1
        <3>2. CASE s[0] # 0
            <4>1. 1 * Base <= w[0] * Base
                BY <1>0, <1>1, <1>2, <3>2, ProductGrows
            <4>2. w[0] * Base \in Nat /\ 1 * Base = Base
                BY <1>0, <1>1, <1>2
            <4> QED BY <1>0, <1>5, <4>1, <4>2
        <3> QED BY <3>1, <3>2
    <2>2. w[NDigits] > Value(MaxTarget)
        BY <1>4, <2>1, MaxTargetIsLimit
    <2> QED BY <1>2, <1>3, <1>7, <1>8, <2>2
<1>9. CASE s[0] = 0 /\ ~(s[1] >= Top)
    <2>1. w[1] < Top
        <3>1. w[0] * Base = 0
            BY <1>0, <1>2, <1>9
        <3> QED BY <1>0, <1>5, <1>9, <3>1
    <2>2. w[NDigits] <= Value(MaxTarget)
        BY <1>4, <2>1, MaxTargetIsLimit
    <2>3. PICK f \in [0 .. NDigits -> Nat] :
                f[0] = 0 /\ PrefixValues(f, d) /\ Value(d) = f[NDigits]
        BY <1>4, ValueSteps
    <2>4. f[NDigits] = w[NDigits]
        <3>1. NDigits \in 0 .. NDigits /\ f[0] = w[0]
            BY <1>0, <1>2, <1>9, <2>3
        <3>2. PrefixValues(f, d) /\ PrefixValues(w, d) /\ d \in Numbers
            BY <1>4, <2>3
        <3> QED BY <3>1, <3>2, PrefixesAgree
    <2>5. ~(w[NDigits] > Value(MaxTarget))
        BY <1>6, <1>7, <2>2
    <2>6. ShareOf(t) = d
        BY <1>3, <1>9
    <2> QED BY <1>2, <1>4, <2>3, <2>4, <2>5, <2>6
<1> QED BY <1>8, <1>9

-----------------------------------------------------------------------------
(* The share target: every behaviour.                                       *)

(* The server's copy of share_target_from_chain refuses zero and what       *)
(* exceeds MAX_TARGET, and nothing else.                                    *)
LEMMA RefusedValue ==
    ASSUME NEW t \in Numbers
    PROVE  /\ Refused(t) => Value(t) = 0 \/ Value(t) > Value(MaxTarget)
           /\ ~Refused(t) => Value(t) <= Value(MaxTarget)
<1>0. /\ NDigits \in Nat \ {0} /\ Base \in Nat \ {0} /\ Top \in Nat \ {0}
      /\ 1 \in 1 .. NDigits /\ 0 \in 0 .. NDigits /\ NDigits \in 0 .. NDigits
    <2>1. NDigits \in Nat \ {0} /\ 0 \in 0 .. NDigits /\ NDigits \in 0 .. NDigits
        BY TargetConstants
    <2> QED BY <2>1, TargetConstants
<1>1. PICK f \in [0 .. NDigits -> Nat] :
            f[0] = 0 /\ PrefixValues(f, t) /\ Value(t) = f[NDigits]
    BY ValueSteps
<1>2. f[1] = t[1] /\ t[1] \in Nat
    <2>1. f[1] = f[1 - 1] * Base + t[1]
        BY <1>0, <1>1 DEF PrefixValues
    <2>2. f[1 - 1] = 0 /\ 0 * Base = 0
        BY <1>0, <1>1
    <2>3. t[1] \in Nat
        BY <1>0, TargetConstants DEF Numbers
    <2> QED BY <2>1, <2>2, <2>3
<1>3. CASE t[1] >= Top
    BY <1>1, <1>2, <1>3, MaxTargetIsLimit DEF Refused
<1>4. CASE ~(t[1] >= Top)
    <2>1. f[1] < Top
        BY <1>0, <1>2, <1>4
    <2>2. Value(t) <= Value(MaxTarget)
        BY <1>1, <2>1, MaxTargetIsLimit
    <2>3. ASSUME t = Zero PROVE Value(t) = 0
        <3> DEFINE g == [i \in 0 .. NDigits |-> 0]
        <3>1. g \in [0 .. NDigits -> Nat] /\ g[0] = 0 /\ g[NDigits] = 0
            BY <1>0
        <3>2. PrefixValues(g, t)
            <4>1. ASSUME NEW i \in 1 .. NDigits PROVE g[i] = g[i - 1] * Base + t[i]
                <5>1. g[i] = 0 /\ g[i - 1] = 0 /\ t[i] = 0
                    BY <1>0, <2>3 DEF Zero
                <5>2. 0 * Base + 0 = 0
                    BY <1>0
                <5> QED BY <5>1, <5>2
            <4> QED BY <4>1 DEF PrefixValues
        <3> HIDE DEF g
        <3>3. f[0] = g[0] /\ PrefixValues(f, t)
            BY <1>1, <3>1
        <3>4. f[NDigits] = g[NDigits]
            BY <1>0, <3>1, <3>2, <3>3, PrefixesAgree
        <3> QED BY <1>1, <3>1, <3>4
    <2> QED BY <1>4, <2>2, <2>3 DEF Refused
<1> QED BY <1>3, <1>4

(* What process_submission makes of a hash under the active template.       *)
Judged(h, t) ==
    IF Refused(t) THEN "refused target" ELSE Classify(h, ShareOf(t), t)

(* The JOB of the active template has its share target, and a verdict is    *)
(* the one on the last proof under that template.                           *)
TargetInv ==
    /\ chain \in Numbers /\ proof \in Numbers
    /\ jobSent => jobShare = ShareOf(chain)
    /\ verdict # "none" => jobSent /\ verdict = Judged(proof, chain)

(* The invariant holds for any base, length and factor.                     *)
THEOREM TargetInvariant == TargetSpec => []TargetInv
<1>0. Zero \in Numbers
    <2>1. 0 \in Digits
        BY TargetConstants DEF Digits
    <2> QED BY <2>1 DEF Zero, Numbers
<1>1. TargetInit => TargetInv
    BY <1>0 DEF TargetInit, TargetInv
<1>2. TargetInv /\ [TargetNext]_targetVars => TargetInv'
    <2> SUFFICES ASSUME TargetInv, [TargetNext]_targetVars PROVE TargetInv'
        OBVIOUS
    <2>1. CASE SendJob
        BY <2>1 DEF SendJob, TargetInv
    <2>2. ASSUME NEW n \in Numbers, Refresh(n) PROVE TargetInv'
        BY <1>0, <2>2 DEF Refresh, TargetInv
    <2>3. ASSUME NEW n \in Numbers, Judge(n) PROVE TargetInv'
        BY <2>3 DEF Judge, TargetInv, Judged
    <2>4. CASE UNCHANGED targetVars
        BY <2>4 DEF targetVars, TargetInv
    <2> QED BY <2>1, <2>2, <2>3, <2>4 DEF TargetNext
<1> QED BY <1>1, <1>2, PTL DEF TargetSpec

(* stn_miner_job_build: the share target of a JOB is the chain's rule, for  *)
(* targets of any length.                                                   *)
THEOREM ShareTargetIsExact == TargetSpec => []ShareTargetExact
<1>1. TargetInv => ShareTargetExact
    BY ShareValue DEF TargetInv, ShareTargetExact
<1> QED BY <1>1, TargetInvariant, PTL

(* The chain's target is never above the share target derived from it.      *)
LEMMA BlockIsShare ==
    ASSUME NEW t \in Numbers, ~Refused(t)
    PROVE  Value(t) <= Value(ShareOf(t))
<1>1. Value(t) \in Nat
    <2>1. PICK f \in [0 .. NDigits -> Nat] : Value(t) = f[NDigits]
        BY ValueSteps
    <2>2. NDigits \in 0 .. NDigits
        BY TargetConstants
    <2> QED BY <2>1, <2>2
<1>2. Value(t) <= Value(MaxTarget)
    BY RefusedValue
<1>3. Value(t) <= Factor * Value(t)
    <2>1. 1 * Value(t) <= Factor * Value(t)
        BY <1>1, TargetConstants, ProductGrows
    <2> QED BY <1>1, <2>1
<1> QED BY <1>2, <1>3, ShareValue

(* process_submission: a proof is judged by the JOB its miner has, for      *)
(* targets of any length.                                                   *)
THEOREM VerdictsMatchJobs == TargetSpec => []VerdictMatchesJob
<1>1. TargetInv => VerdictMatchesJob
    <2> SUFFICES ASSUME TargetInv PROVE VerdictMatchesJob
        OBVIOUS
    <2>1. CASE verdict = "none"
        BY <2>1 DEF VerdictMatchesJob
    <2>2. CASE verdict # "none"
        <3>1. /\ verdict = Judged(proof, chain) /\ jobShare = ShareOf(chain)
              /\ chain \in Numbers /\ proof \in Numbers
            BY <2>2 DEF TargetInv
        <3>2. CASE Refused(chain)
            BY <3>1, <3>2, RefusedValue DEF Judged, VerdictMatchesJob
        <3>3. CASE ~Refused(chain)
            <4>1. verdict = Classify(proof, jobShare, chain)
                BY <3>1, <3>3 DEF Judged
            <4>2. jobShare \in Numbers
                BY <3>1, ShareValue
            <4>3. Le(proof, jobShare) <=> Value(proof) <= Value(jobShare)
                BY <3>1, <4>2, LeIsLessOrEqual
            <4>4. Le(proof, chain) <=> Value(proof) <= Value(chain)
                BY <3>1, LeIsLessOrEqual
            <4>5. Value(chain) <= Value(jobShare)
                BY <3>1, <3>3, BlockIsShare
            <4>6. Value(proof) \in Nat /\ Value(chain) \in Nat /\ Value(jobShare) \in Nat
                <5>1. ASSUME NEW n \in Numbers PROVE Value(n) \in Nat
                    <6>1. PICK f \in [0 .. NDigits -> Nat] : Value(n) = f[NDigits]
                        BY ValueSteps
                    <6>2. NDigits \in 0 .. NDigits
                        BY TargetConstants
                    <6> QED BY <6>1, <6>2
                <5> QED BY <3>1, <4>2, <5>1
            <4>7. verdict \in {"INVALID", "BLOCK", "QUALIFYING"}
                BY <4>1 DEF Classify
            <4>8. verdict = "INVALID" <=> Value(proof) > Value(jobShare)
                BY <4>1, <4>3, <4>6 DEF Classify
            <4>9. verdict = "BLOCK" <=> Value(proof) <= Value(chain)
                BY <4>1, <4>3, <4>4, <4>5, <4>6 DEF Classify
            <4> QED BY <4>7, <4>8, <4>9 DEF VerdictMatchesJob
        <3> QED BY <3>2, <3>3
    <2> QED BY <2>1, <2>2
<1> QED BY <1>1, TargetInvariant, PTL

=============================================================================
