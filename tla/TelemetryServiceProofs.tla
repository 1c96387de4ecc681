------------------------ MODULE TelemetryServiceProofs ------------------------
(***************************************************************************)
(* Proofs about TelemetryService for any number of fields, visitors and    *)
(* publications within the range of the sequence counter, and about one    *)
(* visitor byte by byte, for any sizes, timeout and bounds.                *)
(***************************************************************************)
EXTENDS TelemetryService, TelemetryVisitor, TLAPS

(* The counter is twice the number of publications, plus one while one is   *)
(* being written; it does not wrap.                                         *)
Counting ==
    /\ mpc \in {"enter", "write"} => published < MaxPublish
    /\ seq = 2 * published + (IF mpc = "write" THEN 1 ELSE 0)

TypeInv == TypeOK /\ Counting

(* The worker's walk, and close behind it.                                  *)
OwnerInv ==
    /\ mpc = "closed" => wpc = "exit"
    /\ unserved # {} => wpc = "walk"

(* With field accesses kept in program order: a field holds the last        *)
(* complete publication unless the running one has written it, the worker's *)
(* copy of a field is the publication numbered by before as long as the     *)
(* counter still stands there, and an accepted copy is whole.               *)
Written ==
    /\ mpc = "enter" => unwritten = Fields
    /\ \A f \in Fields : snapshot[f] =
           IF mpc = "write" /\ f \notin unwritten THEN published + 1 ELSE published

Copied ==
    /\ wpc \in {"copy", "serve", "walk"} => Even(before) /\ before <= seq
    /\ wpc = "copy" /\ seq = before =>
           \A f \in Fields : f \notin uncopied => copy[f] = before \div 2
    /\ wpc \in {"serve", "walk"} => \A f \in Fields : copy[f] = before \div 2

ReadInv == Written /\ Copied /\ AnswersWhole

-----------------------------------------------------------------------------
(* Types.                                                                   *)

(* Both threads start in their types.                                       *)
LEMMA TypeInit == Init => TypeInv
BY TelemetryAssumption DEF Init, TypeInv, TypeOK, Counting, Versions

(* Every step of either thread keeps the types and the count.               *)
LEMMA TypeStep == TypeInv /\ [Next]_vars => TypeInv'
<1> SUFFICES ASSUME TypeInv, [Next]_vars PROVE TypeInv'
    OBVIOUS
<1> USE DEF mainVars, readVars, httpVars, TypeInv, Counting
<1>0. /\ MaxPublish \in Nat /\ SeqModulus \in Nat /\ 2 * MaxPublish + 1 < SeqModulus
      /\ published \in Nat /\ published <= MaxPublish
    BY TelemetryAssumption DEF TypeOK, Versions
<1>1. CASE Publish
    BY <1>0, <1>1 DEF Publish, TypeOK
<1>2. CASE PublishEnter
    <2>1. seq' = 2 * published + 1 /\ seq' \in 0 .. SeqModulus - 1
        BY <1>0, <1>2 DEF PublishEnter
    <2>2. QED
        BY <1>0, <1>2, <2>1 DEF PublishEnter, TypeOK
<1>3. CASE PublishLeave
    <2>1. published' = published + 1 /\ published' \in Versions
        BY <1>0, <1>3 DEF PublishLeave, Versions
    <2>2. seq' = 2 * published' /\ seq' \in 0 .. SeqModulus - 1
        BY <1>0, <1>3, <2>1 DEF PublishLeave
    <2>3. TypeOK'
        BY <1>3, <2>1, <2>2 DEF PublishLeave, TypeOK
    <2>4. Counting'
        <3>1. mpc' = "loop" /\ published' \in Nat
            BY <1>0, <1>3, <2>1 DEF PublishLeave
        <3>2. QED
            BY <2>2, <3>1
    <2>5. QED
        BY <2>3, <2>4
<1>4. ASSUME NEW f \in Fields, PublishField(f) PROVE TypeInv'
    <2>1. published + 1 \in Versions
        BY <1>0, <1>4 DEF PublishField, WritePoints, Versions
    <2>2. QED
        BY <1>4, <2>1 DEF PublishField, TypeOK
<1>5. CASE CloseStop
    BY <1>5 DEF CloseStop, TypeOK
<1>6. CASE CloseFree
    BY <1>6 DEF CloseFree, Joined, TypeOK
<1>7. CASE WorkerCheck
    BY <1>7 DEF WorkerCheck, TypeOK
<1>8. CASE ReadBegin \/ ReadOdd
    BY <1>8 DEF ReadBegin, ReadOdd, TypeOK
<1>9. CASE ReadEnd
    BY <1>9 DEF ReadEnd, TypeOK
<1>10. ASSUME NEW f \in Fields, ReadField(f) PROVE TypeInv'
    BY <1>10 DEF ReadField, TypeOK
<1>11. CASE AcceptVisitors
    BY <1>11 DEF AcceptVisitors, TypeOK
<1>12. CASE WorkerSleep
    BY <1>12 DEF WorkerSleep, TypeOK
<1>13. ASSUME NEW v \in Visitors, VisitorTick(v) PROVE TypeInv'
    BY <1>13 DEF VisitorTick, TypeOK
<1>14. ASSUME NEW v \in Visitors, VisitorConnect(v) PROVE TypeInv'
    BY <1>14 DEF VisitorConnect, TypeOK
<1>15. CASE UNCHANGED vars
    BY <1>15 DEF vars, TypeOK
<1>16. QED
    BY <1>1, <1>2, <1>3, <1>4, <1>5, <1>6, <1>7, <1>8, <1>9, <1>10, <1>11, <1>12,
       <1>13, <1>14, <1>15 DEF Next, MainStep, WorkerStep, Terminated

(* The variables of both threads stay in their types; the sequence counter  *)
(* does not wrap within MaxPublish publications.                            *)
THEOREM TelemetryTypes == Spec => []TypeOK
<1>1. TypeInv => TypeOK
    BY DEF TypeInv
<1>2. QED
    BY <1>1, TypeInit, TypeStep, PTL DEF Spec

-----------------------------------------------------------------------------
(* Ownership of the visitors' sockets.                                      *)

(* Only the worker opens a walk, and it is gone before close frees.         *)
LEMMA OwnerStep == OwnerInv /\ [Next]_vars => OwnerInv'
<1> SUFFICES ASSUME OwnerInv, [Next]_vars PROVE OwnerInv'
    OBVIOUS
<1> USE DEF mainVars, readVars, httpVars, OwnerInv
<1>1. CASE MainStep
    BY <1>1 DEF MainStep, Publish, PublishEnter, PublishLeave, PublishField, CloseStop,
                CloseFree, Joined
<1>2. CASE WorkerStep
    BY <1>2 DEF WorkerStep, WorkerCheck, ReadBegin, ReadOdd, ReadEnd, ReadField,
                AcceptVisitors, WorkerSleep, VisitorTick
<1>3. CASE \E v \in Visitors : VisitorConnect(v)
    BY <1>3 DEF VisitorConnect
<1>4. CASE UNCHANGED vars
    BY <1>4 DEF vars
<1>5. QED
    BY <1>1, <1>2, <1>3, <1>4 DEF Next, Terminated

(* Visitors' sockets are freed only after the worker has left its loop, and *)
(* the worker never walks a freed list.                                     *)
THEOREM WorkerOwns == Spec => []WorkerOwnsSockets
<1>1. Init => OwnerInv
    BY DEF Init, OwnerInv
<1>2. OwnerInv => WorkerOwnsSockets
    BY DEF OwnerInv, WorkerOwnsSockets
<1>3. QED
    BY <1>1, <1>2, OwnerStep, PTL DEF Spec

-----------------------------------------------------------------------------
(* The sequence lock.                                                       *)

(* The snapshot starts zeroed, before the first publication.                *)
LEMMA ReadInit == Init => ReadInv
BY DEF Init, ReadInv, Written, Copied, AnswersWhole

(* Every publisher step keeps the snapshot in its order, and a publication  *)
(* that starts or ends moves the counter away from a copy under way.        *)
LEMMA WrittenStep ==
    ASSUME Ordered, TypeInv, Written, [Next]_vars
    PROVE  Written'
<1> USE DEF mainVars, readVars, httpVars
<1>0. published \in Nat /\ snapshot \in [Fields -> Versions] /\ unwritten \subseteq Fields
    BY TelemetryAssumption DEF TypeInv, TypeOK, Versions
<1>1. CASE Publish \/ PublishEnter \/ PublishLeave
    BY <1>0, <1>1 DEF Publish, PublishEnter, PublishLeave, Written
<1>2. ASSUME NEW f \in Fields, PublishField(f) PROVE Written'
    <2>1. mpc = "write"
        BY <1>2 DEF PublishField, WritePoints
    <2>2. QED
        BY <1>0, <1>2, <2>1 DEF PublishField, Written
<1>3. CASE CloseStop \/ CloseFree
    BY <1>3 DEF CloseStop, CloseFree, Joined, Written
<1>4. CASE WorkerStep
    BY <1>4 DEF WorkerStep, WorkerCheck, ReadBegin, ReadOdd, ReadEnd, ReadField,
                AcceptVisitors, WorkerSleep, VisitorTick, Written
<1>5. CASE \E v \in Visitors : VisitorConnect(v)
    BY <1>5 DEF VisitorConnect, Written
<1>6. CASE UNCHANGED vars
    BY <1>6 DEF vars, Written
<1>7. QED
    BY <1>1, <1>2, <1>3, <1>4, <1>5, <1>6 DEF Next, MainStep, Terminated

(* While the counter stands at an even number nothing is being written, and *)
(* every field holds the publication that number stands for.                *)
LEMMA Stable ==
    ASSUME TypeInv, Written, Even(seq), NEW f \in Fields
    PROVE  snapshot[f] = seq \div 2
<1>1. published \in Nat /\ seq = 2 * published + (IF mpc = "write" THEN 1 ELSE 0)
    BY TelemetryAssumption DEF TypeInv, TypeOK, Counting, Versions
<1>2. mpc # "write"
    BY <1>1 DEF Even
<1>3. snapshot[f] = published /\ seq = 2 * published
    BY <1>1, <1>2 DEF Written
<1>4. QED
    BY <1>1, <1>3

(* The counter never moves back.                                            *)
LEMMA Monotone ==
    ASSUME TypeInv, [Next]_vars
    PROVE  seq' \in Nat /\ seq \in Nat /\ (seq' = seq \/ seq' = seq + 1)
<1> USE DEF mainVars, readVars, httpVars
<1>0. /\ seq \in Nat /\ published \in Nat /\ SeqModulus \in Nat
      /\ 2 * MaxPublish + 1 < SeqModulus /\ MaxPublish \in Nat
    BY TelemetryAssumption DEF TypeInv, TypeOK, Versions
<1>1. CASE PublishEnter \/ PublishLeave
    <2>1. seq + 1 < SeqModulus /\ seq' = (seq + 1) % SeqModulus
        BY <1>0, <1>1 DEF PublishEnter, PublishLeave, TypeInv, Counting
    <2>2. QED
        BY <1>0, <2>1
<1>2. CASE ~(PublishEnter \/ PublishLeave)
    BY <1>0, <1>2 DEF Next, MainStep, WorkerStep, Terminated, vars, Publish, PublishField,
        CloseStop, CloseFree, WorkerCheck, ReadBegin, ReadOdd, ReadEnd, ReadField,
        AcceptVisitors, WorkerSleep, VisitorTick, VisitorConnect
<1>3. QED
    BY <1>1, <1>2

(* A copy under way stays right for as long as the counter has not moved.   *)
LEMMA CopiedStep ==
    ASSUME TypeInv, Written, Copied, [Next]_vars
    PROVE  Copied'
<1> USE DEF mainVars, readVars, httpVars
<1>0. /\ seq \in Nat /\ seq' \in Nat /\ (seq' = seq \/ seq' = seq + 1) /\ before \in Nat
      /\ copy \in [Fields -> Versions]
    BY Monotone, TelemetryAssumption DEF TypeInv, TypeOK
<1>1. CASE UNCHANGED <<wpc, before, copy, uncopied>>
    <2>1. before <= seq => before <= seq' /\ (seq' = before => seq = before)
        BY <1>0
    <2>2. QED
        BY <1>1, <2>1 DEF Copied
<1>2. CASE WorkerCheck
    BY <1>2 DEF WorkerCheck, Copied
<1>3. CASE ReadBegin
    BY <1>0, <1>3 DEF ReadBegin, Copied
<1>4. CASE ReadOdd
    BY <1>4 DEF ReadOdd, Copied
<1>5. ASSUME NEW f \in Fields, ReadField(f) PROVE Copied'
    <2>1. /\ wpc = "copy" /\ copy' = [copy EXCEPT ![f] = snapshot[f]]
          /\ uncopied' = uncopied \ {f} /\ UNCHANGED <<wpc, before, seq>>
        BY <1>5 DEF ReadField
    <2>2. seq = before => copy'[f] = before \div 2
        BY <1>0, <2>1, Stable DEF Copied
    <2>3. \A g \in Fields : g # f => copy'[g] = copy[g]
        BY <1>0, <2>1
    <2>4. QED
        BY <2>1, <2>2, <2>3 DEF Copied
<1>6. CASE ReadEnd
    <2>1. /\ wpc = "copy" /\ uncopied = {} /\ UNCHANGED <<seq, before, copy, uncopied>>
          /\ wpc' = IF ReadAccepted THEN "serve" ELSE "load"
        BY <1>6 DEF ReadEnd
    <2>2. CASE ReadAccepted
        BY <2>1, <2>2 DEF ReadAccepted, Copied
    <2>3. CASE ~ReadAccepted
        BY <2>1, <2>3 DEF Copied
    <2>4. QED
        BY <2>2, <2>3
<1>7. CASE AcceptVisitors \/ WorkerSleep
    BY <1>7 DEF AcceptVisitors, WorkerSleep, Copied
<1>8. QED
    BY <1>1, <1>2, <1>3, <1>4, <1>5, <1>6, <1>7
    DEF Next, MainStep, WorkerStep, Terminated, vars, Publish, PublishEnter, PublishLeave,
        PublishField, CloseStop, CloseFree, VisitorTick, VisitorConnect

(* An answer is made of an accepted copy.                                   *)
LEMMA AnswersStep ==
    ASSUME TypeInv, Copied, AnswersWhole, [Next]_vars
    PROVE  AnswersWhole'
<1> USE DEF mainVars, readVars, httpVars
<1>1. CASE UNCHANGED answer
    BY <1>1 DEF AnswersWhole
<1>2. ASSUME NEW v \in Visitors, VisitorTick(v), answer' = [answer EXCEPT ![v] = copy]
      PROVE  AnswersWhole'
    <2>1. \A f, g \in Fields : copy[f] = copy[g]
        BY <1>2 DEF VisitorTick, Copied
    <2>2. \A w \in Visitors : answer'[w] = IF w = v THEN copy ELSE answer[w]
        BY <1>2 DEF TypeInv, TypeOK
    <2>3. QED
        BY <2>1, <2>2 DEF AnswersWhole
<1>3. QED
    BY <1>1, <1>2
    DEF Next, MainStep, WorkerStep, Terminated, vars, Publish, PublishEnter, PublishLeave,
        PublishField, CloseStop, CloseFree, WorkerCheck, ReadBegin, ReadOdd, ReadEnd,
        ReadField, AcceptVisitors, WorkerSleep, VisitorTick, VisitorConnect

(* The sequence lock is inductive when field accesses keep their place.     *)
LEMMA ReadStep ==
    ASSUME Ordered
    PROVE  TypeInv /\ ReadInv /\ [Next]_vars => ReadInv'
BY WrittenStep, CopiedStep, AnswersStep DEF ReadInv

(* If the accesses to the fields take effect between the two accesses to    *)
(* the counter, every visitor is answered one publication as a whole. The   *)
(* premise is the program order of snapshot_publish and snapshot_read,      *)
(* which their release and acquire operations alone do not guarantee.       *)
THEOREM VisitorsSeeWholeSnapshots ==
    ASSUME Ordered
    PROVE  Spec => []AnswersWhole
<1>1. ReadInv => AnswersWhole
    BY DEF ReadInv
<1>2. QED
    BY <1>1, ReadInit, ReadStep, TypeInit, TypeStep, PTL DEF Spec

(* Under the same premise an accepted copy is a complete publication, no    *)
(* older than the one that was current when the copy began.                 *)
THEOREM CopiesAreCurrent ==
    ASSUME Ordered
    PROVE  Spec => []CopyCurrent
<1>1. TypeInv /\ ReadInv => CopyCurrent
    <2> SUFFICES ASSUME TypeInv, ReadInv, wpc \in {"serve", "walk"}, NEW f \in Fields
                 PROVE  copy[f] = before \div 2 /\ copy[f] <= published
        BY DEF CopyCurrent
    <2>1. copy[f] = before \div 2 /\ Even(before) /\ before <= seq
        BY DEF ReadInv, Copied
    <2>2. /\ published \in Nat /\ before \in Nat
          /\ seq = 2 * published + (IF mpc = "write" THEN 1 ELSE 0)
        BY TelemetryAssumption DEF TypeInv, TypeOK, Counting, Versions
    <2>3. before <= 2 * published + 1
        BY <2>1, <2>2
    <2>4. before \div 2 <= published
        BY <2>2, <2>3
    <2>5. QED
        BY <2>1, <2>4
<1>2. QED
    BY <1>1, ReadInit, ReadStep, TypeInit, TypeStep, PTL DEF Spec

-----------------------------------------------------------------------------
(* One visitor.                                                             *)

(* There is no answer before the request is complete, none while the worker *)
(* still receives, and what was sent came from the answer there is: it is   *)
(* made once.                                                               *)
AnswerInv ==
    /\ pc = "receive" => responseLength = 0
    /\ responseLength = 0 => requestLength < marker /\ received = {}
    /\ received \subseteq {madeFrom}

VisitInv == VisitTypeOK /\ AnswerInv /\ NotCutShort

(* The client is zeroed when it is accepted.                                *)
LEMMA VisitStarts == VisitInit => VisitInv
BY VisitorAssumption
   DEF VisitInit, VisitInv, VisitTypeOK, AnswerInv, NotCutShort, Gone

(* The worker's steps. The one that receives the end of the request is the  *)
(* only one that makes an answer; only a request too long for the buffer, a *)
(* closed connection, a complete answer or the clock end the visit.         *)
LEMMA WorkerKeeps == ASSUME VisitInv, VisitStep PROVE VisitInv'
<1> USE DEF VisitInv, visitorVars, clockVars, workerVars
<1>0. /\ RequestSize \in Nat \ {0} /\ ResponseLength \in Nat \ {0}
      /\ Markers \subseteq Nat \ {0} /\ MaxSnapshots \in Nat /\ MaxBytes \in Nat
      /\ MaxClock \in Nat /\ MaxSets \in Nat
    BY VisitorAssumption
<1>1. CASE TickBegin
    BY <1>0, <1>1 DEF TickBegin, VisitTypeOK, AnswerInv, NotCutShort, Gone
<1>2. CASE TickEnd
    BY <1>0, <1>2 DEF TickEnd, Expired, VisitTypeOK, AnswerInv, NotCutShort, Gone
<1>3. ASSUME NEW n \in 1 .. RequestSize, Receive(n) PROVE VisitInv'
    <2>1. /\ requestLength \in Nat /\ requestLength' = requestLength + n
          /\ requestLength + n <= RequestSize - 1 /\ marker \in Nat \ {0}
          /\ responseLength = 0 /\ received = {} /\ responseSent = 0
        BY <1>0, <1>3 DEF Receive, Remaining, VisitTypeOK, AnswerInv
    <2>2. VisitTypeOK'
        BY <1>0, <1>3, <2>1 DEF Receive, Remaining, VisitTypeOK
    <2>3. AnswerInv' /\ NotCutShort'
        BY <1>0, <1>3, <2>1 DEF Receive, AnswerInv, NotCutShort, Gone
    <2>4. QED
        BY <2>2, <2>3
<1>4. CASE RequestTooLong
    <2>1. requestLength < marker /\ requestLength = RequestSize - 1
        BY <1>0, <1>4 DEF RequestTooLong, Remaining, AnswerInv, VisitTypeOK
    <2>2. QED
        BY <1>0, <1>4, <2>1
           DEF RequestTooLong, Leave, VisitTypeOK, AnswerInv, NotCutShort, Gone
<1>5. CASE PeerClosed \/ SendFails
    BY <1>0, <1>5
       DEF PeerClosed, SendFails, Leave, VisitTypeOK, AnswerInv, NotCutShort, Gone
<1>6. CASE ReceiveBlocks \/ SendBlocks
    BY <1>0, <1>6
       DEF ReceiveBlocks, SendBlocks, VisitTypeOK, AnswerInv, NotCutShort, Gone
<1>7. ASSUME NEW n \in 1 .. ResponseLength, Send(n) PROVE VisitInv'
    <2>1. /\ responseLength = ResponseLength /\ responseSent' = responseSent + n
          /\ responseSent + n \in 0 .. ResponseLength /\ responseLength' = responseLength
          /\ window' \in 0 .. ResponseLength
        BY <1>0, <1>7 DEF Send, VisitTypeOK
    <2>2. received' \subseteq {madeFrom} /\ madeFrom' = madeFrom
        BY <1>7 DEF Send, AnswerKept, AnswerInv
    <2>3. VisitTypeOK'
        BY <1>0, <1>7, <2>1 DEF Send, AnswerKept, VisitTypeOK
    <2>4. AnswerInv' /\ NotCutShort'
        BY <1>0, <1>7, <2>1, <2>2 DEF Send, AnswerInv, NotCutShort, Gone
    <2>5. QED
        BY <2>3, <2>4
<1>8. QED
    BY <1>1, <1>2, <1>3, <1>4, <1>5, <1>6, <1>7 DEF VisitStep

(* The visitor, the clock and the main thread leave the answer alone.       *)
LEMMA VisitorKeeps ==
    ASSUME VisitInv, VisitEnvironment \/ VisitTerminated PROVE VisitInv'
<1> USE DEF VisitInv, visitorVars, clockVars, workerVars
<1>0. /\ ResponseLength \in Nat \ {0} /\ MaxSnapshots \in Nat /\ MaxBytes \in Nat
      /\ MaxClock \in Nat /\ MaxSets \in Nat
    BY VisitorAssumption
<1>1. CASE VisitorWrites \/ VisitorReads \/ VisitorCloses
    <2>1. /\ ~Gone /\ pc' = pc
          /\ UNCHANGED <<clock, sets, now, connectedAt, requestLength, responseLength,
                         responseSent, madeFrom, marker, version, received>>
        BY <1>1 DEF VisitorWrites, VisitorReads, VisitorCloses
    <2>2. wire' \in 0 .. written' /\ written' \in 0 .. MaxBytes
        BY <1>0, <1>1 DEF VisitorWrites, VisitorReads, VisitorCloses, VisitTypeOK
    <2>3. window' \in 0 .. ResponseLength
        BY <1>0, <1>1 DEF VisitorWrites, VisitorReads, VisitorCloses, VisitTypeOK
    <2>4. QED
        BY <2>1, <2>2, <2>3 DEF VisitTypeOK, AnswerInv, NotCutShort, Gone
<1>2. CASE ClockTicks \/ NewSnapshot \/ \E t \in 0 .. MaxClock : ClockSet(t)
    <2>1. UNCHANGED <<pc, workerVars, visitorVars, received>>
        BY <1>2 DEF ClockTicks, ClockSet, NewSnapshot
    <2>2. version' \in 0 .. MaxSnapshots
        BY <1>0, <1>2 DEF ClockTicks, ClockSet, NewSnapshot, VisitTypeOK
    <2>3. clock' \in 0 .. MaxClock /\ sets' \in 0 .. MaxSets
        BY <1>0, <1>2 DEF ClockTicks, ClockSet, NewSnapshot, VisitTypeOK
    <2>4. QED
        BY <2>1, <2>2, <2>3 DEF VisitTypeOK, AnswerInv, NotCutShort, Gone
<1>3. CASE VisitTerminated
    BY <1>3 DEF VisitTerminated, visitVars, VisitTypeOK, AnswerInv, NotCutShort, Gone
<1>4. QED
    BY <1>1, <1>2, <1>3 DEF VisitEnvironment

(* However the bytes of a visitor arrive and leave, and whatever the clock  *)
(* does, the invariant holds.                                               *)
THEOREM VisitInvariant == VisitSpec => []VisitInv
<1>1. VisitInv /\ [VisitNext]_visitVars => VisitInv'
    <2>1. ASSUME VisitInv, UNCHANGED visitVars PROVE VisitInv'
        BY <2>1 DEF VisitInv, visitVars, VisitTypeOK, AnswerInv, NotCutShort, Gone
    <2>2. QED
        BY <2>1, WorkerKeeps, VisitorKeeps DEF VisitNext
<1>2. QED
    BY <1>1, VisitStarts, PTL DEF VisitSpec

(* The request never fills the byte kept for its terminating zero and the   *)
(* answer is never overrun, for any fragmentation of either.                *)
THEOREM VisitTypes == VisitSpec => []VisitTypeOK
<1>1. VisitInv => VisitTypeOK
    BY DEF VisitInv
<1>2. QED
    BY <1>1, VisitInvariant, PTL

(* All bytes a visitor gets are of the one answer prepare_response made.    *)
THEOREM VisitorGetsOneAnswer == VisitSpec => []OneAnswer
<1>1. VisitInv => OneAnswer
    BY DEF VisitInv, AnswerInv, OneAnswer
<1>2. QED
    BY <1>1, VisitInvariant, PTL

(* A visitor with a proper request that keeps its side open gets its whole  *)
(* answer or the full timeout, whatever times the wall clock is set to:     *)
(* earlier than the accept, later, or zero.                                 *)
THEOREM VisitorNotCutShort == VisitSpec => []NotCutShort
<1>1. VisitInv => NotCutShort
    BY DEF VisitInv
<1>2. QED
    BY <1>1, VisitInvariant, PTL

=============================================================================
