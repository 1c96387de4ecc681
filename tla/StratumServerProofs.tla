------------------------- MODULE StratumServerProofs -------------------------
(***************************************************************************)
(* Proofs about StratumServer for every set of connections, addresses and  *)
(* jobs, every chain server list, every repertoire of frames and replies   *)
(* and every bound: the types, and the client list.                        *)
(***************************************************************************)
EXTENDS StratumServer, FiniteSetTheorems, TLAPS

(* While the loop is blocked in a submission it serves one session, the     *)
(* SUBMIT is still in the buffer, and the call is a share or a block;       *)
(* without this neither the chain's nor the returning step could be typed.  *)
CallShape ==
    call # NoCall => /\ pc = "service"
                     /\ cur \in Conns /\ inbox[cur] # <<>>
                     /\ call.kind \in {"SHARE", "WORK"}

TypeInv == TypeOK /\ CallShape

-----------------------------------------------------------------------------
(* What the helpers on sessions and sockets return.                         *)

(* stn_client_session_clear_job yields a session.                           *)
LEMMA ClearedType ==
    ASSUME NEW s \in Sessions
    PROVE  /\ ClearedSession(s) \in Sessions
           /\ ClearedSession(s).addr = s.addr
           /\ ClearedSession(s).hasJob = FALSE
           /\ ClearedSession(s).rate = 0
BY DEF Sessions, ClearedSession

(* Freeing sessions and clearing jobs keep the session table.               *)
LEMMA ClearType ==
    ASSUME NEW s \in [Conns -> Sessions], NEW d
    PROVE  /\ FreedSessions(s, d) \in [Conns -> Sessions]
           /\ ClearClientJobs(s, d) \in [Conns -> Sessions]
<1>1. \A c \in Conns : s[c] \in Sessions /\ ClearedSession(s[c]) \in Sessions
    BY ClearedType
<1>2. QED
    BY <1>1 DEF FreedSessions, ClearClientJobs

(* Sending a job keeps the session table.                                   *)
LEMMA SentType ==
    ASSUME NEW s \in [Conns -> Sessions], NEW d, NEW j \in Jobs \cup {Null}
    PROVE  JobSent(s, d, j) \in [Conns -> Sessions]
<1>1. \A c \in Conns : [s[c] EXCEPT !.hasJob = TRUE, !.sent = j] \in Sessions
    BY DEF Sessions
<1>2. QED
    BY <1>1 DEF JobSent

(* client_remove keeps the list, the sockets and the count in their types.  *)
LEMMA RemoveType ==
    ASSUME TypeOK, NEW d \in SUBSET Conns, ClientRemove(d)
    PROVE  /\ clients' \subseteq Conns
           /\ clientCount' \in Int
           /\ conn' \in [Conns -> {"idle", "backlog", "open", "closed"}]
           /\ inbox' \in [Conns -> Seq(Frames)]
<1>1. Cardinality(d) \in Nat
    BY ConstantsAssumption, FS_Subset, FS_CardinalityType
<1>2. <<>> \in Seq(Frames)
    OBVIOUS
<1>3. QED
    BY <1>1, <1>2 DEF TypeOK, ClientRemove

(* A frame about to be dispatched is a frame, and taking it off the socket  *)
(* leaves frames.                                                           *)
LEMMA ReadingType ==
    ASSUME TypeOK, NEW t, Reading(t)
    PROVE  /\ cur \in Conns
           /\ Frame \in Frames /\ Frame.type = t
           /\ Tail(inbox[cur]) \in Seq(Frames)
           /\ FrameDone => inbox' \in [Conns -> Seq(Frames)]
<1>1. cur \in Conns
    BY DEF TypeOK, Reading
<1>2. inbox[cur] \in Seq(Frames) /\ inbox[cur] # <<>>
    BY <1>1 DEF TypeOK, Reading
<1>3. Head(inbox[cur]) \in Frames /\ Tail(inbox[cur]) \in Seq(Frames)
    BY <1>2
<1>4. QED
    BY <1>1, <1>3 DEF TypeOK, Reading, Frame, FrameDone

(* The fields of the frames the handlers read.                              *)
LEMMA FrameFields ==
    ASSUME NEW f \in Frames
    PROVE  /\ f.type = "ADDRESS" => f.addr \in Addresses \cup {Null}
           /\ f.type = "SUBMIT" => f.job \in Jobs
           /\ f.type = "PROGRESS" => f.job \in Jobs /\ f.rate \in {0, 1}
BY DEF Frames

(* chain_transport_next stays within the configured list.                   *)
LEMMA NextServerType ==
    ASSUME activeServer \in Servers
    PROVE  NextServer \in Servers
BY ConstantsAssumption DEF Servers, NextServer

(* Every RPC code is answered with a RESULT code of the miner protocol.     *)
LEMMA ResultType == \A code : SubmitResultCode(code) \in ResultCodes
BY DEF SubmitResultCode, ResultCodes

-----------------------------------------------------------------------------
(* Type correctness.                                                        *)

(* The server starts in its types.                                          *)
LEMMA TypeInit == Init => TypeInv
<1>1. <<>> \in Seq(Frames) /\ <<>> \in Seq(ResultCodes)
    OBVIOUS
<1>2. NewSession \in Sessions
    BY DEF NewSession, Sessions
<1>3. NoCall \in Calls
    BY DEF NoCall, Calls
<1>4. 0 \in Servers /\ 0 \in 0 .. PollTicks - 1
    BY ConstantsAssumption DEF Servers
<1>5. QED
    <2>1. SUFFICES ASSUME Init PROVE TypeOK /\ CallShape
        BY DEF TypeInv
    <2>2. CallShape
        BY <2>1 DEF Init, CallShape
    <2>3. /\ conn \in [Conns -> {"idle", "backlog", "open", "closed"}]
          /\ inbox \in [Conns -> Seq(Frames)]
          /\ results \in [Conns -> Seq(ResultCodes)]
          /\ wireJob \in [Conns -> Jobs \cup {Null}]
          /\ sess \in [Conns -> Sessions]
          /\ consumed \in [Conns -> Nat]
        BY <1>1, <1>2, <2>1 DEF Init
    <2>4. /\ call \in Calls
          /\ activeServer \in Servers /\ chainUp \subseteq Servers
          /\ tick \in 0 .. PollTicks - 1 /\ clientCount \in Int
        BY <1>3, <1>4, <2>1 DEF Init
    <2>5. /\ peerGone \subseteq Conns /\ clients \subseteq Conns /\ todo \subseteq Conns
          /\ applied \subseteq Mutations /\ late \subseteq Mutations
        BY <2>1 DEF Init
    <2>6. /\ activeJob \in Jobs \cup {Null} /\ issuer \in Servers \cup {Null}
          /\ cur \in Conns \cup {Null}
          /\ pc \in {"accept", "service", "telemetry", "refresh", "send", "done"}
        BY <2>1 DEF Init
    <2>7. /\ haveWork \in BOOLEAN /\ spent \in BOOLEAN /\ chainAvailable \in BOOLEAN
          /\ running \in BOOLEAN
        BY <2>1 DEF Init
    <2>8. QED
        BY <2>2, <2>3, <2>4, <2>5, <2>6, <2>7 DEF TypeOK

(* Removing the session being served keeps the types.                       *)
LEMMA DropType ==
    ASSUME TypeOK, cur \in Conns, DropCurrent
    PROVE  /\ clients' \subseteq Conns
           /\ clientCount' \in Int
           /\ conn' \in [Conns -> {"idle", "backlog", "open", "closed"}]
           /\ inbox' \in [Conns -> Seq(Frames)]
           /\ sess' \in [Conns -> Sessions]
           /\ cur' = Null
<1>1. {cur} \in SUBSET Conns
    OBVIOUS
<1>2. FreedSessions(sess, {cur}) \in [Conns -> Sessions]
    BY ClearType DEF TypeOK
<1>3. QED
    BY <1>1, <1>2, RemoveType DEF DropCurrent

(* send_pending_jobs keeps the types.                                       *)
LEMMA PendingType ==
    ASSUME TypeOK, NEW j \in Jobs \cup {Null}, SendPending(j)
    PROVE  /\ clients' \subseteq Conns
           /\ clientCount' \in Int
           /\ conn' \in [Conns -> {"idle", "backlog", "open", "closed"}]
           /\ inbox' \in [Conns -> Seq(Frames)]
           /\ sess' \in [Conns -> Sessions]
           /\ wireJob' \in [Conns -> Jobs \cup {Null}]
<1>1. PICK dead \in SUBSET NeedsJob(j) :
          /\ ClientRemove(dead)
          /\ sess' = FreedSessions(JobSent(sess, NeedsJob(j) \ dead, j), dead)
          /\ wireJob' = JobOnWire(NeedsJob(j) \ dead, j)
    BY DEF SendPending
<1>2. dead \in SUBSET Conns
    BY DEF NeedsJob, TypeOK
<1>3. JobSent(sess, NeedsJob(j) \ dead, j) \in [Conns -> Sessions]
    BY SentType DEF TypeOK
<1>4. sess' \in [Conns -> Sessions]
    BY <1>1, <1>3, ClearType
<1>5. wireJob' \in [Conns -> Jobs \cup {Null}]
    BY <1>1 DEF JobOnWire, TypeOK
<1>6. QED
    BY <1>1, <1>2, <1>4, <1>5, RemoveType

(* client_send_result keeps the types.                                      *)
LEMMA ResultSentType ==
    ASSUME TypeOK, cur \in Conns, inbox[cur] # <<>>, NEW code, SendResult(code)
    PROVE  /\ results' \in [Conns -> Seq(ResultCodes)]
           /\ inbox' \in [Conns -> Seq(Frames)]
<1>1. results[cur] \in Seq(ResultCodes) /\ inbox[cur] \in Seq(Frames)
    BY DEF TypeOK
<1>2. /\ Append(results[cur], SubmitResultCode(code)) \in Seq(ResultCodes)
      /\ Tail(inbox[cur]) \in Seq(Frames)
    BY <1>1, ResultType
<1>3. QED
    BY <1>2 DEF SendResult, FrameDone, TypeOK

(* Every step of the loop keeps the types.                                  *)
LEMMA TypeServerStep == TypeInv /\ ServerStep => TypeInv'
<1> SUFFICES ASSUME TypeInv, ServerStep PROVE TypeInv'
    OBVIOUS
<1> USE DEF TypeInv, CallShape, sockVars, listVars, workVars, chainVars,
            loopVars, wireVars, envVars
<1>0. sess \in [Conns -> Sessions]
    BY DEF TypeOK
<1>1. CASE AcceptClients
    <2>1. PICK new \in SUBSET Backlog : \E lost \in SUBSET (Backlog \ new) :
              /\ clients' = clients \cup new
              /\ clientCount' = clientCount + Cardinality(new)
              /\ conn' = [c \in Conns |-> CASE c \in new -> "open"
                                            [] c \in lost -> "closed"
                                            [] OTHER -> conn[c]]
              /\ sess' = [c \in Conns |-> IF c \in new THEN NewSession ELSE sess[c]]
              /\ todo' = clients \cup new
        BY <1>1 DEF AcceptClients
    <2>2. new \in SUBSET Conns
        BY DEF Backlog
    <2>3. Cardinality(new) \in Nat
        BY <2>2, ConstantsAssumption, FS_Subset, FS_CardinalityType
    <2>4. NewSession \in Sessions
        BY DEF NewSession, Sessions
    <2>5. conn' \in [Conns -> {"idle", "backlog", "open", "closed"}]
        BY <2>1 DEF TypeOK
    <2>6. QED
        BY <1>1, <2>1, <2>2, <2>3, <2>4, <2>5 DEF AcceptClients, TypeOK
<1>2. CASE \E c \in Conns : ServiceNext(c)
    <2>1. call = NoCall
        BY <1>2, ConstantsAssumption DEF ServiceNext
    <2>2. QED
        BY <1>2, <2>1 DEF ServiceNext, TypeOK
<1>3. CASE ServiceIdle
    BY <1>3 DEF ServiceIdle, TypeOK
<1>4. CASE ServiceEof
    <2>1. cur \in Conns
        BY <1>4 DEF ServiceEof, TypeOK
    <2>2. QED
        BY <1>4, <2>1, DropType DEF ServiceEof, TypeOK
<1>5. CASE InvalidHeader
    <2>1. cur \in Conns /\ call = NoCall
        BY <1>5, ReadingType DEF InvalidHeader, Reading
    <2>2. QED
        BY <1>5, <2>1, DropType DEF InvalidHeader, TypeOK
<1>6. CASE ProcessAddress
    <2>1. /\ cur \in Conns /\ call = NoCall
          /\ Frame.addr \in Addresses \cup {Null}
          /\ FrameDone => inbox' \in [Conns -> Seq(Frames)]
        BY <1>6, ReadingType, FrameFields DEF ProcessAddress, Reading
    <2> DEFINE named == [sess EXCEPT ![cur].addr = Frame.addr]
    <2>2. named \in [Conns -> Sessions]
        BY <2>1, <1>0 DEF Sessions
    <2>3. /\ JobSent(named, {cur}, activeJob) \in [Conns -> Sessions]
          /\ FreedSessions(named, {cur}) \in [Conns -> Sessions]
        BY <2>2, SentType, ClearType DEF TypeOK
    <2>4. JobOnWire({cur}, activeJob) \in [Conns -> Jobs \cup {Null}]
        BY DEF JobOnWire, TypeOK
    <2>5. CASE DropCurrent /\ UNCHANGED wireJob
        BY <1>6, <2>1, <2>5, DropType DEF ProcessAddress, TypeOK
    <2>6. CASE /\ sess' = named
               /\ FrameDone
               /\ UNCHANGED <<conn, listVars, cur, wireJob>>
        BY <1>6, <2>1, <2>2, <2>6 DEF ProcessAddress, TypeOK
    <2>7. CASE /\ sess' = JobSent(named, {cur}, activeJob)
               /\ wireJob' = JobOnWire({cur}, activeJob)
               /\ FrameDone
               /\ UNCHANGED <<conn, listVars, cur>>
        BY <1>6, <2>1, <2>3, <2>4, <2>7 DEF ProcessAddress, TypeOK
    <2>8. CASE /\ ClientRemove({cur})
               /\ sess' = FreedSessions(named, {cur})
               /\ cur' = Null
               /\ UNCHANGED wireJob
        <3>1. {cur} \in SUBSET Conns
            BY <2>1
        <3>2. QED
            BY <1>6, <2>1, <2>3, <2>8, <3>1, RemoveType DEF ProcessAddress, TypeOK
    <2>9. QED
        BY <1>6, <2>5, <2>6, <2>7, <2>8 DEF ProcessAddress
<1>7. CASE ProcessHashProgress
    <2>1. /\ cur \in Conns /\ call = NoCall
          /\ Frame.rate \in {0, 1}
          /\ FrameDone => inbox' \in [Conns -> Seq(Frames)]
        BY <1>7, ReadingType, FrameFields DEF ProcessHashProgress, Reading
    <2>2. ProgressRate \in {0, 1}
        BY <2>1 DEF ProgressRate
    <2>3. [sess EXCEPT ![cur].rate = ProgressRate] \in [Conns -> Sessions]
        BY <2>1, <2>2, <1>0 DEF Sessions
    <2>4. CASE DropCurrent
        BY <1>7, <2>1, <2>4, DropType DEF ProcessHashProgress, TypeOK
    <2>5. CASE ~DropCurrent
        BY <1>7, <2>1, <2>3, <2>5 DEF ProcessHashProgress, TypeOK
    <2>6. QED
        BY <2>4, <2>5
<1>8. CASE SubmitBeforeAddress
    <2>1. cur \in Conns /\ call = NoCall
        BY <1>8, ReadingType DEF SubmitBeforeAddress, Reading
    <2>2. QED
        BY <1>8, <2>1, DropType DEF SubmitBeforeAddress, TypeOK
<1>9. CASE AnswerLocally
    <2>1. /\ cur \in Conns /\ call = NoCall
          /\ FrameDone => inbox' \in [Conns -> Seq(Frames)]
        BY <1>9, ReadingType DEF AnswerLocally, Reading
    <2>2. consumed' \in [Conns -> Nat]
        BY <1>9, <2>1 DEF AnswerLocally, TypeOK
    <2>3. ASSUME NEW code, SendResult(code), UNCHANGED sess
          PROVE  TypeInv'
        <3>1. results' \in [Conns -> Seq(ResultCodes)]
            BY <1>9, <2>1, <2>3, ResultSentType DEF AnswerLocally, Reading
        <3>2. QED
            BY <1>9, <2>1, <2>2, <2>3, <3>1 DEF AnswerLocally, SendResult, TypeOK
    <2>4. CASE DropCurrent /\ UNCHANGED results
        BY <1>9, <2>1, <2>2, <2>4, DropType DEF AnswerLocally, TypeOK
    <2>5. QED
        BY <1>9, <2>3, <2>4 DEF AnswerLocally
<1>10. CASE ForwardSubmission
    <2>1. cur \in Conns /\ inbox[cur] # <<>> /\ pc = "service"
        BY <1>10, ReadingType DEF ForwardSubmission, Reading
    <2>2. sess[cur].addr \in Addresses \cup {Null}
        BY <2>1, <1>0 DEF Sessions
    <2>3. call' \in Calls /\ call'.kind \in {"SHARE", "WORK"}
        BY <1>10, <2>2 DEF ForwardSubmission, TypeOK, Calls
    <2>4. QED
        BY <1>10, <2>1, <2>3 DEF ForwardSubmission, TypeOK
<1>11. CASE SubmissionReturns
    <2>1. cur \in Conns /\ pc = "service" /\ inbox[cur] # <<>>
        BY <1>11 DEF SubmissionReturns
    <2>2. PICK code \in CallOutcomes, dead \in {{}, {cur}} :
              /\ IF dead = {} THEN SendResult(code)
                 ELSE ClientRemove(dead) /\ cur' = Null /\ UNCHANGED results
              /\ IF code \in ClearingCodes(call.kind)
                 THEN /\ ClearWork
                      /\ sess' = ClearClientJobs(FreedSessions(sess, dead), clients)
                 ELSE /\ UNCHANGED workVars
                      /\ sess' = FreedSessions(sess, dead)
              /\ IF code \in FailoverCodes(call.kind)
                 THEN ChainTransportNext ELSE UNCHANGED chainVars
        BY <1>11 DEF SubmissionReturns
    <2>3. sess' \in [Conns -> Sessions]
        <3>1. FreedSessions(sess, dead) \in [Conns -> Sessions]
            BY <1>0, ClearType
        <3>2. QED
            BY <2>2, <3>1, <1>0, ClearType
    <2>4. /\ haveWork' \in BOOLEAN /\ activeJob' \in Jobs \cup {Null}
          /\ issuer' \in Servers \cup {Null} /\ spent' \in BOOLEAN
        BY <2>2 DEF ClearWork, TypeOK
    <2>5. chainAvailable' \in BOOLEAN /\ activeServer' \in Servers
        BY <2>2, NextServerType DEF ChainTransportNext, TypeOK
    <2>6. /\ call' = NoCall /\ NoCall \in Calls
          /\ UNCHANGED <<peerGone, wireJob, pc, todo, tick, running, chainUp, applied, consumed>>
          /\ late' \subseteq Mutations
        <3>1. cur \in Conns /\ consumed[cur] \in Nat /\ call.kind \in {"SHARE", "WORK"}
            BY <1>11, <2>1 DEF SubmissionReturns, TypeOK
        <3>2. Mutation \in Mutations
            BY <3>1 DEF Mutation, Mutations, TypeOK, Calls
        <3>3. QED
            BY <1>11, <3>2 DEF SubmissionReturns, NoCall, Calls, TypeOK
    <2>7. CASE dead = {}
        <3>1. SendResult(code)
            BY <2>2, <2>7
        <3>2. results' \in [Conns -> Seq(ResultCodes)] /\ inbox' \in [Conns -> Seq(Frames)]
            BY <2>1, <3>1, ResultSentType
        <3>3. UNCHANGED <<conn, clients, clientCount, cur>>
            BY <3>1 DEF SendResult
        <3>4. QED
            BY <2>1, <2>3, <2>4, <2>5, <2>6, <3>2, <3>3 DEF TypeOK
    <2>8. CASE dead # {}
        <3>1. dead \in SUBSET Conns /\ ClientRemove(dead) /\ cur' = Null /\ UNCHANGED results
            BY <2>1, <2>2, <2>8
        <3>2. QED
            BY <2>1, <2>3, <2>4, <2>5, <2>6, <3>1, RemoveType DEF TypeOK
    <2>9. QED
        BY <2>7, <2>8
<1>12. CASE ServiceDone
    <2>1. call = NoCall
        BY <1>12, ConstantsAssumption DEF ServiceDone
    <2>2. QED
        BY <1>12, <2>1 DEF ServiceDone, TypeOK
<1>13. CASE TelemetryTick
    BY <1>13 DEF TelemetryTick, TypeOK
<1>14. CASE \E j \in Jobs : RefreshNewWork(j)
    <2>1. PICK j \in Jobs : RefreshNewWork(j)
        BY <1>14
    <2>2. SendPending(j) /\ pc = "refresh"
        BY <2>1 DEF RefreshNewWork, TemplateReturns
    <2>3. QED
        BY <2>1, <2>2, PendingType DEF RefreshNewWork, TypeOK
<1>15. CASE RefreshSameWork
    BY <1>15 DEF RefreshSameWork, TemplateReturns, TypeOK
<1>16. CASE RefreshUnavailable
    BY <1>16 DEF RefreshUnavailable, TemplateReturns, TypeOK
<1>17. CASE RefreshRefused
    BY <1>17, <1>0, ClearType DEF RefreshRefused, TemplateReturns, ClearWork, TypeOK
<1>18. CASE RefreshTransport
    BY <1>18, <1>0, ClearType, NextServerType
    DEF RefreshTransport, TemplateReturns, ClearWork, ChainTransportNext, TypeOK
<1>19. CASE SendPendingJobs
    <2>1. tick' \in 0 .. PollTicks - 1
        BY <1>19, ConstantsAssumption DEF SendPendingJobs, TypeOK
    <2>2. CASE haveWork
        BY <1>19, <2>1, <2>2, PendingType DEF SendPendingJobs, TypeOK
    <2>3. CASE ~haveWork
        BY <1>19, <2>1, <2>3 DEF SendPendingJobs, TypeOK
    <2>4. QED
        BY <2>2, <2>3
<1>20. CASE CloseServer
    <2>1. Cardinality(clients) \in Nat
        BY ConstantsAssumption, FS_Subset, FS_CardinalityType DEF TypeOK
    <2>2. <<>> \in Seq(Frames)
        OBVIOUS
    <2>3. QED
        <3>0. FreedSessions(sess, clients) \in [Conns -> Sessions]
            BY <1>0, ClearType
        <3>1. /\ sess' \in [Conns -> Sessions]
              /\ inbox' \in [Conns -> Seq(Frames)]
              /\ conn' \in [Conns -> {"idle", "backlog", "open", "closed"}]
              /\ clients' \subseteq Conns /\ clientCount' \in Int
            BY <1>20, <2>1, <2>2, <3>0 DEF CloseServer, TypeOK
        <3>2. /\ haveWork' \in BOOLEAN /\ activeJob' \in Jobs \cup {Null}
              /\ issuer' \in Servers \cup {Null} /\ spent' \in BOOLEAN
              /\ chainAvailable' \in BOOLEAN
            BY <1>20 DEF CloseServer, ClearWork
        <3>3. call = NoCall
            BY <1>20 DEF CloseServer
        <3>4. QED
            BY <1>20, <3>1, <3>2, <3>3 DEF CloseServer, TypeOK
<1>21. QED
    BY <1>1, <1>2, <1>3, <1>4, <1>5, <1>6, <1>7, <1>8, <1>9, <1>10, <1>11, <1>12,
       <1>13, <1>14, <1>15, <1>16, <1>17, <1>18, <1>19, <1>20 DEF ServerStep

(* Every step of a miner, of a chain server or of the operator keeps the    *)
(* types.                                                                   *)
LEMMA TypeEnvironment == TypeInv /\ Environment => TypeInv'
<1> SUFFICES ASSUME TypeInv, Environment PROVE TypeInv'
    OBVIOUS
<1> USE DEF TypeInv, CallShape, sockVars, listVars, workVars, chainVars,
            loopVars, wireVars, envVars
<1>1. ASSUME NEW c \in Conns, MinerConnect(c) PROVE TypeInv'
    BY <1>1 DEF MinerConnect, TypeOK
<1>2. ASSUME NEW c \in Conns, MinerClose(c) PROVE TypeInv'
    BY <1>2 DEF MinerClose, TypeOK
<1>3. ASSUME NEW c \in Conns, NEW f \in FrameMenu, MinerSend(c, f) PROVE TypeInv'
    <2>1. inbox[c] \in Seq(Frames) /\ f \in Frames
        BY ConstantsAssumption DEF TypeOK
    <2>2. Append(inbox[c], f) \in Seq(Frames) /\ Append(inbox[c], f) # <<>>
        BY <2>1
    <2>3. inbox' \in [Conns -> Seq(Frames)]
        BY <1>3, <2>2 DEF MinerSend, TypeOK
    <2>4. \A d \in Conns : inbox[d] # <<>> => inbox'[d] # <<>>
        BY <1>3, <2>2 DEF MinerSend, TypeOK
    <2>5. QED
        BY <1>3, <2>3, <2>4 DEF MinerSend, TypeOK
<1>4. CASE ChainHandles
    <2>1. PICK code \in SubmitReplies :
              /\ call' = [call EXCEPT !.reply = code]
              /\ applied' = IF code = "OK" THEN applied \cup {Mutation} ELSE applied
              /\ spent' = (spent \/ (code = "OK" /\ call.kind = "WORK"))
        BY <1>4 DEF ChainHandles
    <2>2. cur \in Conns /\ inbox[cur] # <<>> /\ pc = "service" /\ call.kind \in {"SHARE", "WORK"}
        BY <1>4 DEF ChainHandles
    <2>3. code \in RpcCodes
        BY ConstantsAssumption
    <2>4. call' \in Calls /\ call'.kind = call.kind
        BY <2>1, <2>3 DEF TypeOK, Calls
    <2>5. consumed[cur] \in Nat
        BY <2>2 DEF TypeOK
    <2>6. applied' \subseteq Mutations
        BY <2>1, <2>2, <2>5 DEF TypeOK, Calls, Mutation, Mutations
    <2>7. spent' \in BOOLEAN
        BY <2>1
    <2>8. QED
        BY <1>4, <2>2, <2>4, <2>6, <2>7 DEF ChainHandles, TypeOK
<1>5. ASSUME NEW s \in Flaky, ChainFlips(s) PROVE TypeInv'
    BY <1>5, ConstantsAssumption DEF ChainFlips, TypeOK
<1>6. CASE Stop
    BY <1>6 DEF Stop, TypeOK
<1>7. ASSUME NEW m \in late, ChainHandlesLate(m) PROVE TypeInv'
    BY <1>7 DEF ChainHandlesLate, TypeOK
<1>8. QED
    BY <1>1, <1>2, <1>3, <1>4, <1>5, <1>6, <1>7 DEF Environment

(* Stuttering keeps the types.                                              *)
LEMMA TypeStutter == TypeInv /\ UNCHANGED vars => TypeInv'
BY DEF TypeInv, TypeOK, CallShape, vars

(* The type invariant is inductive.                                         *)
LEMMA TypeStep == TypeInv /\ [Next]_vars => TypeInv'
BY TypeServerStep, TypeEnvironment, TypeStutter DEF Next, Terminated

(* The server's state has the shape of stn_stratum_server and of its        *)
(* sessions in every behaviour, for any number of miners and servers; in    *)
(* particular chain_transport_next never leaves the configured list and the *)
(* reply of a submission always finds the session and the frame it is for.  *)
THEOREM TypeCorrect == Spec => []TypeOK
<1>1. TypeInv => TypeOK
    BY DEF TypeInv
<1>2. QED
    BY <1>1, TypeInit, TypeStep, PTL DEF Spec

-----------------------------------------------------------------------------
(* The client list: its count, its sockets and the walk that removes        *)
(* sessions from it.                                                        *)

(* The list while it is walked: the session being served is not among those *)
(* still to serve, and outside service_clients nothing points into it.      *)
ListInv ==
    /\ ListCoherent
    /\ cur \notin todo
    /\ pc # "service" => todo = {} /\ cur = Null

-----------------------------------------------------------------------------
(* Counting.                                                                *)

(* Sessions are finitely many, and are counted in and out one by one.       *)
LEMMA CountRemoved ==
    ASSUME NEW S, IsFiniteSet(S), NEW d \in SUBSET S
    PROVE  Cardinality(S \ d) = Cardinality(S) - Cardinality(d)
<1>1. IsFiniteSet(d)
    BY FS_Subset
<1>2. S \cap d = d
    OBVIOUS
<1>3. Cardinality(S) \in Nat /\ Cardinality(d) \in Nat /\ Cardinality(S \ d) \in Nat
    BY <1>1, FS_Difference, FS_CardinalityType
<1>4. QED
    BY <1>1, <1>2, <1>3, FS_Difference

(* New sessions are not in the list yet.                                    *)
LEMMA CountAdded ==
    ASSUME NEW S, NEW T, IsFiniteSet(S), IsFiniteSet(T), S \cap T = {}
    PROVE  Cardinality(S \cup T) = Cardinality(S) + Cardinality(T)
<1>1. Cardinality(S) \in Nat /\ Cardinality(T) \in Nat
    BY FS_CardinalityType
<1>2. Cardinality(S \cap T) = 0
    BY FS_EmptySet
<1>3. Cardinality(S \cup T) = Cardinality(S) + Cardinality(T) - Cardinality(S \cap T)
    BY FS_Union
<1>4. QED
    BY <1>1, <1>2, <1>3

-----------------------------------------------------------------------------
(* The list step by step.                                                   *)

(* List, sockets and walk as they were.                                     *)
LEMMA ListSame ==
    ASSUME ListInv, UNCHANGED <<clients, clientCount, conn, todo, cur, pc>>
    PROVE  ListInv'
BY DEF ListInv, ListCoherent

(* client_remove keeps the count and the correspondence with the sockets.   *)
LEMMA ListRemoved ==
    ASSUME TypeOK, ListInv, NEW d \in SUBSET clients, ClientRemove(d)
    PROVE  /\ clients' = clients \ d
           /\ clientCount' = Cardinality(clients')
           /\ clients' = {c \in Conns : conn'[c] = "open"}
<1>1. IsFiniteSet(clients)
    BY ConstantsAssumption, FS_Subset DEF TypeOK
<1>2. Cardinality(clients \ d) = Cardinality(clients) - Cardinality(d)
    BY <1>1, CountRemoved
<1>3. clients \ d = {c \in Conns : conn'[c] = "open"}
    BY DEF ListInv, ListCoherent, ClientRemove, TypeOK
<1>4. QED
    BY <1>2, <1>3 DEF ListInv, ListCoherent, ClientRemove

(* The session being served is removed.                                     *)
LEMMA ListDropped ==
    ASSUME TypeOK, ListInv, cur # Null, ClientRemove({cur}), cur' = Null,
           UNCHANGED <<todo, pc>>
    PROVE  ListInv'
<1>1. {cur} \in SUBSET clients
    BY DEF ListInv, ListCoherent
<1>2. /\ clients' = clients \ {cur}
      /\ clientCount' = Cardinality(clients')
      /\ clients' = {c \in Conns : conn'[c] = "open"}
    BY <1>1, ListRemoved
<1>3. Null \notin todo
    BY ConstantsAssumption DEF TypeOK
<1>4. QED
    BY <1>2, <1>3 DEF ListInv, ListCoherent

(* send_pending_jobs removes sessions while nothing points into the list.   *)
LEMMA ListPending ==
    ASSUME TypeOK, ListInv, NEW j, SendPending(j), pc # "service", pc' # "service",
           UNCHANGED <<todo, cur>>
    PROVE  ListInv'
<1>1. PICK dead \in SUBSET NeedsJob(j) : ClientRemove(dead)
    BY DEF SendPending
<1>2. dead \in SUBSET clients
    BY DEF NeedsJob
<1>3. /\ clients' = clients \ dead
      /\ clientCount' = Cardinality(clients')
      /\ clients' = {c \in Conns : conn'[c] = "open"}
    BY <1>1, <1>2, ListRemoved
<1>4. todo = {} /\ cur = Null
    BY DEF ListInv
<1>5. QED
    BY <1>3, <1>4 DEF ListInv, ListCoherent

(* Every step of the loop keeps the list coherent.                          *)
LEMMA ListServerStep == TypeInv /\ ListInv /\ ServerStep => ListInv'
<1> SUFFICES ASSUME TypeInv, ListInv, ServerStep PROVE ListInv'
    OBVIOUS
<1> USE DEF sockVars, listVars, workVars, chainVars, loopVars, wireVars, envVars
<1>0. TypeOK /\ clients \subseteq Conns /\ IsFiniteSet(clients)
    BY ConstantsAssumption, FS_Subset DEF TypeInv, TypeOK
<1>1. CASE AcceptClients
    <2>1. PICK new \in SUBSET Backlog, lost \in SUBSET Backlog :
              /\ lost \cap new = {}
              /\ clients' = clients \cup new
              /\ clientCount' = clientCount + Cardinality(new)
              /\ conn' = [c \in Conns |-> CASE c \in new -> "open"
                                            [] c \in lost -> "closed"
                                            [] OTHER -> conn[c]]
              /\ todo' = clients \cup new
        BY <1>1 DEF AcceptClients
    <2>2. new \subseteq Conns /\ clients \cap new = {} /\ clients \cap lost = {}
        BY DEF Backlog, ListInv, ListCoherent
    <2>3. Cardinality(clients \cup new) = Cardinality(clients) + Cardinality(new)
        BY <1>0, <2>2, ConstantsAssumption, FS_Subset, CountAdded
    <2>4. clients' = {c \in Conns : conn'[c] = "open"}
        <3>1. \A c \in Conns : conn'[c] = "open" <=> c \in new \/ conn[c] = "open"
            BY <2>1, <2>2 DEF Backlog
        <3>2. QED
            BY <2>1, <2>2, <3>1 DEF ListInv, ListCoherent
    <2>5. cur = Null /\ UNCHANGED cur /\ pc' = "service"
        BY <1>1 DEF AcceptClients, ListInv
    <2>6. Null \notin clients \cup new
        BY <1>0, <2>2, ConstantsAssumption
    <2>7. QED
        BY <2>1, <2>3, <2>4, <2>5, <2>6 DEF ListInv, ListCoherent
<1>2. CASE \E c \in Conns : ServiceNext(c)
    BY <1>2 DEF ServiceNext, ListInv, ListCoherent
<1>3. CASE ServiceIdle
    BY <1>0, <1>3, ConstantsAssumption DEF ServiceIdle, ListInv, ListCoherent
<1>4. CASE ServiceEof
    BY <1>0, <1>4, ListDropped DEF ServiceEof, DropCurrent
<1>5. CASE InvalidHeader
    BY <1>0, <1>5, ListDropped DEF InvalidHeader, DropCurrent, Reading
<1>6. CASE ProcessAddress
    <2>1. cur # Null /\ UNCHANGED <<todo, pc>>
        BY <1>6 DEF ProcessAddress, Reading
    <2>2. CASE ClientRemove({cur}) /\ cur' = Null
        BY <1>0, <2>1, <2>2, ListDropped
    <2>3. CASE UNCHANGED <<conn, clients, clientCount, cur>>
        BY <2>1, <2>3, ListSame
    <2>4. QED
        BY <1>6, <2>2, <2>3 DEF ProcessAddress, DropCurrent
<1>7. CASE ProcessHashProgress
    <2>1. cur # Null /\ UNCHANGED <<todo, pc>>
        BY <1>7 DEF ProcessHashProgress, Reading
    <2>2. CASE DropCurrent
        BY <1>0, <2>1, <2>2, ListDropped DEF DropCurrent
    <2>3. CASE UNCHANGED <<conn, clients, clientCount, cur>>
        BY <2>1, <2>3, ListSame
    <2>4. QED
        BY <1>7, <2>2, <2>3 DEF ProcessHashProgress
<1>8. CASE SubmitBeforeAddress
    BY <1>0, <1>8, ListDropped DEF SubmitBeforeAddress, DropCurrent, Reading
<1>9. CASE AnswerLocally
    <2>1. cur # Null /\ UNCHANGED <<todo, pc>>
        BY <1>9 DEF AnswerLocally, Reading
    <2>2. CASE DropCurrent
        BY <1>0, <2>1, <2>2, ListDropped DEF DropCurrent
    <2>3. CASE UNCHANGED <<conn, clients, clientCount, cur>>
        BY <2>1, <2>3, ListSame
    <2>4. QED
        BY <1>9, <2>2, <2>3 DEF AnswerLocally, SendResult
<1>10. CASE ForwardSubmission
    BY <1>10, ListSame DEF ForwardSubmission
<1>11. CASE SubmissionReturns
    <2>1. cur # Null /\ UNCHANGED <<todo, pc>>
        BY <1>11, ConstantsAssumption DEF SubmissionReturns, TypeInv, CallShape
    <2>2. CASE ClientRemove({cur}) /\ cur' = Null
        BY <1>0, <2>1, <2>2, ListDropped
    <2>3. CASE UNCHANGED <<conn, clients, clientCount, cur>>
        BY <2>1, <2>3, ListSame
    <2>4. QED
        BY <1>11, <2>2, <2>3 DEF SubmissionReturns, SendResult
<1>12. CASE ServiceDone
    BY <1>12 DEF ServiceDone, ListInv, ListCoherent
<1>13. CASE TelemetryTick
    BY <1>13 DEF TelemetryTick, ListInv, ListCoherent
<1>14. CASE \E j \in Jobs : RefreshNewWork(j)
    BY <1>0, <1>14, ListPending DEF RefreshNewWork, TemplateReturns
<1>15. CASE RefreshSameWork \/ RefreshUnavailable \/ RefreshRefused \/ RefreshTransport
    <2>1. /\ pc = "refresh" /\ pc' = "send"
          /\ UNCHANGED <<conn, clients, clientCount, todo, cur>>
        BY <1>15 DEF RefreshSameWork, RefreshUnavailable, RefreshRefused,
                     RefreshTransport, TemplateReturns
    <2>2. QED
        BY <2>1 DEF ListInv, ListCoherent
<1>16. CASE SendPendingJobs
    <2>1. pc = "send" /\ pc' = "accept" /\ UNCHANGED <<todo, cur>>
        BY <1>16 DEF SendPendingJobs
    <2>2. CASE SendPending(activeJob)
        BY <1>0, <2>1, <2>2, ListPending
    <2>3. CASE UNCHANGED <<conn, clients, clientCount>>
        BY <2>1, <2>3 DEF ListInv, ListCoherent
    <2>4. QED
        BY <1>16, <2>2, <2>3 DEF SendPendingJobs
<1>17. CASE CloseServer
    <2>1. /\ clients' = {} /\ clientCount' = clientCount - Cardinality(clients)
          /\ conn' = [c \in Conns |-> IF conn[c] = "idle" THEN "idle" ELSE "closed"]
          /\ pc = "accept" /\ pc' = "done" /\ UNCHANGED <<todo, cur>>
        BY <1>17 DEF CloseServer
    <2>2. clientCount' = 0 /\ Cardinality({}) = 0
        <3>1. Cardinality(clients) \in Nat
            BY <1>0, FS_CardinalityType
        <3>2. QED
            BY <2>1, <3>1, FS_EmptySet DEF ListInv, ListCoherent
    <2>3. \A c \in Conns : conn'[c] # "open"
        BY <2>1
    <2>4. todo = {} /\ cur = Null
        BY <2>1 DEF ListInv
    <2>5. QED
        BY <2>1, <2>2, <2>3, <2>4 DEF ListInv, ListCoherent
<1>18. QED
    BY <1>1, <1>2, <1>3, <1>4, <1>5, <1>6, <1>7, <1>8, <1>9, <1>10, <1>11, <1>12,
       <1>13, <1>14, <1>15, <1>16, <1>17 DEF ServerStep

(* A miner that connects or leaves changes its own socket, not the list.    *)
LEMMA ListEnvironment == TypeInv /\ ListInv /\ Environment => ListInv'
<1> SUFFICES ASSUME TypeInv, ListInv, Environment PROVE ListInv'
    OBVIOUS
<1> USE DEF sockVars, listVars, workVars, chainVars, loopVars, wireVars, envVars
<1>1. ASSUME NEW c \in Conns, MinerConnect(c) PROVE ListInv'
    <2>1. UNCHANGED <<clients, clientCount, todo, cur, pc>>
        BY <1>1 DEF MinerConnect
    <2>2. \A d \in Conns : conn'[d] = "open" <=> conn[d] = "open"
        BY <1>1 DEF MinerConnect, TypeInv, TypeOK
    <2>3. QED
        BY <2>1, <2>2 DEF ListInv, ListCoherent
<1>2. CASE ~\E c \in Conns : MinerConnect(c)
    BY <1>2, ListSame DEF Environment, MinerClose, MinerSend, ChainHandles,
                              ChainHandlesLate, ChainFlips, Stop
<1>3. QED
    BY <1>1, <1>2

(* The list is empty at the start.                                          *)
LEMMA ListInit == Init => ListInv
BY FS_EmptySet DEF Init, ListInv, ListCoherent

(* The list invariant is inductive, given the types.                        *)
LEMMA ListStep == TypeInv /\ ListInv /\ [Next]_vars => ListInv'
<1>1. ListInv /\ UNCHANGED vars => ListInv'
    BY ListSame DEF vars
<1>2. QED
    BY <1>1, ListServerStep, ListEnvironment DEF Next, Terminated

(* For any number of miners that come, go and fail at any point, the count  *)
(* is the length of the list, the list is the set of open sockets, and      *)
(* service_clients never holds a session that was freed.                    *)
THEOREM ListStaysCoherent == Spec => []ListCoherent
<1>1. ListInv => ListCoherent
    BY DEF ListInv
<1>2. QED
    BY <1>1, ListInit, ListStep, TypeInit, TypeStep, PTL DEF Spec

=============================================================================
