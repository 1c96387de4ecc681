-------------------------- MODULE StratumWorkProofs --------------------------
(***************************************************************************)
(* Proofs about the active work of StratumServer: which sessions hold it,  *)
(* which chain server it may be sent back to and when it is given up; and  *)
(* about the answers the miners get for it.                                *)
(***************************************************************************)
EXTENDS StratumServerProofs

(* Sessions and the active work agree, and only mined work has a rate.      *)
SessInv ==
    /\ JobsAgree
    /\ \A c \in clients : sess[c].rate # 0 => haveWork

(* The active work comes from the selected server, which is connected; a    *)
(* call in flight is made of it; and work can only be spent by a call that  *)
(* is still in flight, so that its return decides about the work.           *)
WorkInv ==
    /\ haveWork => activeJob # Null /\ issuer = activeServer /\ chainAvailable
    /\ call # NoCall => call.srv = call.from
    /\ MutationsGoToIssuer /\ \A m \in late : m.srv = m.from
    /\ spent => call # NoCall /\ call.kind = "WORK" /\ call.reply = "OK"

-----------------------------------------------------------------------------
(* How the helpers change the table of sessions.                            *)

(* Clearing and freeing, session by session.                                *)
LEMMA ClearFields ==
    ASSUME NEW s \in [Conns -> Sessions], NEW d, NEW c \in Conns
    PROVE  /\ FreedSessions(s, d)[c].addr = s[c].addr
           /\ ClearClientJobs(s, d)[c].addr = s[c].addr
           /\ c \notin d => FreedSessions(s, d)[c] = s[c]
           /\ c \in d => /\ ClearClientJobs(s, d)[c].hasJob = FALSE
                         /\ ClearClientJobs(s, d)[c].rate = 0
<1>1. s[c] \in Sessions
    OBVIOUS
<1>2. QED
    BY <1>1, ClearedType DEF FreedSessions, ClearClientJobs

(* Sessions, work and wire as they were.                                    *)
LEMMA SessSame ==
    ASSUME SessInv, UNCHANGED <<clients, sess, haveWork, activeJob, wireJob>>
    PROVE  SessInv'
BY DEF SessInv, JobsAgree, Registered

(* Sessions are removed and nothing else changes.                           *)
LEMMA SessRemoved ==
    ASSUME TypeOK, SessInv, NEW d,
           clients' = clients \ d, sess' = FreedSessions(sess, d),
           UNCHANGED <<haveWork, activeJob, wireJob>>
    PROVE  SessInv'
<1>1. sess \in [Conns -> Sessions] /\ clients \subseteq Conns
    BY DEF TypeOK
<1>2. ASSUME NEW c \in clients' PROVE c \in clients /\ sess'[c] = sess[c]
    <2>1. c \in Conns /\ c \in clients /\ c \notin d
        BY <1>1
    <2>2. FreedSessions(sess, d)[c] = sess[c]
        BY <1>1, <2>1, ClearFields
    <2>3. QED
        BY <2>1, <2>2
<1>3. QED
    BY <1>2 DEF SessInv, JobsAgree, Registered

(* clear_work reaches every session that stays.                             *)
LEMMA SessCleared ==
    ASSUME clients \subseteq Conns, NEW s \in [Conns -> Sessions],
           clients' \subseteq clients, sess' = ClearClientJobs(s, clients),
           haveWork' = FALSE
    PROVE  SessInv'
<1>1. \A c \in clients' : sess'[c].hasJob = FALSE /\ sess'[c].rate = 0
    BY ClearFields
<1>2. QED
    BY <1>1 DEF SessInv, JobsAgree, Registered

(* After send_pending_jobs every session that stays and is registered holds *)
(* job j, whatever it held before.                                          *)
LEMMA SessPending ==
    ASSUME TypeOK, SessInv, NEW j \in Jobs \cup {Null}, SendPending(j),
           haveWork' = TRUE, activeJob' = j
    PROVE  SessInv'
<1>1. PICK dead \in SUBSET NeedsJob(j) :
          /\ ClientRemove(dead)
          /\ sess' = FreedSessions(JobSent(sess, NeedsJob(j) \ dead, j), dead)
          /\ wireJob' = JobOnWire(NeedsJob(j) \ dead, j)
    BY DEF SendPending
<1>2. clients' = clients \ dead /\ clients \subseteq Conns /\ sess \in [Conns -> Sessions]
    BY <1>1 DEF ClientRemove, TypeOK
<1> DEFINE to == NeedsJob(j) \ dead
<1> HIDE DEF to
<1>3. JobSent(sess, to, j) \in [Conns -> Sessions]
    BY <1>2, SentType
<1>4. ASSUME NEW c \in clients'
      PROVE  /\ sess'[c] = JobSent(sess, to, j)[c]
             /\ wireJob'[c] = IF c \in NeedsJob(j) THEN j ELSE wireJob[c]
    <2>1. FreedSessions(JobSent(sess, to, j), dead)[c] = JobSent(sess, to, j)[c]
        BY <1>2, <1>3, ClearFields
    <2>2. QED
        BY <1>1, <1>2, <2>1 DEF JobOnWire, to
<1>5. ASSUME NEW c \in clients', c \in NeedsJob(j)
      PROVE  /\ sess[c].addr # Null /\ sess'[c].addr = sess[c].addr
             /\ sess'[c].hasJob = TRUE /\ sess'[c].sent = j /\ wireJob'[c] = j
    <2>1. c \in Conns /\ c \in to /\ sess[c].addr # Null
        BY <1>2, <1>5 DEF NeedsJob, Registered, to
    <2>2. /\ JobSent(sess, to, j)[c].addr = sess[c].addr
          /\ JobSent(sess, to, j)[c].hasJob = TRUE
          /\ JobSent(sess, to, j)[c].sent = j
        BY <1>2, <2>1 DEF JobSent, Sessions
    <2>3. QED
        BY <1>4, <1>5, <2>1, <2>2
<1>6. ASSUME NEW c \in clients', c \notin NeedsJob(j)
      PROVE  /\ sess'[c] = sess[c] /\ wireJob'[c] = wireJob[c]
             /\ sess[c].addr # Null => sess[c].hasJob /\ sess[c].sent = j
    <2>1. c \in Conns /\ c \in clients /\ c \notin to
        BY <1>2, <1>6 DEF to
    <2>2. JobSent(sess, to, j)[c] = sess[c]
        BY <1>2, <2>1 DEF JobSent, Sessions
    <2>3. sess[c].addr # Null => sess[c].hasJob /\ sess[c].sent = j
        BY <1>6, <2>1 DEF NeedsJob, Registered
    <2>4. QED
        BY <1>4, <1>6, <2>2, <2>3
<1>7. ASSUME NEW c \in clients', c \notin NeedsJob(j)
      PROVE  /\ sess[c].hasJob <=> haveWork /\ sess[c].addr # Null
             /\ sess[c].hasJob => wireJob[c] = sess[c].sent
    BY <1>2 DEF SessInv, JobsAgree, Registered
<1>8. \A c \in clients' :
          /\ sess'[c].hasJob <=> sess'[c].addr # Null
          /\ sess'[c].hasJob => sess'[c].sent = j /\ wireJob'[c] = j
    BY <1>5, <1>6, <1>7
<1>9. QED
    BY <1>8 DEF SessInv, JobsAgree, Registered

-----------------------------------------------------------------------------
(* Sessions and work.                                                       *)

(* Removing the session being served.                                       *)
LEMMA SessDropped ==
    ASSUME TypeOK, SessInv, DropCurrent, UNCHANGED <<haveWork, activeJob, wireJob>>
    PROVE  SessInv'
BY SessRemoved DEF DropCurrent, ClientRemove

(* Every step of the loop keeps sessions and work in agreement.             *)
LEMMA SessServerStep == TypeInv /\ SessInv /\ ServerStep => SessInv'
<1> SUFFICES ASSUME TypeInv, SessInv, ServerStep PROVE SessInv'
    OBVIOUS
<1> USE DEF sockVars, listVars, workVars, chainVars, loopVars, wireVars, envVars
<1>0. TypeOK /\ clients \subseteq Conns /\ sess \in [Conns -> Sessions]
    BY DEF TypeInv, TypeOK
<1>1. CASE AcceptClients
    <2>1. PICK new \in SUBSET Backlog :
              /\ clients' = clients \cup new
              /\ sess' = [c \in Conns |-> IF c \in new THEN NewSession ELSE sess[c]]
              /\ UNCHANGED <<haveWork, activeJob, wireJob>>
        BY <1>1 DEF AcceptClients
    <2>2. \A c \in clients' : c \in Conns /\ (c \in new \/ c \in clients)
        BY <1>0, <2>1 DEF Backlog
    <2>3. \A c \in clients' : sess'[c] = NewSession \/ (c \in clients /\ sess'[c] = sess[c])
        BY <2>1, <2>2
    <2>4. QED
        BY <2>1, <2>3 DEF SessInv, JobsAgree, Registered, NewSession
<1>2. CASE \E c \in Conns : ServiceNext(c)
    BY <1>2, SessSame DEF ServiceNext
<1>3. CASE ServiceIdle
    BY <1>3, SessSame DEF ServiceIdle
<1>4. CASE ServiceEof
    BY <1>0, <1>4, SessDropped DEF ServiceEof
<1>5. CASE InvalidHeader
    BY <1>0, <1>5, SessDropped DEF InvalidHeader
<1>6. CASE ProcessAddress
    <2>1. cur \in Conns
        BY <1>0, <1>6, ReadingType DEF ProcessAddress
    <2>2. UNCHANGED <<haveWork, activeJob>>
        BY <1>6 DEF ProcessAddress
    <2> DEFINE named == [sess EXCEPT ![cur].addr = Frame.addr]
    <2>3. CASE DropCurrent /\ UNCHANGED wireJob
        BY <1>0, <2>2, <2>3, SessDropped
    <2>4. CASE /\ ~Registered(cur) /\ ~haveWork /\ sess' = named
               /\ UNCHANGED <<clients, wireJob>>
        BY <1>0, <2>1, <2>2, <2>4 DEF SessInv, JobsAgree, Registered, Sessions
    <2>5. CASE /\ ~Registered(cur) /\ haveWork /\ Frame.addr # Null
               /\ sess' = JobSent(named, {cur}, activeJob)
               /\ wireJob' = JobOnWire({cur}, activeJob)
               /\ UNCHANGED clients
        <3>1. /\ sess'[cur].addr = Frame.addr /\ sess'[cur].hasJob = TRUE
              /\ sess'[cur].sent = activeJob /\ wireJob'[cur] = activeJob
            BY <1>0, <2>1, <2>5 DEF JobSent, JobOnWire, Sessions
        <3>2. \A c \in Conns \ {cur} : sess'[c] = sess[c] /\ wireJob'[c] = wireJob[c]
            BY <1>0, <2>1, <2>5 DEF JobSent, JobOnWire
        <3>3. QED
            BY <1>0, <2>2, <2>5, <3>1, <3>2 DEF SessInv, JobsAgree, Registered
    <2>6. CASE /\ clients' = clients \ {cur}
               /\ sess' = FreedSessions(named, {cur})
               /\ UNCHANGED wireJob
        <3>1. \A c \in clients' : c \in clients /\ sess'[c] = sess[c]
            BY <1>0, <2>1, <2>6 DEF FreedSessions
        <3>2. QED
            BY <2>2, <2>6, <3>1 DEF SessInv, JobsAgree, Registered
    <2>7. QED
        BY <1>6, <2>3, <2>4, <2>5, <2>6 DEF ProcessAddress, ClientRemove
<1>7. CASE ProcessHashProgress
    <2>1. cur \in Conns /\ UNCHANGED <<haveWork, activeJob, wireJob>>
        BY <1>0, <1>7, ReadingType DEF ProcessHashProgress
    <2>2. CASE DropCurrent
        BY <1>0, <2>1, <2>2, SessDropped
    <2>3. CASE sess' = [sess EXCEPT ![cur].rate = ProgressRate] /\ UNCHANGED clients
        <3>1. /\ \A c \in Conns \ {cur} : sess'[c] = sess[c]
              /\ sess'[cur].addr = sess[cur].addr /\ sess'[cur].sent = sess[cur].sent
              /\ sess'[cur].hasJob = sess[cur].hasJob
              /\ sess'[cur].rate = ProgressRate
            BY <1>0, <2>1, <2>3 DEF Sessions
        <3>2. ProgressRate # 0 => haveWork
            BY DEF ProgressRate
        <3>3. QED
            BY <1>0, <2>1, <2>3, <3>1, <3>2 DEF SessInv, JobsAgree, Registered
    <2>4. QED
        BY <1>7, <2>2, <2>3 DEF ProcessHashProgress
<1>8. CASE SubmitBeforeAddress
    BY <1>0, <1>8, SessDropped DEF SubmitBeforeAddress
<1>9. CASE AnswerLocally
    <2>1. UNCHANGED <<haveWork, activeJob, wireJob>>
        BY <1>9 DEF AnswerLocally
    <2>2. CASE DropCurrent
        BY <1>0, <2>1, <2>2, SessDropped
    <2>3. CASE UNCHANGED <<clients, sess>>
        BY <2>1, <2>3, SessSame
    <2>4. QED
        BY <1>9, <2>2, <2>3 DEF AnswerLocally, SendResult
<1>10. CASE ForwardSubmission
    BY <1>10, SessSame DEF ForwardSubmission
<1>11. CASE SubmissionReturns
    <2>1. PICK code \in CallOutcomes, dead \in {{}, {cur}} :
              /\ IF dead = {} THEN SendResult(code)
                 ELSE ClientRemove(dead) /\ cur' = Null /\ UNCHANGED results
              /\ IF code \in ClearingCodes(call.kind)
                 THEN /\ ClearWork
                      /\ sess' = ClearClientJobs(FreedSessions(sess, dead), clients)
                 ELSE /\ UNCHANGED workVars
                      /\ sess' = FreedSessions(sess, dead)
        BY <1>11 DEF SubmissionReturns
    <2>2. clients' = clients \ dead /\ UNCHANGED wireJob
        BY <1>11, <2>1 DEF SendResult, ClientRemove, SubmissionReturns
    <2>3. CASE code \in ClearingCodes(call.kind)
        <3>1. FreedSessions(sess, dead) \in [Conns -> Sessions]
            BY <1>0, ClearType
        <3>2. QED
            BY <1>0, <2>1, <2>2, <2>3, <3>1, SessCleared DEF ClearWork
    <2>4. CASE code \notin ClearingCodes(call.kind)
        BY <1>0, <2>1, <2>2, <2>4, SessRemoved
    <2>5. QED
        BY <2>3, <2>4
<1>12. CASE ServiceDone
    BY <1>12, SessSame DEF ServiceDone
<1>13. CASE TelemetryTick
    BY <1>13, SessSame DEF TelemetryTick
<1>14. CASE \E j \in Jobs : RefreshNewWork(j)
    <2>1. PICK j \in Jobs : RefreshNewWork(j)
        BY <1>14
    <2>2. SendPending(j) /\ haveWork' = TRUE /\ activeJob' = j
        BY <2>1 DEF RefreshNewWork
    <2>3. QED
        BY <1>0, <2>2, SessPending
<1>15. CASE RefreshSameWork
    BY <1>15, SessSame DEF RefreshSameWork
<1>16. CASE RefreshUnavailable
    BY <1>16, SessSame DEF RefreshUnavailable
<1>17. CASE RefreshRefused
    BY <1>0, <1>17, SessCleared DEF RefreshRefused, ClearWork
<1>18. CASE RefreshTransport
    BY <1>0, <1>18, SessCleared DEF RefreshTransport, ClearWork
<1>19. CASE SendPendingJobs
    <2>1. UNCHANGED <<haveWork, activeJob>> /\ haveWork \in BOOLEAN
          /\ activeJob \in Jobs \cup {Null}
        BY <1>0, <1>19 DEF SendPendingJobs, TypeOK
    <2>2. CASE haveWork
        BY <1>0, <1>19, <2>1, <2>2, SessPending DEF SendPendingJobs
    <2>3. CASE ~haveWork
        BY <1>19, <2>1, <2>3, SessSame DEF SendPendingJobs
    <2>4. QED
        BY <2>2, <2>3
<1>20. CASE CloseServer
    BY <1>20 DEF CloseServer, SessInv, JobsAgree
<1>21. QED
    BY <1>1, <1>2, <1>3, <1>4, <1>5, <1>6, <1>7, <1>8, <1>9, <1>10, <1>11, <1>12,
       <1>13, <1>14, <1>15, <1>16, <1>17, <1>18, <1>19, <1>20 DEF ServerStep

(* Miners, chain servers and the operator do not touch what the agreement   *)
(* is about.                                                                *)
LEMMA SessEnvironment == SessInv /\ Environment => SessInv'
<1> SUFFICES ASSUME SessInv, Environment PROVE SessInv'
    OBVIOUS
<1>1. UNCHANGED <<clients, sess, haveWork, activeJob, wireJob>>
    BY DEF Environment, MinerConnect, MinerClose, MinerSend, ChainHandles, ChainHandlesLate, ChainFlips,
           Stop, sockVars, listVars, workVars, chainVars, loopVars, wireVars, envVars
<1>2. QED
    BY <1>1, SessSame

(* There are no sessions at the start.                                      *)
LEMMA SessInit == Init => SessInv
BY DEF Init, SessInv, JobsAgree

(* The agreement is inductive, given the types.                             *)
LEMMA SessStep == TypeInv /\ SessInv /\ [Next]_vars => SessInv'
<1>1. SessInv /\ UNCHANGED vars => SessInv'
    BY SessSame DEF vars
<1>2. QED
    BY <1>1, SessServerStep, SessEnvironment DEF Next, Terminated

(* Whatever fails half way through a push, whichever call clears the work   *)
(* and however registrations interleave with refreshes, a session holds a   *)
(* job exactly when it is registered and there is work, that job is the     *)
(* active one, and it is the last JOB its miner was sent.                   *)
THEOREM SessionsAgree == Spec => []JobsAgree
<1>1. SessInv => JobsAgree
    BY DEF SessInv
<1>2. QED
    BY <1>1, SessInit, SessStep, TypeInit, TypeStep, PTL DEF Spec

-----------------------------------------------------------------------------
(* Work, its issuer and its end.                                            *)

(* Work, selection and call as they were.                                   *)
LEMMA WorkSame ==
    ASSUME WorkInv,
           UNCHANGED <<haveWork, activeJob, issuer, spent, chainAvailable, activeServer, call,
                       applied, late>>
    PROVE  WorkInv'
BY DEF WorkInv, MutationsGoToIssuer

(* clear_work outside a call, whichever server is selected then.            *)
LEMMA WorkCleared ==
    ASSUME WorkInv, ClearWork, call' = NoCall, UNCHANGED applied,
           \A m \in late' : m.srv = m.from
    PROVE  WorkInv'
BY DEF WorkInv, ClearWork, MutationsGoToIssuer

(* The only calls that can have spent the work clear it however they end.   *)
LEMMA SpendingClears ==
    ASSUME call.kind = "WORK", call.reply = "OK", NEW code \in CallOutcomes
    PROVE  code \in ClearingCodes(call.kind)
BY DEF CallOutcomes, ClearingCodes

(* The next server is only selected when the work is cleared.               *)
LEMMA FailoverClears == \A kind : FailoverCodes(kind) \subseteq ClearingCodes(kind)
BY DEF FailoverCodes, ClearingCodes

(* Every step of the loop keeps the facts about the work.                   *)
LEMMA WorkServerStep == TypeInv /\ WorkInv /\ ServerStep => WorkInv'
<1> SUFFICES ASSUME TypeInv, WorkInv, ServerStep PROVE WorkInv'
    OBVIOUS
<1> USE DEF sockVars, listVars, workVars, chainVars, loopVars, wireVars, envVars
<1>1. CASE AcceptClients
    BY <1>1, WorkSame DEF AcceptClients
<1>2. CASE \E c \in Conns : ServiceNext(c)
    BY <1>2, WorkSame DEF ServiceNext
<1>3. CASE ServiceIdle \/ ServiceEof \/ InvalidHeader \/ SubmitBeforeAddress
    BY <1>3, WorkSame DEF ServiceIdle, ServiceEof, InvalidHeader, SubmitBeforeAddress
<1>4. CASE ProcessAddress
    BY <1>4, WorkSame DEF ProcessAddress
<1>5. CASE ProcessHashProgress
    BY <1>5, WorkSame DEF ProcessHashProgress
<1>6. CASE AnswerLocally
    BY <1>6, WorkSame DEF AnswerLocally
<1>7. CASE ForwardSubmission
    <2>1. haveWork /\ call = NoCall
        BY <1>7 DEF ForwardSubmission, Forwardable, Reading
    <2>2. /\ call'.srv = activeServer /\ call'.from = issuer
          /\ UNCHANGED <<haveWork, activeJob, issuer, spent, chainAvailable, activeServer, applied, late>>
        BY <1>7 DEF ForwardSubmission
    <2>3. QED
        BY <2>1, <2>2 DEF WorkInv, MutationsGoToIssuer
<1>8. CASE SubmissionReturns
    <2>1. PICK code \in CallOutcomes :
              /\ IF code \in ClearingCodes(call.kind) THEN ClearWork ELSE UNCHANGED workVars
              /\ code \in FailoverCodes(call.kind) \/ UNCHANGED chainVars
              /\ call' = NoCall /\ UNCHANGED applied
              /\ late' = late \/ late' = late \cup {Mutation}
        BY <1>8 DEF SubmissionReturns
    <2>0. \A m \in late' : m.srv = m.from
        <3>1. Mutation.srv = Mutation.from
            BY <1>8 DEF SubmissionReturns, Mutation, WorkInv
        <3>2. QED
            BY <2>1, <3>1 DEF WorkInv
    <2>2. CASE code \in ClearingCodes(call.kind)
        BY <2>0, <2>1, <2>2, WorkCleared
    <2>3. CASE code \notin ClearingCodes(call.kind)
        <3>1. UNCHANGED <<haveWork, activeJob, issuer, spent, chainAvailable, activeServer>>
            BY <2>1, <2>3, FailoverClears
        <3>2. ~spent
            BY <2>3, SpendingClears DEF WorkInv
        <3>3. QED
            BY <2>0, <2>1, <3>1, <3>2 DEF WorkInv, MutationsGoToIssuer
    <2>4. QED
        BY <2>2, <2>3
<1>9. CASE ServiceDone \/ TelemetryTick
    BY <1>9, WorkSame DEF ServiceDone, TelemetryTick
<1>10. CASE \E j \in Jobs : RefreshNewWork(j)
    <2>1. /\ activeJob' \in Jobs /\ issuer' = activeServer /\ spent' = FALSE
          /\ chainAvailable' = TRUE /\ UNCHANGED <<activeServer, call, applied, late>>
        BY <1>10 DEF RefreshNewWork
    <2>2. QED
        BY <2>1, ConstantsAssumption DEF WorkInv, MutationsGoToIssuer
<1>11. CASE RefreshSameWork
    BY <1>11 DEF RefreshSameWork, WorkInv, MutationsGoToIssuer
<1>12. CASE RefreshUnavailable
    BY <1>12 DEF RefreshUnavailable, WorkInv, MutationsGoToIssuer
<1>13. CASE RefreshRefused \/ RefreshTransport
    <2>1. call = NoCall
        BY <1>13 DEF RefreshRefused, RefreshTransport, TemplateReturns, TypeInv, CallShape
    <2>2. QED
        BY <1>13, <2>1, WorkCleared DEF RefreshRefused, RefreshTransport, WorkInv
<1>14. CASE SendPendingJobs
    BY <1>14, WorkSame DEF SendPendingJobs
<1>15. CASE CloseServer
    <2>1. call = NoCall
        BY <1>15 DEF CloseServer, TypeInv, CallShape
    <2>2. QED
        BY <1>15, <2>1, WorkCleared DEF CloseServer, WorkInv
<1>16. QED
    BY <1>1, <1>2, <1>3, <1>4, <1>5, <1>6, <1>7, <1>8, <1>9, <1>10, <1>11, <1>12,
       <1>13, <1>14, <1>15 DEF ServerStep

(* A chain server that applies a mutation is the one the call was made to.  *)
LEMMA WorkEnvironment == TypeInv /\ WorkInv /\ Environment => WorkInv'
<1> SUFFICES ASSUME TypeInv, WorkInv, Environment PROVE WorkInv'
    OBVIOUS
<1> USE DEF sockVars, listVars, workVars, chainVars, loopVars, wireVars, envVars
<1>1. CASE ChainHandles
    <2>1. PICK code \in SubmitReplies :
              /\ call' = [call EXCEPT !.reply = code]
              /\ applied' = IF code = "OK" THEN applied \cup {Mutation} ELSE applied
              /\ spent' = (spent \/ (code = "OK" /\ call.kind = "WORK"))
        BY <1>1 DEF ChainHandles
    <2>2. call # NoCall /\ call.reply = "PENDING" /\ call \in Calls
          /\ call.kind \in {"SHARE", "WORK"}
        BY <1>1 DEF ChainHandles, TypeInv, TypeOK, CallShape
    <2>3. /\ call'.kind = call.kind /\ call'.srv = call.srv /\ call'.from = call.from
          /\ call'.reply = code
        BY <2>1, <2>2 DEF Calls
    <2>4. call' # NoCall
        BY <2>2, <2>3 DEF NoCall
    <2>5. call.srv = call.from /\ ~spent
        BY <2>2 DEF WorkInv
    <2>6. MutationsGoToIssuer'
        BY <2>1, <2>5 DEF WorkInv, MutationsGoToIssuer, Mutation
    <2>7. UNCHANGED <<haveWork, activeJob, issuer, chainAvailable, activeServer, late>>
        BY <1>1 DEF ChainHandles
    <2>8. QED
        BY <2>1, <2>3, <2>4, <2>5, <2>6, <2>7 DEF WorkInv
<1>2. ASSUME NEW m \in late, ChainHandlesLate(m) PROVE WorkInv'
    BY <1>2 DEF ChainHandlesLate, WorkInv, MutationsGoToIssuer
<1>3. CASE ~ChainHandles /\ ~\E m \in late : ChainHandlesLate(m)
    BY <1>3, WorkSame DEF Environment, MinerConnect, MinerClose, MinerSend, ChainFlips, Stop
<1>4. QED
    BY <1>1, <1>2, <1>3

(* There is no work and no call at the start.                               *)
LEMMA WorkInit == Init => WorkInv
BY DEF Init, WorkInv, MutationsGoToIssuer

(* The facts about the work are inductive, given the types.                 *)
LEMMA WorkStep == TypeInv /\ WorkInv /\ [Next]_vars => WorkInv'
<1>1. WorkInv /\ UNCHANGED vars => WorkInv'
    BY WorkSame DEF vars
<1>2. QED
    BY <1>1, WorkServerStep, WorkEnvironment DEF Next, Terminated

(* No sequence of failovers, refreshes and submissions sends a mutation to  *)
(* a chain server other than the one that issued the work it is made of.    *)
THEOREM MutationsStayWithIssuer == Spec => []MutationsGoToIssuer
<1>1. WorkInv => MutationsGoToIssuer
    BY DEF WorkInv
<1>2. QED
    BY <1>1, WorkInit, WorkStep, TypeInit, TypeStep, PTL DEF Spec

(* Once a chain server has applied a block made of the active work, the     *)
(* server does not offer that work any longer when the call has returned,   *)
(* whatever it learned of the outcome.                                      *)
THEOREM SpentWorkIsDropped == Spec => []SpentWorkDropped
<1>1. WorkInv => SpentWorkDropped
    BY DEF WorkInv, SpentWorkDropped
<1>2. QED
    BY <1>1, WorkInit, WorkStep, TypeInit, TypeStep, PTL DEF Spec

(* Every status handed to telemetry reports work only with a connected      *)
(* chain and a job, and a hashrate only with work.                          *)
THEOREM StatusIsCoherent == Spec => []StatusCoherent
<1>1. WorkInv /\ SessInv => StatusCoherent
    BY DEF WorkInv, SessInv, StatusCoherent, Status
<1>2. QED
    BY <1>1, WorkInit, WorkStep, SessInit, SessStep, TypeInit, TypeStep, PTL DEF Spec

-----------------------------------------------------------------------------
(* The answers to the miners: one RESULT for every SUBMIT, in order, and    *)
(* ACCEPTED only for what a chain applied.                                  *)

(* A connection the server has not accepted has been sent nothing.          *)
Untouched ==
    \A c \in Conns : conn[c] \in {"idle", "backlog"} =>
        results[c] = <<>> /\ wireJob[c] = Null /\ consumed[c] = 0

(* A call is made for the registered session being served, and its answer   *)
(* is OK only if the mutation of that very SUBMIT has been applied.         *)
CallTruthful ==
    call # NoCall =>
        /\ call.addr = sess[cur].addr /\ sess[cur].addr # Null
        /\ call.reply = "OK" =>
               \E m \in applied : m.conn = cur /\ m.nth = consumed[cur] /\ m.addr = call.addr

ResultInv ==
    /\ Untouched
    /\ CallTruthful
    /\ OneResultPerSubmit
    /\ SilentUntilRegistered
    /\ AcceptedMeansApplied

-----------------------------------------------------------------------------
(* ACCEPTED is the translation of OK and of no other code.                  *)
LEMMA AcceptedIsOK == \A code : SubmitResultCode(code) = "ACCEPTED" => code = "OK"
BY DEF SubmitResultCode

(* process_submission never answers OK by itself.                           *)
LEMMA NoLocalOK == "OK" \notin LocalAnswers
BY DEF LocalAnswers

(* Steps that send no RESULT: sessions may come, go, register and be sent   *)
(* jobs, as long as nothing was written to the ones whose address changes.  *)
LEMMA ResultKept ==
    ASSUME ResultInv,
           UNCHANGED <<results, consumed, call, applied>>,
           call # NoCall => cur' = cur,
           \A c \in Conns : conn'[c] \in {"idle", "backlog"} =>
               conn[c] \in {"idle", "backlog"} /\ wireJob'[c] = wireJob[c],
           \A c \in Conns : \/ sess'[c].addr = sess[c].addr
                            \/ results[c] = <<>> /\ wireJob[c] = Null /\ call = NoCall,
           \A c \in Conns : wireJob'[c] = wireJob[c] \/ sess'[c].addr # Null,
           cur \in Conns \cup {Null}, call # NoCall => cur \in Conns,
           clients' \subseteq Conns,
           \A c \in clients' : \/ c \in clients
                               \/ consumed[c] = 0 /\ results[c] = <<>> /\ call = NoCall
    PROVE  ResultInv'
<1>1. Untouched'
    BY DEF ResultInv, Untouched
<1>2. CallTruthful'
    BY DEF ResultInv, CallTruthful
<1>3. OneResultPerSubmit'
    <2>1. CASE call = NoCall
        BY <2>1 DEF ResultInv, OneResultPerSubmit
    <2>2. CASE call # NoCall
        <3>1. cur' = cur /\ call' = call /\ clients' \subseteq clients
            BY <2>2
        <3>2. QED
            BY <3>1 DEF ResultInv, OneResultPerSubmit
    <2>3. QED
        BY <2>1, <2>2
<1>4. SilentUntilRegistered'
    BY DEF ResultInv, SilentUntilRegistered
<1>5. AcceptedMeansApplied'
    <2>1. \A c \in Conns : results[c] # <<>> => sess'[c].addr = sess[c].addr
        OBVIOUS
    <2>2. \A c \in Conns : Len(<<>>) = 0 /\ 1 .. 0 = {}
        OBVIOUS
    <2>3. QED
        BY <2>1, <2>2 DEF ResultInv, AcceptedMeansApplied
<1>6. QED
    BY <1>1, <1>2, <1>3, <1>4, <1>5 DEF ResultInv

(* Steps that send the current session the RESULT of its oldest unanswered  *)
(* SUBMIT, which is the one just consumed.                                  *)
LEMMA ResultSent ==
    ASSUME TypeOK, ResultInv, cur \in clients, NEW code, call' = NoCall,
           results' = [results EXCEPT ![cur] = Append(@, SubmitResultCode(code))],
           consumed'[cur] = Len(results[cur]) + 1,
           \A c \in Conns \ {cur} : consumed'[c] = consumed[c],
           code = "OK" => \E m \in applied : /\ m.conn = cur /\ m.nth = consumed'[cur]
                                             /\ m.addr = sess[cur].addr,
           sess[cur].addr # Null,
           conn[cur] = "open",
           \A c \in Conns : sess'[c].addr = sess[c].addr,
           UNCHANGED <<wireJob, conn, applied, clients>>
    PROVE  ResultInv'
<1> DEFINE r == SubmitResultCode(code)
<1> HIDE DEF r
<1>1. cur \in Conns /\ results[cur] \in Seq(ResultCodes) /\ r \in ResultCodes
    BY ResultType DEF TypeOK, r
<1>2. /\ Len(Append(results[cur], r)) = Len(results[cur]) + 1
      /\ \A n \in 1 .. Len(results[cur]) : Append(results[cur], r)[n] = results[cur][n]
      /\ Append(results[cur], r)[Len(results[cur]) + 1] = r
      /\ Len(results[cur]) \in Nat
    BY <1>1
<1>3. /\ results'[cur] = Append(results[cur], r)
      /\ \A c \in Conns \ {cur} : results'[c] = results[c]
    BY <1>1 DEF TypeOK, r
<1>4. Untouched'
    BY <1>3 DEF ResultInv, Untouched
<1>5. CallTruthful'
    BY DEF CallTruthful
<1>6. OneResultPerSubmit'
    <2>1. ASSUME NEW c \in clients' PROVE consumed'[c] = Len(results'[c])
        <3>1. CASE c = cur
            BY <1>2, <1>3, <3>1
        <3>2. CASE c # cur
            <4>1. /\ c \in clients /\ c \in Conns /\ consumed'[c] = consumed[c]
                  /\ results'[c] = results[c] /\ results[c] \in Seq(ResultCodes)
                BY <1>3, <2>1, <3>2 DEF TypeOK
            <4>2. consumed[c] = Len(results[c]) + 0
                BY <3>2, <4>1 DEF ResultInv, OneResultPerSubmit
            <4>3. Len(results[c]) \in Nat
                BY <4>1
            <4>4. QED
                BY <4>1, <4>2, <4>3
        <3>3. QED
            BY <3>1, <3>2
    <2>2. \A c \in clients' : Len(results'[c]) \in Nat
        BY <1>2, <1>3 DEF TypeOK
    <2>3. QED
        BY <2>1, <2>2 DEF OneResultPerSubmit
<1>7. SilentUntilRegistered'
    BY <1>3 DEF ResultInv, SilentUntilRegistered
<1>8. AcceptedMeansApplied'
    <2>1. ASSUME NEW c \in Conns, NEW n \in 1 .. Len(results'[c]), results'[c][n] = "ACCEPTED"
          PROVE  \E m \in applied : m.conn = c /\ m.nth = n /\ m.addr = sess[c].addr
        <3>1. CASE c # cur
            BY <1>3, <2>1, <3>1 DEF ResultInv, AcceptedMeansApplied
        <3>2. CASE c = cur /\ n = Len(results[cur]) + 1
            <4>1. code = "OK"
                BY <1>2, <1>3, <2>1, <3>2, AcceptedIsOK DEF r
            <4>2. QED
                BY <3>2, <4>1
        <3>3. CASE c = cur /\ n # Len(results[cur]) + 1
            <4>1. n \in 1 .. Len(results[cur]) /\ results[cur][n] = "ACCEPTED"
                BY <1>2, <1>3, <2>1, <3>3
            <4>2. QED
                BY <1>1, <3>3, <4>1 DEF ResultInv, AcceptedMeansApplied
        <3>4. QED
            BY <3>1, <3>2, <3>3
    <2>2. QED
        BY <2>1 DEF AcceptedMeansApplied
<1>9. QED
    BY <1>4, <1>5, <1>6, <1>7, <1>8 DEF ResultInv

-----------------------------------------------------------------------------
(* The special cases of ResultKept that the actions need.                   *)

(* Nothing changes that the answers depend on, except who is served.        *)
LEMMA ResultSame ==
    ASSUME TypeInv, ResultInv,
           UNCHANGED <<results, consumed, call, applied, wireJob, clients>>,
           call # NoCall => cur' = cur,
           \A c \in Conns : conn'[c] \in {"idle", "backlog"} => conn[c] \in {"idle", "backlog"},
           \A c \in Conns : sess'[c].addr = sess[c].addr
    PROVE  ResultInv'
<1>1. /\ cur \in Conns \cup {Null} /\ clients' \subseteq Conns
      /\ call # NoCall => cur \in Conns
    BY DEF TypeInv, TypeOK, CallShape
<1>2. QED
    BY <1>1, ResultKept

(* The session being served goes without an answer.                         *)
LEMMA ResultDropped ==
    ASSUME TypeInv, ResultInv, call = NoCall, DropCurrent,
           UNCHANGED <<results, consumed, call, applied, wireJob>>
    PROVE  ResultInv'
<1>1. /\ cur \in Conns \cup {Null} /\ clients \subseteq Conns /\ clients' \subseteq clients
      /\ sess \in [Conns -> Sessions]
    BY DEF TypeInv, TypeOK, DropCurrent, ClientRemove
<1>2. \A c \in Conns : conn'[c] \in {"idle", "backlog"} => conn[c] \in {"idle", "backlog"}
    BY DEF DropCurrent, ClientRemove
<1>3. \A c \in Conns : sess'[c].addr = sess[c].addr
    BY <1>1, ClearFields DEF DropCurrent
<1>4. QED
    BY <1>1, <1>2, <1>3, ResultKept

(* send_pending_jobs writes JOBs, to registered sessions only.              *)
LEMMA ResultPending ==
    ASSUME TypeInv, ListInv, ResultInv, NEW j \in Jobs \cup {Null}, SendPending(j),
           call = NoCall, UNCHANGED <<results, consumed, call, applied>>
    PROVE  ResultInv'
<1>1. PICK dead \in SUBSET NeedsJob(j) :
          /\ ClientRemove(dead)
          /\ sess' = FreedSessions(JobSent(sess, NeedsJob(j) \ dead, j), dead)
          /\ wireJob' = JobOnWire(NeedsJob(j) \ dead, j)
    BY DEF SendPending
<1>2. /\ cur \in Conns \cup {Null} /\ clients \subseteq Conns /\ clients' \subseteq clients
      /\ sess \in [Conns -> Sessions]
    BY <1>1 DEF TypeInv, TypeOK, ClientRemove
<1>3. \A c \in Conns : conn'[c] \in {"idle", "backlog"} => conn[c] \in {"idle", "backlog"}
    BY <1>1 DEF ClientRemove
<1> DEFINE to == NeedsJob(j) \ dead
<1> HIDE DEF to
<1>4. JobSent(sess, to, j) \in [Conns -> Sessions]
    BY <1>2, SentType
<1>5. \A c \in Conns : JobSent(sess, to, j)[c].addr = sess[c].addr
    BY <1>2 DEF JobSent, Sessions
<1>6. \A c \in Conns : FreedSessions(JobSent(sess, to, j), dead)[c].addr = sess[c].addr
    BY <1>4, <1>5, ClearFields
<1>7. \A c \in Conns : sess'[c].addr = sess[c].addr
    BY <1>1, <1>6 DEF to
<1>8. \A c \in Conns : c \in to => sess[c].addr # Null /\ conn[c] = "open"
    BY DEF to, NeedsJob, Registered, ListInv, ListCoherent
<1>9. \A c \in Conns : wireJob'[c] = wireJob[c] \/ c \in to
    BY <1>1 DEF JobOnWire, to
<1>10. QED
    BY <1>2, <1>3, <1>7, <1>8, <1>9, ResultKept

(* Every step of the loop keeps the answers truthful and in order.          *)
LEMMA ResultServerStep == TypeInv /\ ListInv /\ ResultInv /\ ServerStep => ResultInv'
<1> SUFFICES ASSUME TypeInv, ListInv, ResultInv, ServerStep PROVE ResultInv'
    OBVIOUS
<1> USE DEF sockVars, listVars, workVars, chainVars, loopVars, wireVars, envVars
<1>0. /\ TypeOK /\ clients \subseteq Conns /\ sess \in [Conns -> Sessions]
      /\ cur \in Conns \cup {Null}
    BY DEF TypeInv, TypeOK
<1>1. CASE AcceptClients
    <2>1. PICK new \in SUBSET Backlog, lost \in SUBSET Backlog :
              /\ lost \cap new = {}
              /\ clients' = clients \cup new
              /\ conn' = [c \in Conns |-> CASE c \in new -> "open"
                                            [] c \in lost -> "closed"
                                            [] OTHER -> conn[c]]
              /\ sess' = [c \in Conns |-> IF c \in new THEN NewSession ELSE sess[c]]
        BY <1>1 DEF AcceptClients
    <2>2. call = NoCall /\ UNCHANGED <<results, consumed, call, applied, wireJob>>
        BY <1>1 DEF AcceptClients, TypeInv, CallShape
    <2>3. \A c \in new : /\ c \in Conns /\ results[c] = <<>>
                          /\ wireJob[c] = Null /\ consumed[c] = 0
        BY DEF Backlog, ResultInv, Untouched
    <2>4. \A c \in Conns : conn'[c] \in {"idle", "backlog"} => conn[c] \in {"idle", "backlog"}
        BY <2>1
    <2>5. clients' \subseteq Conns
        BY <1>0, <2>1, <2>3
    <2>6. \A c \in Conns : c \notin new => sess'[c] = sess[c]
        BY <2>1
    <2>7. QED
        BY <1>0, <2>1, <2>2, <2>3, <2>4, <2>5, <2>6, ResultKept
<1>2. CASE \E c \in Conns : ServiceNext(c)
    <2>1. call = NoCall
        BY <1>2, ConstantsAssumption DEF ServiceNext, TypeInv, CallShape
    <2>2. QED
        BY <1>2, <2>1, ResultSame DEF ServiceNext
<1>3. CASE ServiceIdle
    BY <1>3, ResultSame DEF ServiceIdle
<1>4. CASE ServiceEof \/ InvalidHeader \/ SubmitBeforeAddress
    BY <1>4, ResultDropped DEF ServiceEof, InvalidHeader, SubmitBeforeAddress, Reading
<1>5. CASE ProcessAddress
    <2>1. /\ cur \in Conns /\ call = NoCall
          /\ UNCHANGED <<results, consumed, call, applied>>
        BY <1>0, <1>5, ReadingType DEF ProcessAddress, Reading
    <2> DEFINE named == [sess EXCEPT ![cur].addr = Frame.addr]
    <2>2. CASE DropCurrent /\ UNCHANGED wireJob
        BY <2>1, <2>2, ResultDropped
    <2>3. CASE ~DropCurrent \/ wireJob' # wireJob
        <3>1. ~Registered(cur) /\ Frame.addr # Null
            BY <1>5, <2>3 DEF ProcessAddress
        <3>2. results[cur] = <<>> /\ wireJob[cur] = Null
            BY <2>1, <3>1 DEF Registered, ResultInv, SilentUntilRegistered
        <3>3. named \in [Conns -> Sessions] /\ named[cur].addr # Null
              /\ \A c \in Conns \ {cur} : named[c] = sess[c]
            <4>1. Frame.addr \in Addresses \cup {Null}
                BY <1>0, <1>5, ReadingType, FrameFields DEF ProcessAddress
            <4>2. QED
                BY <1>0, <2>1, <3>1, <4>1 DEF Sessions
        <3> HIDE DEF named
        <3>4. \/ sess' = named /\ UNCHANGED wireJob
              \/ /\ sess' = JobSent(named, {cur}, activeJob)
                 /\ wireJob' = JobOnWire({cur}, activeJob)
              \/ sess' = FreedSessions(named, {cur}) /\ UNCHANGED wireJob
            BY <1>5, <3>1 DEF ProcessAddress, named
        <3>5. \A c \in Conns : sess'[c].addr = named[c].addr
            <4>1. \A c \in Conns : JobSent(named, {cur}, activeJob)[c].addr = named[c].addr
                BY <3>3 DEF JobSent, Sessions
            <4>2. \A c \in Conns : FreedSessions(named, {cur})[c].addr = named[c].addr
                BY <3>3, ClearFields
            <4>3. QED
                BY <3>4, <4>1, <4>2
        <3>6. \A c \in Conns \ {cur} : wireJob'[c] = wireJob[c]
            BY <3>4 DEF JobOnWire
        <3>7. /\ clients' \subseteq clients
              /\ \A c \in Conns : conn'[c] \in {"idle", "backlog"} => conn[c] \in {"idle", "backlog"}
            BY <1>5, <3>1 DEF ProcessAddress, ClientRemove
        <3>8. conn[cur] = "open"
            BY <1>5 DEF ProcessAddress, Reading, ListInv, ListCoherent
        <3>9. conn'[cur] \notin {"idle", "backlog"}
            BY <2>1, <3>7, <3>8
        <3>10. QED
            BY <1>0, <2>1, <3>2, <3>3, <3>5, <3>6, <3>7, <3>9, ResultKept
    <2>4. QED
        BY <2>2, <2>3
<1>6. CASE ProcessHashProgress
    <2>1. /\ cur \in Conns /\ call = NoCall
          /\ UNCHANGED <<results, consumed, call, applied, wireJob>>
        BY <1>0, <1>6, ReadingType DEF ProcessHashProgress, Reading
    <2>2. CASE DropCurrent
        BY <2>1, <2>2, ResultDropped
    <2>3. CASE /\ sess' = [sess EXCEPT ![cur].rate = ProgressRate]
               /\ UNCHANGED <<clients, conn, cur>>
        <3>1. \A c \in Conns : sess'[c].addr = sess[c].addr
            BY <1>0, <2>1, <2>3 DEF Sessions
        <3>2. QED
            BY <2>1, <2>3, <3>1, ResultSame
    <2>4. QED
        BY <1>6, <2>2, <2>3 DEF ProcessHashProgress
<1>7. CASE AnswerLocally
    <2>1. /\ cur \in Conns /\ call = NoCall /\ sess[cur].addr # Null /\ cur # Null
          /\ consumed' = [consumed EXCEPT ![cur] = @ + 1]
          /\ UNCHANGED <<call, applied, wireJob>>
        BY <1>0, <1>7, ReadingType DEF AnswerLocally, Reading, Registered
    <2>2. cur \in clients /\ conn[cur] = "open"
        BY <2>1 DEF ListInv, ListCoherent
    <2>3. /\ consumed[cur] = Len(results[cur]) /\ Len(results[cur]) \in Nat
          /\ consumed'[cur] = consumed[cur] + 1
          /\ \A c \in Conns \ {cur} : consumed'[c] = consumed[c]
        <3>1. consumed[cur] = Len(results[cur]) + 0
            BY <2>1, <2>2 DEF ResultInv, OneResultPerSubmit
        <3>2. results[cur] \in Seq(ResultCodes) /\ consumed \in [Conns -> Nat]
            BY <1>0, <2>1 DEF TypeOK
        <3>3. Len(results[cur]) \in Nat
            BY <3>2
        <3>4. QED
            BY <2>1, <3>1, <3>2, <3>3
    <2>4. ASSUME NEW code \in LocalAnswers, SendResult(code), UNCHANGED sess
          PROVE  ResultInv'
        <3>1. code # "OK"
            BY <2>4, NoLocalOK
        <3>2. /\ results' = [results EXCEPT ![cur] = Append(@, SubmitResultCode(code))]
              /\ UNCHANGED <<conn, clients>>
            BY <2>4 DEF SendResult
        <3>3. consumed'[cur] = Len(results[cur]) + 1 /\ call' = NoCall
            BY <2>1, <2>3
        <3>4. QED
            BY <1>0, <2>1, <2>2, <2>3, <2>4, <3>1, <3>2, <3>3, ResultSent
    <2>5. CASE DropCurrent /\ UNCHANGED results
        <3>1. /\ clients' = clients \ {cur}
              /\ \A c \in Conns : conn'[c] \in {"idle", "backlog"} => conn[c] \in {"idle", "backlog"} /\ c # cur
            BY <2>2, <2>5 DEF DropCurrent, ClientRemove
        <3>2. \A c \in Conns : sess'[c].addr = sess[c].addr
            BY <1>0, <2>5, ClearFields DEF DropCurrent
        <3>3. Untouched'
            BY <2>1, <2>3, <2>5, <3>1 DEF ResultInv, Untouched
        <3>4. CallTruthful'
            BY <2>1 DEF CallTruthful
        <3>5. OneResultPerSubmit'
            BY <1>0, <2>1, <2>3, <2>5, <3>1 DEF ResultInv, OneResultPerSubmit
        <3>6. SilentUntilRegistered' /\ AcceptedMeansApplied'
            BY <2>1, <2>5, <3>2 DEF ResultInv, SilentUntilRegistered, AcceptedMeansApplied
        <3>7. QED
            BY <3>3, <3>4, <3>5, <3>6 DEF ResultInv
    <2>6. QED
        BY <1>7, <2>4, <2>5 DEF AnswerLocally
<1>8. CASE ForwardSubmission
    <2>1. /\ cur \in Conns /\ call = NoCall /\ sess[cur].addr # Null /\ cur # Null
          /\ consumed' = [consumed EXCEPT ![cur] = @ + 1]
          /\ call'.addr = sess[cur].addr /\ call'.reply = "PENDING" /\ call' # NoCall
          /\ UNCHANGED <<results, applied, wireJob, sess, clients, conn, cur>>
        BY <1>0, <1>8, ReadingType DEF ForwardSubmission, Reading, Registered, NoCall
    <2>2. cur \in clients /\ conn[cur] = "open"
        BY <2>1 DEF ListInv, ListCoherent
    <2>3. \A c \in Conns : consumed'[c] = consumed[c] + (IF c = cur THEN 1 ELSE 0)
        BY <1>0, <2>1 DEF TypeOK
    <2>4. Untouched'
        BY <2>1, <2>2 DEF ResultInv, Untouched
    <2>5. CallTruthful'
        BY <2>1 DEF CallTruthful
    <2>6. OneResultPerSubmit'
        <3>1. \A c \in clients : c \in Conns /\ results[c] \in Seq(ResultCodes)
            BY <1>0 DEF TypeOK
        <3>2. \A c \in clients : Len(results[c]) \in Nat
            BY <3>1
        <3>3. \A c \in clients : consumed[c] = Len(results[c]) + 0
            BY <2>1 DEF ResultInv, OneResultPerSubmit
        <3>4. ASSUME NEW c \in clients
              PROVE  consumed'[c] = Len(results[c]) + (IF c = cur THEN 1 ELSE 0)
            <4>1. Len(results[c]) \in Nat /\ consumed[c] = Len(results[c])
                BY <3>2, <3>3
            <4>2. consumed'[c] = consumed[c] + (IF c = cur THEN 1 ELSE 0)
                BY <1>0, <2>3
            <4>3. QED
                BY <4>1, <4>2
        <3>5. QED
            BY <2>1, <3>4 DEF OneResultPerSubmit
    <2>7. SilentUntilRegistered' /\ AcceptedMeansApplied'
        BY <2>1 DEF ResultInv, SilentUntilRegistered, AcceptedMeansApplied
    <2>8. QED
        BY <2>4, <2>5, <2>6, <2>7 DEF ResultInv
<1>9. CASE SubmissionReturns
    <2>1. cur \in Conns /\ cur # Null /\ call # NoCall
        BY <1>9, ConstantsAssumption DEF SubmissionReturns, TypeInv, CallShape
    <2>2. cur \in clients /\ conn[cur] = "open"
        BY <2>1 DEF ListInv, ListCoherent
    <2>3. PICK code \in CallOutcomes, dead \in {{}, {cur}} :
              /\ IF dead = {} THEN SendResult(code)
                 ELSE ClientRemove(dead) /\ cur' = Null /\ UNCHANGED results
              /\ \/ sess' = ClearClientJobs(FreedSessions(sess, dead), clients)
                 \/ sess' = FreedSessions(sess, dead)
        BY <1>9 DEF SubmissionReturns
    <2>4. call' = NoCall /\ UNCHANGED <<wireJob, applied, consumed>>
        BY <1>9 DEF SubmissionReturns
    <2>5. \A c \in Conns : sess'[c].addr = sess[c].addr
        <3>1. FreedSessions(sess, dead) \in [Conns -> Sessions]
            BY <1>0, ClearType
        <3>2. \A c \in Conns : FreedSessions(sess, dead)[c].addr = sess[c].addr
            BY <1>0, ClearFields
        <3>3. \A c \in Conns : ClearClientJobs(FreedSessions(sess, dead), clients)[c].addr
                                 = FreedSessions(sess, dead)[c].addr
            BY <3>1, ClearFields
        <3>4. QED
            BY <2>3, <3>2, <3>3
    <2>6. consumed[cur] = Len(results[cur]) + 1
        BY <2>1, <2>2 DEF ResultInv, OneResultPerSubmit
    <2>7. CASE dead = {}
        <3>1. /\ results' = [results EXCEPT ![cur] = Append(@, SubmitResultCode(code))]
              /\ UNCHANGED <<conn, clients>>
            BY <2>3, <2>7 DEF SendResult
        <3>2. code = "OK" => call.reply = "OK"
            BY DEF CallOutcomes
        <3>3. /\ sess[cur].addr # Null
              /\ code = "OK" => \E m \in applied : /\ m.conn = cur /\ m.nth = consumed'[cur]
                                                   /\ m.addr = sess[cur].addr
            BY <2>1, <2>4, <3>2 DEF ResultInv, CallTruthful
        <3>4. consumed'[cur] = Len(results[cur]) + 1
              /\ \A c \in Conns \ {cur} : consumed'[c] = consumed[c]
            BY <2>4, <2>6
        <3>5. QED
            BY <1>0, <2>2, <2>4, <2>5, <3>1, <3>3, <3>4, ResultSent
    <2>8. CASE dead = {cur}
        <3>1. /\ clients' = clients \ {cur} /\ UNCHANGED results
              /\ \A c \in Conns : conn'[c] \in {"idle", "backlog"} => conn[c] \in {"idle", "backlog"}
            BY <2>3, <2>8 DEF ClientRemove
        <3>2. Untouched'
            BY <2>4, <3>1 DEF ResultInv, Untouched
        <3>3. CallTruthful'
            BY <2>4 DEF CallTruthful
        <3>4. OneResultPerSubmit'
            BY <2>1, <2>4, <3>1 DEF ResultInv, OneResultPerSubmit
        <3>5. SilentUntilRegistered' /\ AcceptedMeansApplied'
            BY <2>4, <2>5, <3>1 DEF ResultInv, SilentUntilRegistered, AcceptedMeansApplied
        <3>6. QED
            BY <3>2, <3>3, <3>4, <3>5 DEF ResultInv
    <2>9. QED
        BY <2>7, <2>8
<1>10. CASE ServiceDone \/ TelemetryTick
    BY <1>10, ResultSame DEF ServiceDone, TelemetryTick
<1>11. CASE \E j \in Jobs : RefreshNewWork(j)
    <2>1. call = NoCall /\ UNCHANGED <<results, consumed, call, applied>>
        BY <1>11 DEF RefreshNewWork, TemplateReturns, TypeInv, CallShape
    <2>2. QED
        BY <1>11, <2>1, ResultPending DEF RefreshNewWork
<1>12. CASE RefreshSameWork \/ RefreshUnavailable
    BY <1>12, ResultSame DEF RefreshSameWork, RefreshUnavailable
<1>13. CASE RefreshRefused \/ RefreshTransport
    <2>1. /\ sess' = ClearClientJobs(sess, clients)
          /\ UNCHANGED <<results, consumed, call, applied, wireJob, clients, conn, cur>>
        BY <1>13 DEF RefreshRefused, RefreshTransport
    <2>2. \A c \in Conns : sess'[c].addr = sess[c].addr
        BY <1>0, <2>1, ClearFields
    <2>3. QED
        BY <2>1, <2>2, ResultSame
<1>14. CASE SendPendingJobs
    <2>1. /\ call = NoCall /\ UNCHANGED <<results, consumed, call, applied, cur>>
          /\ activeJob \in Jobs \cup {Null}
        BY <1>0, <1>14 DEF SendPendingJobs, TypeInv, CallShape, TypeOK
    <2>2. CASE SendPending(activeJob)
        BY <2>1, <2>2, ResultPending
    <2>3. CASE UNCHANGED <<conn, clients, sess, wireJob>>
        BY <2>1, <2>3, ResultSame
    <2>4. QED
        BY <1>14, <2>2, <2>3 DEF SendPendingJobs
<1>15. CASE CloseServer
    <2>1. /\ call = NoCall /\ clients' = {}
          /\ sess' = FreedSessions(sess, clients)
          /\ conn' = [c \in Conns |-> IF conn[c] = "idle" THEN "idle" ELSE "closed"]
          /\ UNCHANGED <<results, consumed, call, applied, wireJob, cur>>
        BY <1>15 DEF CloseServer, TypeInv, CallShape
    <2>2. \A c \in Conns : sess'[c].addr = sess[c].addr
        BY <1>0, <2>1, ClearFields
    <2>3. \A c \in Conns : conn'[c] \in {"idle", "backlog"} => conn[c] \in {"idle", "backlog"}
        BY <2>1
    <2>4. QED
        BY <1>0, <2>1, <2>2, <2>3, ResultKept
<1>16. QED
    BY <1>1, <1>2, <1>3, <1>4, <1>5, <1>6, <1>7, <1>8, <1>9, <1>10, <1>11, <1>12,
       <1>13, <1>14, <1>15 DEF ServerStep

(* Miners write to their own sockets; a chain server that answers OK has    *)
(* applied the mutation of the SUBMIT being served.                         *)
LEMMA ResultEnvironment == TypeInv /\ ResultInv /\ Environment => ResultInv'
<1> SUFFICES ASSUME TypeInv, ResultInv, Environment PROVE ResultInv'
    OBVIOUS
<1> USE DEF sockVars, listVars, workVars, chainVars, loopVars, wireVars, envVars
<1>1. CASE ChainHandles
    <2>1. PICK code \in SubmitReplies :
              /\ call' = [call EXCEPT !.reply = code]
              /\ applied' = IF code = "OK" THEN applied \cup {Mutation} ELSE applied
        BY <1>1 DEF ChainHandles
    <2>2. /\ call # NoCall /\ call \in Calls /\ call.kind \in {"SHARE", "WORK"}
          /\ UNCHANGED <<conn, results, wireJob, clients, sess, consumed, cur>>
        BY <1>1 DEF ChainHandles, TypeInv, TypeOK, CallShape
    <2>3. call'.addr = call.addr /\ call'.reply = code /\ call'.kind = call.kind
        BY <2>1, <2>2 DEF Calls
    <2>4. call' # NoCall
        BY <2>2, <2>3 DEF NoCall
    <2>5. CallTruthful'
        <3>1. code = "OK" => \E m \in applied' : /\ m.conn = cur /\ m.nth = consumed[cur]
                                                 /\ m.addr = call.addr
            <4>1. /\ Mutation.conn = cur /\ Mutation.nth = consumed[cur]
                  /\ Mutation.addr = call.addr
                BY DEF Mutation
            <4>2. code = "OK" => Mutation \in applied'
                BY <2>1
            <4>3. QED
                BY <4>1, <4>2
        <3>2. QED
            BY <2>2, <2>3, <2>4, <3>1 DEF ResultInv, CallTruthful
    <2>6. applied \subseteq applied'
        BY <2>1
    <2>7. AcceptedMeansApplied'
        BY <2>2, <2>6 DEF ResultInv, AcceptedMeansApplied
    <2>8. Untouched' /\ SilentUntilRegistered'
        BY <2>2 DEF ResultInv, Untouched, SilentUntilRegistered
    <2>9. OneResultPerSubmit'
        BY <2>2, <2>4 DEF ResultInv, OneResultPerSubmit
    <2>10. QED
        BY <2>5, <2>7, <2>8, <2>9 DEF ResultInv
<1>2. ASSUME NEW m \in late, ChainHandlesLate(m) PROVE ResultInv'
    <2>1. /\ UNCHANGED <<conn, results, wireJob, clients, sess, consumed, cur, call>>
          /\ applied \subseteq applied'
        BY <1>2 DEF ChainHandlesLate
    <2>2. CallTruthful'
        BY <2>1 DEF ResultInv, CallTruthful
    <2>3. AcceptedMeansApplied'
        BY <2>1 DEF ResultInv, AcceptedMeansApplied
    <2>4. QED
        BY <2>1, <2>2, <2>3 DEF ResultInv, Untouched, SilentUntilRegistered, OneResultPerSubmit
<1>3. CASE ~ChainHandles /\ ~\E m \in late : ChainHandlesLate(m)
    <2>1. /\ UNCHANGED <<results, consumed, call, applied, wireJob, clients, sess, cur>>
          /\ \A c \in Conns : conn'[c] \in {"idle", "backlog"} => conn[c] \in {"idle", "backlog"}
        BY <1>3 DEF Environment, MinerConnect, MinerClose, MinerSend, ChainFlips, Stop,
                    TypeInv, TypeOK
    <2>2. QED
        BY <2>1, ResultSame
<1>4. QED
    BY <1>1, <1>2, <1>3

(* Nothing has been sent at the start.                                      *)
LEMMA ResultInit == Init => ResultInv
<1> SUFFICES ASSUME Init PROVE ResultInv
    OBVIOUS
<1>1. Untouched /\ CallTruthful /\ OneResultPerSubmit /\ SilentUntilRegistered
    BY DEF Init, Untouched, CallTruthful, OneResultPerSubmit, SilentUntilRegistered
<1>2. \A c \in Conns : 1 .. Len(results[c]) = {}
    BY DEF Init
<1>3. QED
    BY <1>1, <1>2 DEF ResultInv, AcceptedMeansApplied

(* The result invariant is inductive, given the types and the list.         *)
LEMMA ResultStep == TypeInv /\ ListInv /\ ResultInv /\ [Next]_vars => ResultInv'
<1>1. TypeInv /\ ResultInv /\ UNCHANGED vars => ResultInv'
    BY ResultSame DEF vars
<1>2. QED
    BY <1>1, ResultServerStep, ResultEnvironment DEF Next, Terminated

(* The n-th RESULT of a connection is ACCEPTED only if a chain server has   *)
(* applied the mutation made of the n-th SUBMIT of that connection, to the  *)
(* credit of the address it registered; whatever is lost, however miners    *)
(* interleave, for any number of miners, servers and frames.                *)
THEOREM AcceptedIsTrue == Spec => []AcceptedMeansApplied
<1>1. ResultInv => AcceptedMeansApplied
    BY DEF ResultInv
<1>2. QED
    BY <1>1, ResultInit, ResultStep, ListInit, ListStep, TypeInit, TypeStep, PTL DEF Spec

(* Every SUBMIT taken from a session that is still connected has got its    *)
(* one RESULT, apart from the one the loop is blocked in.                   *)
THEOREM EverySubmitAnswered == Spec => []OneResultPerSubmit
<1>1. ResultInv => OneResultPerSubmit
    BY DEF ResultInv
<1>2. QED
    BY <1>1, ResultInit, ResultStep, ListInit, ListStep, TypeInit, TypeStep, PTL DEF Spec

(* No JOB and no RESULT is written to a connection before it has registered *)
(* an address.                                                              *)
THEOREM SilenceBeforeAddress == Spec => []SilentUntilRegistered
<1>1. ResultInv => SilentUntilRegistered
    BY DEF ResultInv
<1>2. QED
    BY <1>1, ResultInit, ResultStep, ListInit, ListStep, TypeInit, TypeStep, PTL DEF Spec

=============================================================================
