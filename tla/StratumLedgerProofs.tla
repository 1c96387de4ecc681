------------------------- MODULE StratumLedgerProofs -------------------------
(***************************************************************************)
(* StratumServer implements SubmitLedger: what a miner reads in a RESULT   *)
(* stays true of its submission, also when the call timed out and a chain  *)
(* server acts on it long afterwards.                                      *)
(***************************************************************************)
EXTENDS StratumWorkProofs

(* SUBMITs of c that are done with: one whose call is in flight has been    *)
(* consumed but is still in the buffer.                                     *)
Served(c) == consumed[c] - (IF call # NoCall /\ cur = c THEN 1 ELSE 0)

(* The bound on SUBMIT frames, which MinerSend applies when a frame is      *)
(* sent, holds for what is consumed and for what still waits.               *)
Fits(q, n) ==
    \A i \in 1 .. Len(q) : q[i].type = "SUBMIT" => n + i <= MaxSubmits

Budget ==
    \A c \in Conns : consumed[c] <= MaxSubmits /\ Fits(inbox[c], Served(c))

Of(m, c, n) == m.conn = c /\ m.nth = n

(* Every mutation a chain server has applied or may still apply belongs to  *)
(* one consumed SUBMIT, and to no other one. While it is undecided it is    *)
(* not applied, and its SUBMIT has not been answered or was answered with a *)
(* code that promises nothing.                                              *)
Numbered ==
    \A m \in applied \cup late : m.nth \in 1 .. consumed[m.conn]

LateApart ==
    /\ \A m \in late, x \in applied : ~Of(m, x.conn, x.nth)
    /\ \A m, x \in late : Of(m, x.conn, x.nth) => m = x

CallOpen ==
    call # NoCall =>
        /\ \A m \in late : ~Of(m, cur, consumed[cur])
        /\ call.reply # "OK" => \A m \in applied : ~Of(m, cur, consumed[cur])

AnswersHold ==
    /\ \A m \in late : m.nth <= Len(results[m.conn]) =>
           results[m.conn][m.nth] \in {"PROVIDER", "PROTOCOL"}
    /\ \A m \in applied : m.nth <= Len(results[m.conn]) =>
           results[m.conn][m.nth] \notin {"REJECTED", "STALE"}

FateInv == Numbered /\ LateApart /\ CallOpen /\ AnswersHold

-----------------------------------------------------------------------------
(* The steps that take no part in a submission.                             *)

(* What any other step may do to the frames waiting on a socket.            *)
InboxMoves(c) ==
    \/ inbox'[c] = inbox[c]
    \/ inbox'[c] = <<>>
    \/ inbox[c] # <<>> /\ inbox'[c] = Tail(inbox[c])
    \/ \E f \in Frames : /\ inbox'[c] = Append(inbox[c], f)
                         /\ f.type = "SUBMIT" => consumed[c] + Len(inbox[c]) < MaxSubmits

Quiet ==
    /\ UNCHANGED <<results, consumed, applied, late, call>>
    /\ call # NoCall => cur' = cur
    /\ \A c \in Conns : InboxMoves(c)

(* Every step takes part in a submission or is quiet.                       *)
LEMMA StepKinds ==
    ASSUME TypeInv, [Next]_vars
    PROVE  \/ AnswerLocally \/ ForwardSubmission \/ SubmissionReturns
           \/ ChainHandles \/ (\E m \in late : ChainHandlesLate(m))
           \/ Quiet
<1> USE DEF sockVars, listVars, workVars, chainVars, loopVars, wireVars, envVars
<1>0. /\ inbox \in [Conns -> Seq(Frames)]
      /\ call # NoCall => pc = "service" /\ cur \in Conns
    BY DEF TypeInv, TypeOK, CallShape
<1>1. CASE AcceptClients
    BY <1>0, <1>1 DEF AcceptClients, Quiet, InboxMoves
<1>2. CASE \E c \in Conns : ServiceNext(c)
    BY <1>0, <1>2, ConstantsAssumption DEF ServiceNext, Quiet, InboxMoves
<1>3. CASE ServiceIdle \/ ServiceDone \/ TelemetryTick \/ RefreshSameWork
           \/ RefreshUnavailable \/ RefreshRefused \/ RefreshTransport \/ Terminated
           \/ UNCHANGED vars
    BY <1>0, <1>3 DEF ServiceIdle, ServiceDone, TelemetryTick, RefreshSameWork,
       RefreshUnavailable, RefreshRefused, RefreshTransport, Terminated, vars, Quiet, InboxMoves
<1>4. CASE ServiceEof \/ InvalidHeader \/ SubmitBeforeAddress
    BY <1>0, <1>4 DEF ServiceEof, InvalidHeader, SubmitBeforeAddress, Reading, DropCurrent,
       ClientRemove, Quiet, InboxMoves
<1>5. CASE ProcessAddress \/ ProcessHashProgress
    <2>1. /\ call = NoCall /\ inbox[cur] # <<>>
          /\ UNCHANGED <<results, consumed, applied, late, call>>
        BY <1>5 DEF ProcessAddress, ProcessHashProgress, Reading
    <2>2. FrameDone \/ ClientRemove({cur})
        BY <1>5 DEF ProcessAddress, ProcessHashProgress, DropCurrent
    <2>3. \A c \in Conns : InboxMoves(c)
        BY <1>0, <2>1, <2>2 DEF FrameDone, ClientRemove, InboxMoves
    <2>4. QED
        BY <2>1, <2>3 DEF Quiet
<1>6. CASE (\E j \in Jobs : RefreshNewWork(j)) \/ SendPendingJobs \/ CloseServer
    <2>1. /\ call = NoCall
          /\ UNCHANGED <<results, consumed, applied, late, call>>
        BY <1>0, <1>6 DEF RefreshNewWork, TemplateReturns, SendPendingJobs, CloseServer
    <2>2. \A c \in Conns : inbox'[c] = inbox[c] \/ inbox'[c] = <<>>
        BY <1>6 DEF RefreshNewWork, SendPendingJobs, SendPending, ClientRemove, CloseServer
    <2>3. QED
        BY <2>1, <2>2 DEF Quiet, InboxMoves
<1>7. CASE \E c \in Conns : MinerConnect(c) \/ MinerClose(c)
    BY <1>7 DEF MinerConnect, MinerClose, Quiet, InboxMoves
<1>8. CASE (\E s \in Flaky : ChainFlips(s)) \/ Stop
    BY <1>8 DEF ChainFlips, Stop, Quiet, InboxMoves
<1>9. ASSUME NEW d \in Conns, NEW f \in FrameMenu, MinerSend(d, f) PROVE Quiet
    <2>1. f \in Frames /\ (f.type = "SUBMIT" => consumed[d] + Len(inbox[d]) < MaxSubmits)
        BY <1>9, ConstantsAssumption DEF MinerSend
    <2>2. /\ inbox'[d] = Append(inbox[d], f)
          /\ \A c \in Conns \ {d} : inbox'[c] = inbox[c]
        BY <1>0, <1>9 DEF MinerSend
    <2>3. \A c \in Conns : InboxMoves(c)
        BY <2>1, <2>2 DEF InboxMoves
    <2>4. QED
        BY <1>9, <2>3 DEF MinerSend, Quiet
<1>10. QED
    BY <1>1, <1>2, <1>3, <1>4, <1>5, <1>6, <1>7, <1>8, <1>9
    DEF Next, ServerStep, Environment

-----------------------------------------------------------------------------
(* The bound on SUBMIT frames.                                              *)

(* What taking the first frame and adding one do to the bound.              *)
LEMMA FitsMoves ==
    ASSUME NEW q \in Seq(Frames), NEW n \in Int, Fits(q, n), MaxSubmits \in Nat
    PROVE  /\ \A k : Fits(<<>>, k)
           /\ q # <<>> => Fits(Tail(q), n + 1) /\ Fits(Tail(q), n)
           /\ q # <<>> /\ Head(q).type = "SUBMIT" => n + 1 <= MaxSubmits
           /\ \A f : (f.type = "SUBMIT" => n + Len(q) < MaxSubmits) => Fits(Append(q, f), n)
<1>1. \A k : Fits(<<>>, k)
    BY DEF Fits
<1>2. ASSUME q # <<>> PROVE Fits(Tail(q), n + 1) /\ Fits(Tail(q), n)
    <2>1. /\ Len(q) \in Nat /\ Len(Tail(q)) = Len(q) - 1
          /\ \A i \in 1 .. Len(Tail(q)) : Tail(q)[i] = q[i + 1] /\ i + 1 \in 1 .. Len(q)
        BY <1>2
    <2>2. QED
        BY <2>1 DEF Fits
<1>3. ASSUME q # <<>>, Head(q).type = "SUBMIT" PROVE n + 1 <= MaxSubmits
    <2>1. 1 \in 1 .. Len(q) /\ Head(q) = q[1]
        BY <1>3
    <2>2. QED
        BY <1>3, <2>1 DEF Fits
<1>4. ASSUME NEW f, f.type = "SUBMIT" => n + Len(q) < MaxSubmits
      PROVE  Fits(Append(q, f), n)
    <2>1. /\ Len(q) \in Nat /\ Len(Append(q, f)) = Len(q) + 1
          /\ \A i \in 1 .. Len(q) : Append(q, f)[i] = q[i]
          /\ Append(q, f)[Len(q) + 1] = f
        OBVIOUS
    <2>2. QED
        BY <1>4, <2>1 DEF Fits
<1>5. QED
    BY <1>1, <1>2, <1>3, <1>4

(* A SUBMIT in flight is the first one its miner has no RESULT for.         *)
LEMMA CallFacts ==
    ASSUME TypeInv, ListInv, ResultInv, call # NoCall
    PROVE  /\ cur \in Conns /\ cur # Null /\ inbox[cur] # <<>>
           /\ Len(results[cur]) \in Nat /\ consumed[cur] = Len(results[cur]) + 1
<1>1. cur \in Conns /\ cur # Null /\ inbox[cur] # <<>>
    BY ConstantsAssumption DEF TypeInv, CallShape
<1>2. cur \in clients
    BY <1>1 DEF ListInv, ListCoherent
<1>3. results[cur] \in Seq(ResultCodes)
    BY <1>1 DEF TypeInv, TypeOK
<1>4. Len(results[cur]) \in Nat
    BY <1>3
<1>5. consumed[cur] = Len(results[cur]) + 1
    BY <1>2 DEF ResultInv, OneResultPerSubmit
<1>6. QED
    BY <1>1, <1>4, <1>5

(* When a frame is dispatched every earlier SUBMIT has its RESULT.          *)
LEMMA ReadFacts ==
    ASSUME TypeInv, ListInv, ResultInv, NEW type, Reading(type)
    PROVE  /\ cur \in Conns /\ call = NoCall /\ inbox[cur] # <<>>
           /\ Head(inbox[cur]).type = type
           /\ Len(results[cur]) \in Nat /\ consumed[cur] = Len(results[cur])
<1>1. cur \in Conns /\ call = NoCall /\ inbox[cur] # <<>> /\ Head(inbox[cur]).type = type
    BY DEF TypeInv, TypeOK, Reading
<1>2. cur \in clients
    BY <1>1 DEF ListInv, ListCoherent, Reading
<1>3. results[cur] \in Seq(ResultCodes)
    BY <1>1 DEF TypeInv, TypeOK
<1>4. consumed[cur] = Len(results[cur]) + 0
    BY <1>1, <1>2 DEF ResultInv, OneResultPerSubmit
<1>5. QED
    BY <1>1, <1>3, <1>4

(* A SUBMIT that is done with leaves the buffer, with its socket or alone.  *)
LEMMA BudgetDone ==
    ASSUME TypeInv, Budget, cur \in Conns, inbox[cur] # <<>>, call' = NoCall,
           FrameDone \/ ClientRemove({cur}),
           consumed'[cur] = Served(cur) + 1, consumed'[cur] <= MaxSubmits,
           \A c \in Conns \ {cur} : consumed'[c] = consumed[c]
    PROVE  Budget'
<1>1. /\ inbox \in [Conns -> Seq(Frames)] /\ consumed \in [Conns -> Nat]
      /\ MaxSubmits \in Nat
    BY ConstantsAssumption DEF TypeInv, TypeOK
<1>2. ASSUME NEW c \in Conns PROVE consumed'[c] <= MaxSubmits /\ Fits(inbox'[c], Served(c)')
    <2>1. /\ inbox[c] \in Seq(Frames) /\ Served(c) \in Int /\ Fits(inbox[c], Served(c))
          /\ consumed[c] <= MaxSubmits /\ consumed[c] \in Nat
        BY <1>1 DEF Budget, Served
    <2>2. CASE c = cur
        <3>1. Served(c)' = Served(c) + 1
            BY <2>1, <2>2 DEF Served
        <3>2. inbox'[c] = Tail(inbox[c]) \/ inbox'[c] = <<>>
            BY <1>1, <2>2 DEF FrameDone, ClientRemove
        <3>3. QED
            BY <1>1, <2>1, <2>2, <3>1, <3>2, FitsMoves
    <2>3. CASE c # cur
        <3>1. Served(c)' = consumed[c] /\ Served(c) = consumed[c]
            BY <2>1, <2>3 DEF Served
        <3>2. inbox'[c] = inbox[c]
            BY <1>1, <2>3 DEF FrameDone, ClientRemove
        <3>3. QED
            BY <2>1, <2>3, <3>1, <3>2
    <2>4. QED
        BY <2>2, <2>3
<1>3. QED
    BY <1>2 DEF Budget

(* The bound is kept.                                                       *)
LEMMA BudgetStep ==
    ASSUME TypeInv, ListInv, ResultInv, Budget, [Next]_vars
    PROVE  Budget'
<1> USE DEF sockVars, listVars, workVars, chainVars, loopVars, wireVars, envVars
<1>0. /\ inbox \in [Conns -> Seq(Frames)] /\ consumed \in [Conns -> Nat]
      /\ MaxSubmits \in Nat
    BY ConstantsAssumption DEF TypeInv, TypeOK
<1>1. CASE Quiet
    <2>1. ASSUME NEW c \in Conns PROVE consumed'[c] <= MaxSubmits /\ Fits(inbox'[c], Served(c)')
        <3>1. /\ inbox[c] \in Seq(Frames) /\ Served(c) \in Int /\ Fits(inbox[c], Served(c))
              /\ consumed[c] <= MaxSubmits /\ consumed[c] \in Nat /\ Served(c) <= consumed[c]
            BY <1>0 DEF Budget, Served
        <3>2. consumed'[c] = consumed[c] /\ Served(c)' = Served(c)
            BY <1>1 DEF Quiet, Served
        <3>3. CASE inbox'[c] = inbox[c] \/ inbox'[c] = <<>>
            BY <1>0, <3>1, <3>2, <3>3, FitsMoves
        <3>4. CASE inbox[c] # <<>> /\ inbox'[c] = Tail(inbox[c])
            BY <1>0, <3>1, <3>2, <3>4, FitsMoves
        <3>5. ASSUME NEW f \in Frames, inbox'[c] = Append(inbox[c], f),
                     f.type = "SUBMIT" => consumed[c] + Len(inbox[c]) < MaxSubmits
              PROVE  Fits(inbox'[c], Served(c)')
            <4>1. Len(inbox[c]) \in Nat
                BY <3>1
            <4>2. f.type = "SUBMIT" => Served(c) + Len(inbox[c]) < MaxSubmits
                BY <1>0, <3>1, <3>5, <4>1
            <4>3. QED
                BY <1>0, <3>1, <3>2, <3>5, <4>2, FitsMoves
        <3>6. QED
            BY <1>1, <3>1, <3>2, <3>3, <3>4, <3>5 DEF Quiet, InboxMoves
    <2>2. QED
        BY <2>1 DEF Budget
<1>2. CASE AnswerLocally \/ ForwardSubmission
    <2>1. /\ cur \in Conns /\ call = NoCall /\ inbox[cur] # <<>>
          /\ Head(inbox[cur]).type = "SUBMIT"
        BY <1>2, ReadFacts DEF AnswerLocally, ForwardSubmission
    <2>2. Served(cur) = consumed[cur] /\ Served(cur) \in Nat /\ inbox[cur] \in Seq(Frames)
        BY <1>0, <2>1 DEF Served
    <2>3. Served(cur) + 1 <= MaxSubmits
        BY <1>0, <2>1, <2>2, FitsMoves DEF Budget
    <2>4. /\ consumed'[cur] = Served(cur) + 1
          /\ \A c \in Conns \ {cur} : consumed'[c] = consumed[c]
        BY <1>0, <1>2, <2>1, <2>2 DEF AnswerLocally, ForwardSubmission
    <2>5. CASE AnswerLocally
        BY <2>1, <2>3, <2>4, <2>5, BudgetDone DEF AnswerLocally, SendResult, DropCurrent
    <2>6. CASE ForwardSubmission
        <3>1. call' # NoCall /\ UNCHANGED <<cur, inbox>>
            BY <2>6 DEF ForwardSubmission, NoCall
        <3>2. \A c \in Conns : Served(c)' = Served(c)
            BY <1>0, <2>1, <2>2, <2>4, <3>1 DEF Served
        <3>3. QED
            BY <2>3, <2>4, <3>1, <3>2 DEF Budget
    <2>7. QED
        BY <1>2, <2>5, <2>6
<1>3. CASE SubmissionReturns
    <2>1. call # NoCall /\ call' = NoCall /\ UNCHANGED consumed
        BY <1>3 DEF SubmissionReturns
    <2>2. FrameDone \/ ClientRemove({cur})
        BY <1>3 DEF SubmissionReturns, SendResult
    <2>3. cur \in Conns /\ inbox[cur] # <<>>
        BY <2>1, CallFacts
    <2>4. consumed'[cur] = Served(cur) + 1 /\ consumed'[cur] <= MaxSubmits
        BY <1>0, <2>1, <2>3 DEF Served, Budget
    <2>5. QED
        BY <2>1, <2>2, <2>3, <2>4, BudgetDone
<1>4. CASE ChainHandles \/ \E m \in late : ChainHandlesLate(m)
    <2>1. /\ UNCHANGED <<inbox, consumed, cur>>
          /\ call' = NoCall <=> call = NoCall
        <3>1. CASE ChainHandles
            <4>1. call # NoCall /\ call.kind \in {"SHARE", "WORK"} /\ call \in Calls
                BY <3>1 DEF ChainHandles, TypeInv, CallShape, TypeOK
            <4>2. call'.kind = call.kind
                BY <3>1, <4>1 DEF ChainHandles, Calls
            <4>3. QED
                BY <3>1, <4>1, <4>2 DEF ChainHandles, NoCall
        <3>2. CASE \E m \in late : ChainHandlesLate(m)
            BY <3>2 DEF ChainHandlesLate
        <3>3. QED
            BY <1>4, <3>1, <3>2
    <2>2. \A c \in Conns : Served(c)' = Served(c)
        BY <2>1 DEF Served
    <2>3. QED
        BY <2>1, <2>2 DEF Budget
<1>5. QED
    BY <1>1, <1>2, <1>3, <1>4, StepKinds

-----------------------------------------------------------------------------
(* The fate of mutations.                                                   *)

(* A RESULT sent to the current session is added to the ones it has.        *)
LEMMA Appended ==
    ASSUME TypeInv, cur \in Conns, NEW r \in ResultCodes,
           results' = [results EXCEPT ![cur] = Append(@, r)]
    PROVE  /\ Len(results[cur]) \in Nat
           /\ Len(results'[cur]) = Len(results[cur]) + 1
           /\ \A n \in 1 .. Len(results[cur]) : results'[cur][n] = results[cur][n]
           /\ results'[cur][Len(results[cur]) + 1] = r
           /\ \A c \in Conns \ {cur} : results'[c] = results[c]
<1>1. results \in [Conns -> Seq(ResultCodes)] /\ results[cur] \in Seq(ResultCodes)
    BY DEF TypeInv, TypeOK
<1>2. /\ results'[cur] = Append(results[cur], r)
      /\ \A c \in Conns \ {cur} : results'[c] = results[c]
    BY <1>1
<1>3. /\ Len(results[cur]) \in Nat
      /\ Len(Append(results[cur], r)) = Len(results[cur]) + 1
      /\ \A n \in 1 .. Len(results[cur]) : Append(results[cur], r)[n] = results[cur][n]
      /\ Append(results[cur], r)[Len(results[cur]) + 1] = r
    BY <1>1
<1>4. QED
    BY <1>2, <1>3

(* A RESULT whose code does not contradict the fate of its own SUBMIT       *)
(* disturbs none of the earlier answers either.                             *)
LEMMA AnswerAdded ==
    ASSUME TypeInv, Numbered, AnswersHold, cur \in Conns, NEW r \in ResultCodes,
           results' = [results EXCEPT ![cur] = Append(@, r)],
           applied' = applied,
           \A m \in late' : m \in late \/ Of(m, cur, Len(results[cur]) + 1),
           \A m \in late' : Of(m, cur, Len(results[cur]) + 1) => r \in {"PROVIDER", "PROTOCOL"},
           \A m \in applied : Of(m, cur, Len(results[cur]) + 1) => r \notin {"REJECTED", "STALE"}
    PROVE  AnswersHold'
<1>1. /\ Len(results[cur]) \in Nat
      /\ Len(results'[cur]) = Len(results[cur]) + 1
      /\ \A n \in 1 .. Len(results[cur]) : results'[cur][n] = results[cur][n]
      /\ results'[cur][Len(results[cur]) + 1] = r
      /\ \A c \in Conns \ {cur} : results'[c] = results[c]
    BY Appended
<1>2. \A m \in applied \cup late : m.conn \in Conns /\ m.nth \in Nat \ {0}
    BY DEF TypeInv, TypeOK, Mutations, Numbered
<1>3. ASSUME NEW m, m.conn \in Conns, m.nth \in Nat \ {0}, m.nth <= Len(results'[m.conn]),
             ~Of(m, cur, Len(results[cur]) + 1)
      PROVE  m.nth <= Len(results[m.conn]) /\ results'[m.conn][m.nth] = results[m.conn][m.nth]
    <2>1. CASE m.conn # cur
        BY <1>1, <1>3, <2>1
    <2>2. CASE m.conn = cur
        <3>1. m.nth \in 1 .. Len(results[cur])
            BY <1>1, <1>3, <2>2 DEF Of
        <3>2. QED
            BY <1>1, <2>2, <3>1
    <2>3. QED
        BY <2>1, <2>2
<1>4. ASSUME NEW m \in late', m.nth <= Len(results'[m.conn])
      PROVE  results'[m.conn][m.nth] \in {"PROVIDER", "PROTOCOL"}
    <2>1. CASE Of(m, cur, Len(results[cur]) + 1)
        BY <1>1, <1>4, <2>1 DEF Of
    <2>2. CASE ~Of(m, cur, Len(results[cur]) + 1)
        BY <1>2, <1>3, <1>4, <2>2 DEF AnswersHold
    <2>3. QED
        BY <2>1, <2>2
<1>5. ASSUME NEW m \in applied, m.nth <= Len(results'[m.conn])
      PROVE  results'[m.conn][m.nth] \notin {"REJECTED", "STALE"}
    <2>1. CASE Of(m, cur, Len(results[cur]) + 1)
        BY <1>1, <1>5, <2>1 DEF Of
    <2>2. CASE ~Of(m, cur, Len(results[cur]) + 1)
        BY <1>2, <1>3, <1>5, <2>2 DEF AnswersHold
    <2>3. QED
        BY <2>1, <2>2
<1>6. QED
    BY <1>4, <1>5 DEF AnswersHold

(* SubmitResultCode promises something only for the answers of a chain that *)
(* handled the call, OK, STALE and REJECTED.                                *)
LEMMA PromisingCodes ==
    \A code : /\ SubmitResultCode(code) \in ResultCodes
              /\ SubmitResultCode(code) = "ACCEPTED" => code = "OK"
              /\ SubmitResultCode(code) \in {"REJECTED", "STALE"} => code \in {"REJECTED", "STALE"}
              /\ code = "TRANSPORT" => SubmitResultCode(code) = "PROVIDER"
BY DEF SubmitResultCode, ResultCodes

(* What a call that returns says of the mutation it was about.              *)
LEMMA OutcomeFacts ==
    ASSUME NEW code \in CallOutcomes
    PROVE  /\ code \in {"OK", "REJECTED", "STALE"} => call.reply = code
           /\ call.reply = "PENDING" => code \notin {"OK", "REJECTED", "STALE"}
BY DEF CallOutcomes

(* The fates stay consistent.                                               *)
LEMMA FateStep ==
    ASSUME TypeInv, ListInv, ResultInv, FateInv, [Next]_vars
    PROVE  FateInv'
<1> USE DEF sockVars, listVars, workVars, chainVars, loopVars, wireVars, envVars
<1>0. /\ consumed \in [Conns -> Nat]
      /\ \A m \in applied \cup late : m.conn \in Conns /\ m.nth \in Nat
                                     /\ m.nth \in 1 .. consumed[m.conn]
    BY DEF TypeInv, TypeOK, Mutations, FateInv, Numbered
<1>1. CASE Quiet
    BY <1>1 DEF Quiet, FateInv, Numbered, LateApart, CallOpen, AnswersHold, Of
<1>2. CASE AnswerLocally \/ ForwardSubmission
    <2>1. /\ cur \in Conns /\ call = NoCall
          /\ Len(results[cur]) \in Nat /\ consumed[cur] = Len(results[cur])
        BY <1>2, ReadFacts DEF AnswerLocally, ForwardSubmission
    <2>2. /\ consumed'[cur] = consumed[cur] + 1
          /\ \A c \in Conns \ {cur} : consumed'[c] = consumed[c]
          /\ UNCHANGED <<applied, late>>
        BY <1>0, <1>2, <2>1 DEF AnswerLocally, ForwardSubmission
    <2>3. \A m \in applied \cup late : ~Of(m, cur, consumed[cur] + 1)
        BY <1>0, <2>1 DEF Of
    <2>4. Numbered' /\ LateApart'
        <3>1. ASSUME NEW m \in applied \cup late PROVE m.nth \in 1 .. consumed'[m.conn]
            BY <1>0, <2>1, <2>2
        <3>2. QED
            BY <2>2, <3>1 DEF FateInv, Numbered, LateApart, Of
    <2>5. CallOpen' /\ AnswersHold'
        <3>1. CASE ForwardSubmission
            <4>1. UNCHANGED <<cur, results>>
                BY <3>1 DEF ForwardSubmission
            <4>2. QED
                BY <2>2, <2>3, <4>1 DEF FateInv, CallOpen, AnswersHold
        <3>2. CASE AnswerLocally
            <4>1. call' = NoCall
                BY <2>1, <3>2 DEF AnswerLocally
            <4>2. CASE UNCHANGED results
                BY <2>2, <4>1, <4>2 DEF FateInv, CallOpen, AnswersHold
            <4>3. ASSUME NEW code, SendResult(code) PROVE AnswersHold'
                <5>1. SubmitResultCode(code) \in ResultCodes
                    BY PromisingCodes
                <5>2. results' = [results EXCEPT ![cur] = Append(@, SubmitResultCode(code))]
                    BY <4>3 DEF SendResult
                <5>3. QED
                    BY <2>1, <2>2, <2>3, <5>1, <5>2, AnswerAdded DEF FateInv
            <4>4. QED
                BY <3>2, <4>1, <4>2, <4>3 DEF AnswerLocally, CallOpen
        <3>3. QED
            BY <1>2, <3>1, <3>2
    <2>6. QED
        BY <2>4, <2>5 DEF FateInv
<1>3. CASE SubmissionReturns
    <2>1. PICK code \in CallOutcomes, dead \in {{}, {cur}} :
              /\ IF dead = {} THEN SendResult(code) ELSE UNCHANGED results
              /\ late' = IF code = "TRANSPORT" /\ call.reply = "PENDING"
                         THEN late \cup {Mutation} ELSE late
        BY <1>3 DEF SubmissionReturns
    <2>2. call # NoCall /\ call' = NoCall /\ UNCHANGED <<applied, consumed>>
        BY <1>3 DEF SubmissionReturns
    <2>3. /\ cur \in Conns /\ Len(results[cur]) \in Nat
          /\ consumed[cur] = Len(results[cur]) + 1
        BY <2>2, CallFacts
    <2>4. /\ Of(Mutation, cur, consumed[cur])
          /\ \A m \in late : ~Of(m, cur, consumed[cur])
          /\ call.reply # "OK" => \A m \in applied : ~Of(m, cur, consumed[cur])
        BY <2>2 DEF FateInv, CallOpen, Of, Mutation
    <2>5. \A m \in late' : \/ m \in late
                          \/ /\ m = Mutation /\ Of(m, cur, consumed[cur])
                             /\ code = "TRANSPORT" /\ call.reply = "PENDING"
        BY <2>1, <2>4
    <2>6. Numbered'
        <3>1. consumed[cur] \in 1 .. consumed[cur]
            BY <2>3
        <3>2. QED
            BY <2>2, <2>5, <3>1 DEF FateInv, Numbered, Of
    <2>7. LateApart'
        BY <2>2, <2>4, <2>5 DEF FateInv, LateApart, Of
    <2>8. CallOpen'
        BY <2>2 DEF CallOpen
    <2>9. AnswersHold'
        <3>1. CASE UNCHANGED results
            BY <2>2, <2>3, <2>5, <3>1 DEF FateInv, AnswersHold, Of
        <3>2. CASE SendResult(code)
            <4>1. /\ results' = [results EXCEPT ![cur] = Append(@, SubmitResultCode(code))]
                  /\ SubmitResultCode(code) \in ResultCodes
                BY <3>2, PromisingCodes DEF SendResult
            <4>2. \A m \in late' : Of(m, cur, Len(results[cur]) + 1) =>
                      SubmitResultCode(code) \in {"PROVIDER", "PROTOCOL"}
                BY <2>3, <2>4, <2>5, PromisingCodes
            <4>3. \A m \in applied : Of(m, cur, Len(results[cur]) + 1) =>
                      SubmitResultCode(code) \notin {"REJECTED", "STALE"}
                <5>1. SubmitResultCode(code) \in {"REJECTED", "STALE"} => call.reply # "OK"
                    BY PromisingCodes, OutcomeFacts
                <5>2. QED
                    BY <2>3, <2>4, <5>1
            <4>4. \A m \in late' : m \in late \/ Of(m, cur, Len(results[cur]) + 1)
                BY <2>3, <2>5
            <4>5. QED
                BY <2>2, <2>3, <4>1, <4>2, <4>3, <4>4, AnswerAdded DEF FateInv
        <3>3. QED
            BY <2>1, <3>1, <3>2
    <2>10. QED
        BY <2>6, <2>7, <2>8, <2>9 DEF FateInv
<1>4. CASE ChainHandles
    <2>1. PICK code \in SubmitReplies :
              /\ call' = [call EXCEPT !.reply = code]
              /\ applied' = IF code = "OK" THEN applied \cup {Mutation} ELSE applied
        BY <1>4 DEF ChainHandles
    <2>2. /\ call # NoCall /\ call.reply = "PENDING" /\ call \in Calls
          /\ UNCHANGED <<results, consumed, late, cur>>
        BY <1>4 DEF ChainHandles, TypeInv, TypeOK
    <2>3. /\ cur \in Conns /\ Len(results[cur]) \in Nat
          /\ consumed[cur] = Len(results[cur]) + 1
        BY <2>2, CallFacts
    <2>4. /\ Of(Mutation, cur, consumed[cur])
          /\ \A m \in late : ~Of(m, cur, consumed[cur])
          /\ \A m \in applied : ~Of(m, cur, consumed[cur])
        BY <2>2 DEF FateInv, CallOpen, Of, Mutation
    <2>5. call'.reply = code
        BY <2>1, <2>2 DEF Calls
    <2>6. \A m \in applied' : m \in applied \/ (Of(m, cur, consumed[cur]) /\ code = "OK")
        BY <2>1, <2>4
    <2>7. Numbered'
        <3>1. consumed[cur] \in 1 .. consumed[cur]
            BY <2>3
        <3>2. QED
            BY <2>2, <2>6, <3>1 DEF FateInv, Numbered, Of
    <2>8. LateApart'
        BY <2>2, <2>4, <2>6 DEF FateInv, LateApart, Of
    <2>9. CallOpen'
        BY <2>2, <2>4, <2>5, <2>6 DEF CallOpen
    <2>10. AnswersHold'
        BY <2>2, <2>3, <2>6 DEF FateInv, AnswersHold, Of
    <2>11. QED
        BY <2>7, <2>8, <2>9, <2>10 DEF FateInv
<1>5. ASSUME NEW m \in late, ChainHandlesLate(m) PROVE FateInv'
    <2>1. /\ late' = late \ {m} /\ applied' \in {applied, applied \cup {m}}
          /\ UNCHANGED <<results, consumed, call, cur>>
        BY <1>5 DEF ChainHandlesLate
    <2>2. \A x \in late' : x \in late /\ ~Of(x, m.conn, m.nth)
        BY <2>1 DEF FateInv, LateApart
    <2>3. Numbered'
        BY <2>1 DEF FateInv, Numbered
    <2>4. LateApart'
        BY <2>1, <2>2 DEF FateInv, LateApart, Of
    <2>5. CallOpen'
        BY <2>1 DEF FateInv, CallOpen
    <2>6. AnswersHold'
        BY <2>1 DEF FateInv, AnswersHold
    <2>7. QED
        BY <2>3, <2>4, <2>5, <2>6 DEF FateInv
<1>6. QED
    BY <1>1, <1>2, <1>3, <1>4, <1>5, StepKinds

-----------------------------------------------------------------------------
(* The refinement.                                                          *)

(* What a RESULT adds to the ledger.                                        *)
LEMMA AnsweredMore ==
    ASSUME TypeInv, cur \in Conns, NEW r \in ResultCodes,
           results' = [results EXCEPT ![cur] = Append(@, r)],
           Len(results[cur]) + 1 <= MaxSubmits, NEW S
    PROVE  /\ <<cur, Len(results[cur]) + 1>> \notin AnsweredWith(S)
           /\ r \in S => AnsweredWith(S)' = AnsweredWith(S) \cup {<<cur, Len(results[cur]) + 1>>}
           /\ r \notin S => AnsweredWith(S)' = AnsweredWith(S)
<1> DEFINE last == Len(results[cur]) + 1
<1>1. /\ Len(results[cur]) \in Nat
      /\ Len(results'[cur]) = last
      /\ \A n \in 1 .. Len(results[cur]) : results'[cur][n] = results[cur][n]
      /\ results'[cur][last] = r
      /\ \A c \in Conns \ {cur} : results'[c] = results[c]
    BY Appended
<1>2. MaxSubmits \in Nat
    BY ConstantsAssumption
<1>3. \A k \in Submissions : k = <<k[1], k[2]>> /\ k[1] \in Conns /\ k[2] \in 1 .. MaxSubmits
    BY DEF Submissions
<1>4. <<cur, last>> \in Submissions
    BY <1>1, <1>2 DEF Submissions
<1>5. <<cur, last>> \notin AnsweredWith(S)
    BY <1>1 DEF AnsweredWith
<1>6. ASSUME NEW k \in Submissions, k # <<cur, last>>
      PROVE  k \in AnsweredWith(S)' <=> k \in AnsweredWith(S)
    <2>1. k[1] \in Conns /\ k[2] \in 1 .. MaxSubmits /\ (k[1] = cur => k[2] # last)
        BY <1>3, <1>6
    <2>2. CASE k[1] = cur
        <3>1. k[2] <= Len(results'[cur]) <=> k[2] <= Len(results[cur])
            BY <1>1, <2>1, <2>2
        <3>2. k[2] <= Len(results[cur]) => results'[cur][k[2]] = results[cur][k[2]]
            BY <1>1, <2>1
        <3>3. QED
            BY <2>2, <3>1, <3>2 DEF AnsweredWith, Submissions
    <2>3. CASE k[1] # cur
        <3>1. results'[k[1]] = results[k[1]]
            BY <1>1, <2>1, <2>3
        <3>2. QED
            BY <3>1 DEF AnsweredWith, Submissions
    <2>4. QED
        BY <2>2, <2>3
<1>7. <<cur, last>> \in AnsweredWith(S)' <=> r \in S
    BY <1>1, <1>4 DEF AnsweredWith, Submissions
<1>8. AnsweredWith(S) \subseteq Submissions /\ AnsweredWith(S)' \subseteq Submissions
    BY DEF AnsweredWith, Submissions
<1> HIDE DEF last
<1>9. r \in S => AnsweredWith(S)' = AnsweredWith(S) \cup {<<cur, last>>}
    <2>1. \A k : k \in AnsweredWith(S)' => k \in AnsweredWith(S) \/ k = <<cur, last>>
        BY <1>6, <1>8
    <2>2. \A k : k \in AnsweredWith(S) => k \in AnsweredWith(S)'
        BY <1>5, <1>6, <1>8
    <2>3. QED
        BY <1>7, <2>1, <2>2
<1>10. r \notin S => AnsweredWith(S)' = AnsweredWith(S)
    <2>1. r \notin S => \A k : k \in AnsweredWith(S)' => k \in AnsweredWith(S)
        BY <1>6, <1>7, <1>8
    <2>2. \A k : k \in AnsweredWith(S) => k \in AnsweredWith(S)'
        BY <1>5, <1>6, <1>8
    <2>3. QED
        BY <2>1, <2>2
<1>11. QED
    BY <1>5, <1>9, <1>10 DEF last

(* What consuming a SUBMIT adds to the ledger.                              *)
LEMMA TakenMore ==
    ASSUME TypeInv, cur \in Conns, consumed'[cur] = consumed[cur] + 1,
           \A c \in Conns \ {cur} : consumed'[c] = consumed[c],
           consumed[cur] + 1 <= MaxSubmits
    PROVE  /\ <<cur, consumed[cur] + 1>> \in Submissions
           /\ <<cur, consumed[cur] + 1>> \notin TakenSubmits
           /\ TakenSubmits' = TakenSubmits \cup {<<cur, consumed[cur] + 1>>}
<1> DEFINE next == consumed[cur] + 1
<1>1. consumed \in [Conns -> Nat] /\ consumed[cur] \in Nat /\ MaxSubmits \in Nat
    BY ConstantsAssumption DEF TypeInv, TypeOK
<1>2. <<cur, next>> \in Submissions /\ <<cur, next>> \notin TakenSubmits
    BY <1>1 DEF Submissions, TakenSubmits
<1>3. ASSUME NEW k \in Submissions
      PROVE  k \in TakenSubmits' <=> k \in TakenSubmits \/ k = <<cur, next>>
    <2>1. k = <<k[1], k[2]>> /\ k[1] \in Conns /\ k[2] \in 1 .. MaxSubmits
        BY DEF Submissions
    <2>2. k \in TakenSubmits' <=> k[2] <= consumed'[k[1]]
        BY DEF TakenSubmits, Submissions
    <2>3. k \in TakenSubmits <=> k[2] <= consumed[k[1]]
        BY DEF TakenSubmits, Submissions
    <2>4. CASE k[1] = cur
        <3>1. k[2] <= consumed[cur] + 1 <=> k[2] <= consumed[cur] \/ k[2] = next
            BY <1>1, <2>1
        <3>2. k = <<cur, next>> <=> k[2] = next
            BY <2>1, <2>4
        <3>3. QED
            BY <2>2, <2>3, <2>4, <3>1, <3>2
    <2>5. CASE k[1] # cur
        BY <2>1, <2>2, <2>3, <2>5
    <2>6. QED
        BY <2>4, <2>5
<1>4. TakenSubmits \subseteq Submissions /\ TakenSubmits' \subseteq Submissions
    BY DEF TakenSubmits, Submissions
<1> HIDE DEF next
<1>5. TakenSubmits' = TakenSubmits \cup {<<cur, next>>}
    BY <1>2, <1>3, <1>4
<1>6. QED
    BY <1>2, <1>5 DEF next

(* A RESULT is an answer of the ledger.                                     *)
LEMMA LedgerAnswer ==
    ASSUME TypeInv, cur \in Conns, NEW r \in ResultCodes,
           results' = [results EXCEPT ![cur] = Append(@, r)],
           NEW k, k = <<cur, Len(results[cur]) + 1>>, k \in Submissions,
           Len(results[cur]) + 1 <= MaxSubmits,
           TakenSubmits' = TakenSubmits \cup {k},
           AppliedSubmits' = AppliedSubmits,
           r = "ACCEPTED" => k \in AppliedSubmits /\ k \in TakenSubmits,
           r \in {"REJECTED", "STALE"} => k \notin AppliedSubmits
    PROVE  Ledger!Next
<1> DEFINE Yes == {"ACCEPTED"}
           No == {"REJECTED", "STALE"}
           Open == {"PROVIDER", "PROTOCOL"}
<1>1. /\ k \notin AnsweredWith(Yes)
      /\ k \notin AnsweredWith(No)
      /\ k \notin AnsweredWith(Open)
    BY AnsweredMore
<1>2. ASSUME NEW S
      PROVE  /\ r \in S => AnsweredWith(S)' = AnsweredWith(S) \cup {k}
             /\ r \notin S => AnsweredWith(S)' = AnsweredWith(S)
    BY AnsweredMore
<1>3. CASE r \in Yes
    <2>1. /\ AnsweredWith(Yes)' = AnsweredWith(Yes) \cup {k}
          /\ AnsweredWith(No)' = AnsweredWith(No)
          /\ AnsweredWith(Open)' = AnsweredWith(Open)
        BY <1>2, <1>3
    <2>2. Ledger!Accept(k)
        BY <1>1, <1>3, <2>1 DEF Ledger!Accept, Ledger!Answered
    <2>3. QED
        BY <2>2 DEF Ledger!Next
<1>4. CASE r \in No
    <2>1. /\ AnsweredWith(Yes)' = AnsweredWith(Yes)
          /\ AnsweredWith(No)' = AnsweredWith(No) \cup {k}
          /\ AnsweredWith(Open)' = AnsweredWith(Open)
        BY <1>2, <1>4
    <2>2. Ledger!Refuse(k)
        BY <1>1, <1>4, <2>1 DEF Ledger!Refuse, Ledger!Answered
    <2>3. QED
        BY <2>2 DEF Ledger!Next
<1>5. CASE r \in Open
    <2>1. /\ AnsweredWith(Yes)' = AnsweredWith(Yes)
          /\ AnsweredWith(No)' = AnsweredWith(No)
          /\ AnsweredWith(Open)' = AnsweredWith(Open) \cup {k}
        BY <1>2, <1>5
    <2>2. Ledger!Doubt(k)
        BY <1>1, <2>1 DEF Ledger!Doubt, Ledger!Answered
    <2>3. QED
        BY <2>2 DEF Ledger!Next
<1>6. QED
    BY <1>3, <1>4, <1>5 DEF ResultCodes

(* A chain server that applies a mutation is the ledger applying a SUBMIT   *)
(* that was taken and has no answer, or one that left its fate open.        *)
LEMMA LedgerApply ==
    ASSUME TypeInv, Budget, UNCHANGED <<results, consumed>>,
           NEW m, m.conn \in Conns, m.nth \in 1 .. consumed[m.conn],
           applied' = applied \cup {m},
           \A x \in applied : ~Of(x, m.conn, m.nth),
           m.nth <= Len(results[m.conn]) => results[m.conn][m.nth] \in {"PROVIDER", "PROTOCOL"}
    PROVE  Ledger!Next
<1> DEFINE k == <<m.conn, m.nth>>
<1>1. consumed[m.conn] \in Nat /\ consumed[m.conn] <= MaxSubmits /\ MaxSubmits \in Nat
    BY ConstantsAssumption DEF TypeInv, TypeOK, Budget
<1>2. k \in Submissions /\ k \in TakenSubmits
    BY <1>1 DEF Submissions, TakenSubmits
<1>3. /\ TakenSubmits' = TakenSubmits
      /\ \A S : AnsweredWith(S)' = AnsweredWith(S)
    BY DEF TakenSubmits, AnsweredWith, Submissions
<1>4. AppliedSubmits' = AppliedSubmits \cup {k} /\ k \notin AppliedSubmits
    BY DEF AppliedSubmits, Of
<1>5. k \notin AnsweredWith({"ACCEPTED"}) /\ k \notin AnsweredWith({"REJECTED", "STALE"})
    BY DEF AnsweredWith
<1>6. Ledger!Apply(k)
    BY <1>2, <1>3, <1>4, <1>5 DEF Ledger!Apply
<1>7. QED
    BY <1>2, <1>6 DEF Ledger!Next

(* Every step is a step of the ledger or none.                              *)
LEMMA LedgerStep ==
    ASSUME TypeInv, ListInv, ResultInv, Budget, FateInv, [Next]_vars
    PROVE  [Ledger!Next]_(Ledger!vars)
<1> USE DEF sockVars, listVars, workVars, chainVars, loopVars, wireVars, envVars
<1>0. /\ consumed \in [Conns -> Nat] /\ MaxSubmits \in Nat
      /\ \A m \in applied \cup late : m.conn \in Conns /\ m.nth \in 1 .. consumed[m.conn]
    BY ConstantsAssumption DEF TypeInv, TypeOK, Mutations, FateInv, Numbered
<1>1. ASSUME UNCHANGED <<results, consumed, applied>>
      PROVE  [Ledger!Next]_(Ledger!vars)
    BY <1>1 DEF Ledger!vars, TakenSubmits, AppliedSubmits, AnsweredWith, Submissions
<1>2. CASE Quiet
    BY <1>1, <1>2 DEF Quiet
<1>3. CASE AnswerLocally \/ ForwardSubmission
    <2>1. /\ cur \in Conns /\ call = NoCall /\ inbox[cur] # <<>>
          /\ Head(inbox[cur]).type = "SUBMIT"
          /\ Len(results[cur]) \in Nat /\ consumed[cur] = Len(results[cur])
        BY <1>3, ReadFacts DEF AnswerLocally, ForwardSubmission
    <2>2. consumed[cur] + 1 <= MaxSubmits
        <3>1. /\ Served(cur) = consumed[cur] /\ Served(cur) \in Int
              /\ inbox[cur] \in Seq(Frames) /\ Fits(inbox[cur], Served(cur))
            BY <1>0, <2>1 DEF Served, Budget, TypeInv, TypeOK
        <3>2. QED
            BY <1>0, <2>1, <3>1, FitsMoves
    <2>3. /\ consumed'[cur] = consumed[cur] + 1
          /\ \A c \in Conns \ {cur} : consumed'[c] = consumed[c]
          /\ UNCHANGED applied
        BY <1>0, <1>3, <2>1 DEF AnswerLocally, ForwardSubmission
    <2> DEFINE k == <<cur, consumed[cur] + 1>>
    <2>4. /\ k \in Submissions /\ k \notin TakenSubmits
          /\ TakenSubmits' = TakenSubmits \cup {k}
        BY <2>1, <2>2, <2>3, TakenMore
    <2>5. AppliedSubmits' = AppliedSubmits /\ k \notin AppliedSubmits
        BY <1>0, <2>1, <2>3 DEF AppliedSubmits
    <2>6. CASE UNCHANGED results
        <3>1. \A S : AnsweredWith(S)' = AnsweredWith(S)
            BY <2>6 DEF AnsweredWith, Submissions
        <3>2. Ledger!Take(k)
            BY <2>4, <2>5, <3>1 DEF Ledger!Take
        <3>3. QED
            BY <2>4, <3>2 DEF Ledger!Next
    <2>7. ASSUME NEW code \in LocalAnswers, SendResult(code) PROVE Ledger!Next
        <3>1. /\ results' = [results EXCEPT ![cur] = Append(@, SubmitResultCode(code))]
              /\ SubmitResultCode(code) \in ResultCodes
              /\ SubmitResultCode(code) # "ACCEPTED"
            BY <2>7, PromisingCodes, NoLocalOK DEF SendResult
        <3>2. k = <<cur, Len(results[cur]) + 1>> /\ Len(results[cur]) + 1 <= MaxSubmits
            BY <2>1, <2>2
        <3> HIDE DEF k
        <3>3. QED
            BY <2>1, <2>4, <2>5, <3>1, <3>2, LedgerAnswer
    <2>8. QED
        BY <1>3, <2>6, <2>7 DEF AnswerLocally, ForwardSubmission
<1>4. CASE SubmissionReturns
    <2>1. PICK code \in CallOutcomes :
              SendResult(code) \/ UNCHANGED results
        BY <1>4 DEF SubmissionReturns
    <2>2. call # NoCall /\ UNCHANGED <<applied, consumed>>
        BY <1>4 DEF SubmissionReturns
    <2>3. /\ cur \in Conns /\ Len(results[cur]) \in Nat
          /\ consumed[cur] = Len(results[cur]) + 1
        BY <2>2, CallFacts
    <2> DEFINE k == <<cur, consumed[cur]>>
    <2>4. consumed[cur] <= MaxSubmits /\ k \in Submissions /\ k \in TakenSubmits
        BY <1>0, <2>3 DEF Budget, Submissions, TakenSubmits
    <2>5. TakenSubmits' = TakenSubmits \cup {k} /\ AppliedSubmits' = AppliedSubmits
        BY <2>2, <2>4 DEF TakenSubmits, AppliedSubmits, Submissions
    <2>6. call.reply = "OK" => k \in AppliedSubmits
        BY <2>2 DEF ResultInv, CallTruthful, AppliedSubmits
    <2>7. call.reply # "OK" => k \notin AppliedSubmits
        BY <2>2 DEF FateInv, CallOpen, Of, AppliedSubmits
    <2>8. CASE UNCHANGED results
        BY <1>1, <2>2, <2>8
    <2>9. CASE SendResult(code)
        <3>1. /\ results' = [results EXCEPT ![cur] = Append(@, SubmitResultCode(code))]
              /\ SubmitResultCode(code) \in ResultCodes
            BY <2>9, PromisingCodes DEF SendResult
        <3>2. SubmitResultCode(code) = "ACCEPTED" => call.reply = "OK"
            BY PromisingCodes, OutcomeFacts
        <3>3. SubmitResultCode(code) \in {"REJECTED", "STALE"} => call.reply # "OK"
            BY PromisingCodes, OutcomeFacts
        <3>4. k = <<cur, Len(results[cur]) + 1>> /\ Len(results[cur]) + 1 <= MaxSubmits
            BY <2>3, <2>4
        <3> HIDE DEF k
        <3>5. Ledger!Next
            BY <2>3, <2>4, <2>5, <2>6, <2>7, <3>1, <3>2, <3>3, <3>4, LedgerAnswer
        <3>6. QED
            BY <3>5
    <2>10. QED
        BY <2>1, <2>8, <2>9
<1>5. CASE ChainHandles
    <2>1. PICK code \in SubmitReplies :
              applied' = IF code = "OK" THEN applied \cup {Mutation} ELSE applied
        BY <1>5 DEF ChainHandles
    <2>2. call # NoCall /\ call.reply = "PENDING" /\ UNCHANGED <<results, consumed>>
        BY <1>5 DEF ChainHandles
    <2>3. /\ cur \in Conns /\ Len(results[cur]) \in Nat
          /\ consumed[cur] = Len(results[cur]) + 1
        BY <2>2, CallFacts
    <2>4. CASE code = "OK"
        <3>1. Mutation.conn = cur /\ Mutation.nth = consumed[cur]
            BY DEF Mutation
        <3>2. \A x \in applied : ~Of(x, cur, consumed[cur])
            BY <2>2 DEF FateInv, CallOpen
        <3>3. consumed[cur] \in 1 .. consumed[cur] /\ ~(consumed[cur] <= Len(results[cur]))
            BY <2>3
        <3>4. applied' = applied \cup {Mutation}
            BY <2>1, <2>4
        <3>5. Ledger!Next
            BY <2>2, <2>3, <3>1, <3>2, <3>3, <3>4, LedgerApply
        <3>6. QED
            BY <3>5
    <2>5. CASE code # "OK"
        BY <1>1, <2>1, <2>2, <2>5
    <2>6. QED
        BY <2>4, <2>5
<1>6. ASSUME NEW m \in late, ChainHandlesLate(m) PROVE [Ledger!Next]_(Ledger!vars)
    <2>1. applied' \in {applied, applied \cup {m}} /\ UNCHANGED <<results, consumed>>
        BY <1>6 DEF ChainHandlesLate
    <2>2. /\ m.conn \in Conns /\ m.nth \in 1 .. consumed[m.conn]
          /\ \A x \in applied : ~Of(x, m.conn, m.nth)
          /\ m.nth <= Len(results[m.conn]) => results[m.conn][m.nth] \in {"PROVIDER", "PROTOCOL"}
        BY <1>0 DEF FateInv, LateApart, AnswersHold, Of
    <2>3. CASE applied' = applied
        BY <1>1, <2>1, <2>3
    <2>4. CASE applied' = applied \cup {m}
        <3>1. Ledger!Next
            BY <2>1, <2>2, <2>4, LedgerApply
        <3>2. QED
            BY <3>1
    <2>5. QED
        BY <2>1, <2>3, <2>4
<1>7. QED
    BY <1>2, <1>3, <1>4, <1>5, <1>6, StepKinds

(* Nothing is taken, applied or answered at the start.                      *)
LEMMA LedgerInit == Init => Budget /\ FateInv /\ Ledger!Init
<1> SUFFICES ASSUME Init PROVE Budget /\ FateInv /\ Ledger!Init
    OBVIOUS
<1>1. /\ applied = {} /\ late = {} /\ call = NoCall
      /\ \A c \in Conns : consumed[c] = 0 /\ inbox[c] = <<>> /\ results[c] = <<>>
    BY DEF Init
<1>2. Budget
    BY <1>1, ConstantsAssumption DEF Budget, Fits, Served
<1>3. FateInv
    BY <1>1 DEF FateInv, Numbered, LateApart, CallOpen, AnswersHold
<1>4. \A k \in Submissions : k[1] \in Conns /\ k[2] \in Nat \ {0}
    BY DEF Submissions
<1>5. TakenSubmits = {} /\ AppliedSubmits = {}
    BY <1>1, <1>4 DEF TakenSubmits, AppliedSubmits
<1>6. \A S : AnsweredWith(S) = {}
    BY <1>1, <1>4 DEF AnsweredWith
<1>7. QED
    BY <1>2, <1>3, <1>5, <1>6 DEF Ledger!Init

(* The RESULTs of the server keep the ledger's promise to every miner:      *)
(* ACCEPTED is said of what a chain server has applied, REJECTED and STALE  *)
(* of what none has and none ever will, also when the call timed out and a  *)
(* chain server acts on it afterwards, and no SUBMIT is applied twice.      *)
THEOREM ServerImplementsLedger == Spec => ImplementsLedger
<1>1. TypeInv /\ ListInv /\ ResultInv /\ Budget /\ FateInv /\ [Next]_vars
          => Budget' /\ FateInv' /\ [Ledger!Next]_(Ledger!vars)
    BY BudgetStep, FateStep, LedgerStep
<1>2. QED
    BY <1>1, LedgerInit, ResultInit, ResultStep, ListInit, ListStep, TypeInit, TypeStep, PTL
    DEF Spec, ImplementsLedger, Ledger!Spec

=============================================================================
