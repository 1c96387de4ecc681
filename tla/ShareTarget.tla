----------------------------- MODULE ShareTarget ------------------------------
(***************************************************************************)
(* The arithmetic that decides what a proof is worth. A template carries a *)
(* chain target; the JOB a miner is sent carries the share target          *)
(* stn_miner_job_build derives from it; a SUBMIT is judged against a share *)
(* target that process_submission derives again, with a function of its    *)
(* own. Numbers are big-endian strings of NDigits digits below Base (32    *)
(* bytes in the code), multiplied digit by digit with a carry and compared *)
(* digit by digit. MAX_TARGET is half the range, less one.                 *)
(***************************************************************************)
EXTENDS Integers

CONSTANTS Base, NDigits, Factor     \* 256, 32 and STN_MINER_SHARE_FACTOR

ASSUME ShareTargetAssumption ==
    /\ Base \in Nat /\ Base % 2 = 0 /\ Base > 0
    /\ NDigits \in Nat \ {0}
    /\ Factor \in 1 .. Base - 1

VARIABLES
    chain,      \* the target in the active template
    jobShare,   \* the share target in the JOB last sent
    jobSent,    \* whether that JOB is for the active template
    proof,      \* the hash of the last SUBMIT
    verdict     \* what process_submission made of it

targetVars == <<chain, jobShare, jobSent, proof, verdict>>

Digits == 0 .. Base - 1
Numbers == [1 .. NDigits -> Digits]
Top == Base \div 2
Zero == [i \in 1 .. NDigits |-> 0]
MaxTarget == [i \in 1 .. NDigits |-> IF i = 1 THEN Top - 1 ELSE Base - 1]

-----------------------------------------------------------------------------
(* Plausible error: the carry into the leading digit is lost.               *)
ScaledDroppingCarry(t) ==
    LET carry[i \in 1 .. NDigits + 1] ==
            IF i = NDigits + 1 THEN 0
            ELSE (t[i] * Factor + carry[i + 1]) \div Base
    IN [i \in 0 .. NDigits |->
            IF i = 0 THEN 0 ELSE (t[i] * Factor + carry[i + 1]) % Base]

(* The product, one digit longer than its operand; digit 0 is the last      *)
(* carry.                                                                   *)
Scaled(t) ==
    LET carry[i \in 1 .. NDigits + 1] ==
            IF i = NDigits + 1 THEN 0
            ELSE (t[i] * Factor + carry[i + 1]) \div Base
    IN [i \in 0 .. NDigits |->
            IF i = 0 THEN carry[1] ELSE (t[i] * Factor + carry[i + 1]) % Base]

(* share_target_from_chain, as both files have it: cut off at MAX_TARGET.   *)
ShareOf(t) ==
    LET scaled == Scaled(t)
    IN IF scaled[0] # 0 \/ scaled[1] >= Top
       THEN MaxTarget
       ELSE [i \in 1 .. NDigits |-> scaled[i]]

(* The server's copy also refuses a target of zero or above MAX_TARGET.     *)
Refused(t) == t[1] >= Top \/ t = Zero

(* Plausible error: digits are compared from the wrong end.                 *)
LeFromTheEnd(a, b) ==
    \/ a = b
    \/ \E i \in 1 .. NDigits :
          a[i] < b[i] /\ \A k \in i + 1 .. NDigits : a[k] = b[k]

(* le of stn_share_verify.c: the first digit that differs decides.          *)
Le(a, b) ==
    \/ a = b
    \/ \E i \in 1 .. NDigits :
          a[i] < b[i] /\ \A k \in 1 .. i - 1 : a[k] = b[k]

(* stn_share_classify; the hash itself is any number.                       *)
Classify(h, share, target) ==
    CASE ~Le(h, share) -> "INVALID"
      [] Le(h, share) /\ Le(h, target) -> "BLOCK"
      [] OTHER -> "QUALIFYING"

-----------------------------------------------------------------------------
TargetInit ==
    /\ chain \in Numbers
    /\ jobShare = Zero /\ jobSent = FALSE
    /\ proof = Zero /\ verdict = "none"

(* The active template is replaced; its target is the chain's business.     *)
Refresh(t) ==
    /\ chain' = t /\ jobSent' = FALSE
    /\ proof' = Zero /\ verdict' = "none"
    /\ UNCHANGED jobShare

(* stn_miner_job_build, when the JOB is sent.                               *)
SendJob ==
    /\ jobShare' = ShareOf(chain) /\ jobSent' = TRUE
    /\ UNCHANGED <<chain, proof, verdict>>

(* The part of process_submission that judges the proof of a SUBMIT for the *)
(* active job.                                                              *)
Judge(h) ==
    /\ jobSent
    /\ proof' = h
    /\ verdict' = IF Refused(chain) THEN "refused target"
                  ELSE Classify(h, ShareOf(chain), chain)
    /\ UNCHANGED <<chain, jobShare, jobSent>>

TargetNext == SendJob \/ \E n \in Numbers : Refresh(n) \/ Judge(n)

TargetSpec == TargetInit /\ [][TargetNext]_targetVars

-----------------------------------------------------------------------------
(* The number a string of digits stands for.                                *)
Value(a) ==
    LET upto[i \in 0 .. NDigits] ==
            IF i = 0 THEN 0 ELSE upto[i - 1] * Base + a[i]
    IN upto[NDigits]

(* The JOB's share target is min(MAX_TARGET, chain target * factor), the    *)
(* rule of the chain that stn_miner_job.c quotes, for every chain target.   *)
ShareTargetExact ==
    jobSent => LET product == Factor * Value(chain)
                limit == Value(MaxTarget)
            IN Value(jobShare) = IF product > limit THEN limit ELSE product

(* A proof is judged as the miner that works on the JOB expects: it is      *)
(* refused exactly when its number exceeds the share target of the JOB,     *)
(* forwarded as a block exactly when it does not exceed the chain target,   *)
(* and as a share in between. A hash that solves the block is never lost as *)
(* an invalid share. Only a target no chain issues makes a JOB on which     *)
(* every proof is refused.                                                  *)
VerdictMatchesJob ==
    /\ verdict = "refused target" =>
          Value(chain) = 0 \/ Value(chain) > Value(MaxTarget)
    /\ verdict = "INVALID" <=>
          /\ verdict \notin {"none", "refused target"}
          /\ Value(proof) > Value(jobShare)
    /\ verdict = "BLOCK" <=>
          /\ verdict \notin {"none", "refused target"}
          /\ Value(proof) <= Value(chain)

=============================================================================
