----------------------------- MODULE Submitter -----------------------------
(***************************************************************************)
(* SubmitHeadersWithLoop of the two submitters, eth.Submitter and          *)
(* top.Submitter: look whether the header is there already, send it, wait  *)
(* for the transaction, try again, and now and then look whether the last  *)
(* header submitted is still there.                                        *)
(*                                                                         *)
(* A header is its height; the contract of the other chain holds all the   *)
(* headers up to a height (side) and takes a header only after its parent. *)
(* Transactions wait in a pool, from where they are mined in any order or  *)
(* lost.  The calls are free: any consecutive run of headers, in any       *)
(* order, as any caller may make them.                                     *)
(***************************************************************************)
EXTENDS Integers, FiniteSets

CONSTANTS Kind,         \* whose code: "eth" or "top"
          ChainId,      \* the argument chainId: s.config.ChainId
          Batch,        \* s.config.Batch
          Genesis,      \* the height the contract is at when the process starts
          MaxAttempts,  \* attempts after which a call gives up: 30
          CheckAfter,   \* successes between checks of the last commit: 3
          MaxHeight,    \* bound: heights of headers
          MaxErrors,    \* bound: reads of the contract that fail before Cancel
          MaxLost       \* bound: transactions lost from the pool

ASSUME SubmitterAssumption ==
  /\ Batch \in Nat \ {0}
  /\ Genesis \in Nat
  /\ MaxAttempts \in Nat
  /\ CheckAfter \in Nat
  /\ MaxHeight \in Nat
  /\ MaxErrors \in Nat
  /\ MaxLost \in Nat

VARIABLES
  side,        \* the contract holds the headers 1 .. side
  pool,        \* headers in transactions that are not mined yet
  lost,        \* headers of transactions that left the pool unmined
  done,        \* the context is cancelled
  pc,          \* where SubmitHeadersWithLoop is
  lo, hi,      \* the call's headers: heights lo .. hi, header being hi
  attempt,     \* the local variable attempt
  sent,        \* this attempt's wallet.Send returned a transaction
  verdict,     \* what the last call returned
  lastCommit,  \* s.lastCommit
  lastCheck,   \* s.lastCheck
  errors       \* failed reads before Cancel

otherChain == <<side, pool, lost>>
commitVars == <<lastCommit, lastCheck>>
callVars == <<lo, hi, attempt, sent>>
vars == <<side, pool, lost, done, pc, lo, hi, attempt, sent, verdict,
          lastCommit, lastCheck, errors>>

(* The contract, as the bindings call it: its height, whether its hash at a
   height is that of the header, and whether it takes a header, on either
   chain. *)

GetMaxHeight == side

BlockHashes(h) == h <= side

AddLightClientBlock(h) == h <= side + 1

SyncBlockHeader(h) == h <= side + 1

\* The height the submitter compares with; TOP's contract gives it another name.
GetSideChainHeight == GetMaxHeight

\* A read of the contract fails.  Once cancelled, all of them may.
ReadFails ==
  \/ done /\ UNCHANGED errors
  \/ errors < MaxErrors /\ errors' = errors + 1

Init ==
  /\ side = Genesis
  /\ pool = {}
  /\ lost = {}
  /\ done = FALSE
  /\ pc = "idle"
  /\ lo = 1 /\ hi = 1
  /\ attempt = 0
  /\ sent = FALSE
  /\ verdict = "none"
  /\ lastCommit = 0
  /\ lastCheck = 0
  /\ errors = 0

-----------------------------------------------------------------------------
(* Calls and returns *)

\* The eth submitter returns nil at once unless it is given TOP's chain id.
Ignores == Kind = "eth" /\ ChainId # "TOP"

CallFor(l, h) ==
  /\ pc = "idle"
  /\ lo' = l
  /\ hi' = h
  /\ attempt' = 0
  /\ sent' = FALSE
  /\ verdict' = IF Ignores THEN "nil" ELSE "none"
  /\ pc' = IF Ignores THEN "idle" ELSE "exist"
  /\ UNCHANGED <<otherChain, done, commitVars, errors>>

\* The select of the submit loop may take a header although Done is ready too.
Call ==
  \E l \in 1 .. MaxHeight, n \in 1 .. Batch :
    l + n - 1 <= MaxHeight /\ CallFor(l, l + n - 1)

\* The locals of the call are gone.
Return(v) ==
  /\ pc' = "idle"
  /\ attempt' = 0
  /\ sent' = FALSE
  /\ verdict' = v

-----------------------------------------------------------------------------
(* submitHeadersWithLoop *)

\* Mutant: any header the contract has stands for the one asked for.
AnyHeaderExists(h) == side > 0

\* eth: the contract's hash at the header's height is the header's.
EthCheckHeaderExistence(h) == BlockHashes(h)

\* top: the comparison is made and its result dropped (return true, nil).
TopCheckHeaderExistence(h) == TRUE

CheckHeaderExistence(h) ==
  IF Kind = "eth" THEN EthCheckHeaderExistence(h) ELSE TopCheckHeaderExistence(h)

HeaderExists ==
  /\ pc = "exist"
  /\ CheckHeaderExistence(hi)
  /\ pc' = "check"
  /\ UNCHANGED <<otherChain, done, callVars, verdict, commitVars, errors>>

\* Mutant: attempts are not counted.
HeaderMissingUncounted ==
  /\ pc = "exist"
  /\ ~ CheckHeaderExistence(hi)
  /\ pc' = "prepare"
  /\ UNCHANGED <<otherChain, done, callVars, verdict, commitVars, errors>>

HeaderMissing ==
  /\ pc = "exist"
  /\ ~ CheckHeaderExistence(hi)
  /\ pc' = "prepare"
  /\ attempt' = attempt + 1
  /\ UNCHANGED <<otherChain, done, lo, hi, sent, verdict, commitVars, errors>>

\* The existence check failed: not an attempt.
ExistenceError ==
  /\ pc = "exist"
  /\ ReadFails
  /\ pc' = "retry"
  /\ UNCHANGED <<otherChain, done, callVars, verdict, commitVars>>

\* SubmitHeaders puts headers[0], and no other, in a transaction.
Submitted == lo

\* Each submitter calls its own contract.
Accepts(h) == IF Kind = "eth" THEN AddLightClientBlock(h) ELSE SyncBlockHeader(h)

\* The transaction is built: the contract would take the header.
PrepareOk ==
  /\ pc = "prepare"
  /\ Accepts(Submitted)
  /\ pc' = "send"
  /\ UNCHANGED <<otherChain, done, callVars, verdict, commitVars, errors>>

\* "parent header not exist" and the like: ERR_HEADER_INCONSISTENT
PrepareInconsistent ==
  /\ pc = "prepare"
  /\ ~ Accepts(Submitted)
  /\ Return("inconsistent")
  /\ UNCHANGED <<otherChain, done, lo, hi, commitVars, errors>>

PrepareError ==
  /\ pc = "prepare"
  /\ pc' = "retry"
  /\ UNCHANGED <<otherChain, done, callVars, verdict, commitVars, errors>>

\* wallet.Send; its error is overwritten by Confirm's.  The configuration has a
\* Wallet: Init leaves s.wallet nil without one, and this call would panic.
SendTx ==
  /\ pc = "send"
  /\ \/ pool' = pool \cup {Submitted} /\ sent' = TRUE
     \/ UNCHANGED pool /\ sent' = FALSE
  /\ pc' = "confirm"
  /\ UNCHANGED <<side, lost, done, lo, hi, attempt, verdict, commitVars, errors>>

\* Mutant: confirmed without a transaction.
ConfirmUnsent ==
  /\ pc = "confirm"
  /\ pc' = "check"
  /\ UNCHANGED <<otherChain, done, callVars, verdict, commitVars, errors>>

\* The transaction is known to the node, mined or pending.
ConfirmOk ==
  /\ pc = "confirm"
  /\ sent
  /\ pc' = "check"
  /\ UNCHANGED <<otherChain, done, callVars, verdict, commitVars, errors>>

\* What becomes of the transaction is not looked at again.
ConfirmError ==
  /\ pc = "confirm"
  /\ pc' = "retry"
  /\ sent' = FALSE
  /\ UNCHANGED <<otherChain, done, lo, hi, attempt, verdict, commitVars, errors>>

\* Mutant: one attempt more.
OneAttemptMore == attempt > MaxAttempts + 1

TooManyAttempts == attempt > MaxAttempts

\* select: Done, then too many attempts, then sleep and go round again.
RetryDone ==
  /\ pc = "retry"
  /\ done
  /\ pc' = "check"
  /\ UNCHANGED <<otherChain, done, callVars, verdict, commitVars, errors>>

GiveUp ==
  /\ pc = "retry"
  /\ ~ done
  /\ TooManyAttempts
  /\ Return("failure")
  /\ UNCHANGED <<otherChain, done, lo, hi, commitVars, errors>>

Retry ==
  /\ pc = "retry"
  /\ ~ done
  /\ ~ TooManyAttempts
  /\ pc' = "exist"
  /\ UNCHANGED <<otherChain, done, callVars, verdict, commitVars, errors>>

-----------------------------------------------------------------------------
(* After a nil from submitHeadersWithLoop *)

\* Check last commit every 4 successful submit
ChecksLastCommit == lastCommit > 0 /\ lastCheck > CheckAfter

\* The chain is read and has what was committed; or is not due to be read.
CommitSucceeds ==
  /\ pc = "check"
  /\ ChecksLastCommit => lastCommit <= GetSideChainHeight
  /\ lastCheck' = IF ChecksLastCommit THEN 0 ELSE lastCheck + 1
  /\ lastCommit' = hi
  /\ Return("nil")
  /\ UNCHANGED <<otherChain, done, lo, hi, errors>>

\* An error of GetSideChainHeight is logged and forgotten.
CommitUnchecked ==
  /\ pc = "check"
  /\ ChecksLastCommit
  /\ ReadFails
  /\ lastCheck' = 0
  /\ lastCommit' = hi
  /\ Return("nil")
  /\ UNCHANGED <<otherChain, done, lo, hi>>

CommitMissing ==
  /\ pc = "check"
  /\ ChecksLastCommit
  /\ GetSideChainHeight < lastCommit
  /\ lastCheck' = 0
  /\ Return("missing")
  /\ UNCHANGED <<otherChain, done, lo, hi, lastCommit, errors>>

Step ==
  \/ HeaderExists \/ HeaderMissing \/ ExistenceError
  \/ PrepareOk \/ PrepareInconsistent \/ PrepareError
  \/ SendTx \/ ConfirmOk \/ ConfirmError
  \/ RetryDone \/ GiveUp \/ Retry
  \/ CommitSucceeds \/ CommitUnchecked \/ CommitMissing

-----------------------------------------------------------------------------
(* The other chain, and the process *)

\* A mined transaction adds its header when the parent is there.
Mine ==
  /\ \E h \in pool :
       /\ pool' = pool \ {h}
       /\ side' = IF h = side + 1 THEN h ELSE side
  /\ UNCHANGED <<lost, done, pc, callVars, verdict, commitVars, errors>>

Lose ==
  /\ Cardinality(lost) < MaxLost
  /\ \E h \in pool : pool' = pool \ {h} /\ lost' = lost \cup {h}
  /\ UNCHANGED <<side, done, pc, callVars, verdict, commitVars, errors>>

Cancel ==
  /\ ~ done
  /\ done' = TRUE
  /\ UNCHANGED <<otherChain, pc, callVars, verdict, commitVars, errors>>

\* A cancelled caller may make no more calls.
Stopped ==
  /\ done
  /\ pc = "idle"
  /\ UNCHANGED vars

Next == Call \/ Step \/ Mine \/ Lose \/ Cancel \/ Stopped

Spec == Init /\ [][Next]_vars

\* The goroutine of the submitter is scheduled and its calls to the chain
\* return; nothing is assumed of what they return.
FairSpec == Spec /\ WF_vars(Step)

-----------------------------------------------------------------------------
(* Properties *)

TypeOK ==
  /\ side \in 0 .. MaxHeight
  /\ pool \subseteq 1 .. MaxHeight
  /\ lost \subseteq 1 .. MaxHeight /\ Cardinality(lost) <= MaxLost
  /\ done \in BOOLEAN
  /\ pc \in {"idle", "exist", "prepare", "send", "confirm", "retry", "check"}
  /\ lo \in 1 .. MaxHeight \cup {1} /\ hi \in 1 .. MaxHeight \cup {1}
  /\ attempt \in 0 .. MaxAttempts + 1
  /\ sent \in BOOLEAN
  /\ verdict \in {"none", "nil", "inconsistent", "failure", "missing"}
  /\ lastCommit \in 0 .. MaxHeight
  /\ lastCheck \in 0 .. CheckAfter + 1
  /\ errors \in 0 .. MaxErrors

\* The headers the contract has, or that were put in a transaction.
Delivered == 1 .. side \cup pool \cup lost

\* "Mark last commit": what is remembered as the last commit is a header that
\* has been submitted, unless the process is told to stop.
LastCommitSubmitted == ~ done /\ lastCommit > 0 => lastCommit \in Delivered

\* A call that reports success has submitted its headers, by this or by an
\* earlier transaction, unless the process is told to stop.
NilMeansSubmitted ==
  ~ done /\ pc = "idle" /\ verdict = "nil" => lo .. hi \subseteq Delivered

\* A call returns: a submission that fails forever is given up, and a cancelled
\* one left, even if the contract can no longer be read.  Without Cancel only so
\* many reads fail: a failed existence check is retried and is not an attempt.
CallReturns == (pc = "exist") ~> (pc = "idle")

\* How much a call can still do: the reads that may fail and the attempts it has
\* left, and the way out of the round it is in; once cancelled only a way out.
Effort ==
  CASE pc = "idle" -> 0
    [] pc # "idle" /\ done ->
         [exist |-> 6, prepare |-> 5, send |-> 4, confirm |-> 3, retry |-> 2, check |-> 1][pc]
    [] pc # "idle" /\ ~ done ->
         7 * (1 + (MaxErrors - errors) + (MaxAttempts + 1 - attempt))
         + [exist |-> 2, prepare |-> 6, send |-> 5, confirm |-> 4, retry |-> 3, check |-> 1][pc]

\* No call goes on forever, because each of its steps uses something up that
\* nothing gives back: the rounds of retries are counted, in the one place where
\* they are, often enough.
EffortShrinks ==
  [][pc # "idle" => IF pc' # pc THEN Effort' < Effort ELSE Effort' <= Effort]_vars

\* Nothing was ever sent to the contract, nor accepted by it.
NothingSent == pool = {} /\ lost = {} /\ side = Genesis

\* The call as the submit loop sees it; headers the contract has are of no
\* interest in a pool.
Promise == INSTANCE Submission WITH
  pool <- pool \ 1 .. side,
  header <- lo,
  state <- IF pc # "idle" THEN "busy"
           ELSE IF verdict \in {"none", "nil"} THEN "idle" ELSE "failed"

\* What the whole relayer relies on: across retries, lost transactions and the
\* checks of the last commit, no header is sent before its parent is in the
\* contract, and an answer nil is given only for a header that the contract has
\* or that the last attempt sent, unless the process is told to stop.
PromiseKept == Promise!Spec

-----------------------------------------------------------------------------
(* What makes these hold for eth.Submitter, one header at a time: nothing is
   sent before its parent is there, so nothing sent is refused, and the call
   gets past ConfirmOk and HeaderExists only with its header delivered. *)

DeliveryInv ==
  /\ side \in Nat /\ pool \subseteq Nat \ {0} /\ lost \subseteq Nat
  /\ lo \in Nat \ {0} /\ hi = lo
  /\ \A h \in pool : h <= side + 1
  /\ pc = "send" => lo <= side + 1
  /\ sent => lo \in Delivered /\ pc \in {"confirm", "check"}
  /\ pc = "check" => sent \/ lo <= side \/ done
  /\ ~ done /\ pc = "idle" /\ verdict = "nil" => lo \in Delivered
  /\ LastCommitSubmitted
=============================================================================
