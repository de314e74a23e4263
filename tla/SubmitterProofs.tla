-------------------------- MODULE SubmitterProofs --------------------------
(***************************************************************************)
(* eth.Submitter with batches of one header, given TOP's chain id, the one *)
(* it acts on: a call that reports success has submitted its header, and   *)
(* the last commit it remembers is a header that was submitted.            *)
(***************************************************************************)
EXTENDS Submitter, FiniteSetTheorems, TLAPS

\* What the theorems are about.
Relays == Kind = "eth" /\ ChainId = "TOP" /\ Batch = 1

\* What the conjuncts on sent, pc and verdict say of the next state.
Reported ==
  /\ pc = "send" => lo <= side + 1
  /\ sent => lo \in Delivered /\ pc \in {"confirm", "check"}
  /\ pc = "check" => sent \/ lo <= side \/ done
  /\ ~ done /\ pc = "idle" /\ verdict = "nil" => lo \in Delivered

\* The rest of it.
Domain ==
  /\ side \in Nat /\ pool \subseteq Nat \ {0} /\ lost \subseteq Nat
  /\ lo \in Nat \ {0} /\ hi = lo
  /\ \A h \in pool : h <= side + 1

LEMMA DeliveryParts ==
  DeliveryInv <=> Domain /\ Reported /\ LastCommitSubmitted
BY Zenon DEF DeliveryInv, Domain, Reported

LEMMA DeliveryPartsPrimed ==
  DeliveryInv' <=> Domain' /\ Reported' /\ LastCommitSubmitted'
BY Zenon DEF DeliveryInv, Domain, Reported

\* A submitter starts with nothing sent and nothing remembered.
LEMMA InitDelivery ==
  ASSUME Init PROVE DeliveryInv
<1>1. LastCommitSubmitted /\ Reported
  BY DEF Init, LastCommitSubmitted, Reported
<1>2. Domain
  BY SubmitterAssumption DEF Init, Domain
<1> QED BY <1>1, <1>2, DeliveryParts

\* A call is checked only once its header is there or sent.
LEMMA CheckedDelivered ==
  ASSUME DeliveryInv, pc = "check", ~ done PROVE lo \in Delivered
<1>1. CASE sent
  BY <1>1 DEF DeliveryInv
<1>2. CASE lo <= side
  BY <1>2 DEF DeliveryInv, Delivered
<1> QED BY <1>1, <1>2 DEF DeliveryInv

\* A step inside a call leaves the headers and the last commit alone; it keeps
\* the invariant if what it enters with is right.
LEMMA FrameDelivery ==
  ASSUME DeliveryInv, UNCHANGED <<side, pool, lost, done, lo, hi, lastCommit>>,
         sent' => sent /\ pc' \in {"confirm", "check"},
         pc' = "send" => lo <= side + 1,
         pc' = "check" => sent' \/ lo <= side \/ done,
         ~ done /\ pc' = "idle" /\ verdict' = "nil" => lo \in Delivered
  PROVE  DeliveryInv'
<1>1. Delivered' = Delivered
  BY DEF Delivered
<1>2. LastCommitSubmitted'
  BY <1>1 DEF DeliveryInv, LastCommitSubmitted
<1>3. Reported'
  BY <1>1, Zenon DEF DeliveryInv, Reported
<1>4. Domain'
  BY DEF DeliveryInv, Domain
<1> QED BY <1>2, <1>3, <1>4, DeliveryPartsPrimed

\* HeaderExists is only passed with the header in the contract.
LEMMA ExistenceDelivery ==
  ASSUME Relays, DeliveryInv, HeaderExists \/ HeaderMissing \/ ExistenceError
  PROVE  DeliveryInv'
<1>1. UNCHANGED <<side, pool, lost, done, lo, hi, sent, lastCommit>>
  BY DEF HeaderExists, HeaderMissing, ExistenceError, otherChain, callVars, commitVars
<1>2. pc' \in {"check", "prepare", "retry"}
  BY DEF HeaderExists, HeaderMissing, ExistenceError
<1>3. ASSUME pc' = "check" PROVE lo <= side
  BY <1>3 DEF HeaderExists, HeaderMissing, ExistenceError, CheckHeaderExistence,
     EthCheckHeaderExistence, BlockHashes, Relays, DeliveryInv
<1>4. ~ sent'
  BY <1>1, Zenon DEF DeliveryInv, HeaderExists, HeaderMissing, ExistenceError
<1> QED BY <1>1, <1>2, <1>3, <1>4, FrameDelivery

\* A transaction is only built for a header the contract would take.
LEMMA PrepareDelivery ==
  ASSUME DeliveryInv, PrepareOk \/ PrepareInconsistent \/ PrepareError
  PROVE  DeliveryInv'
<1>1. UNCHANGED <<side, pool, lost, done, lo, hi, lastCommit>>
  BY DEF PrepareOk, PrepareInconsistent, PrepareError, Return, otherChain, callVars,
     commitVars
<1>2. ~ sent'
  BY DEF DeliveryInv, PrepareOk, PrepareInconsistent, PrepareError, Return, callVars
<1>3. /\ pc' = "send" => lo <= side + 1
      /\ pc' # "check"
      /\ pc' = "idle" => verdict' # "nil"
  BY DEF PrepareOk, PrepareInconsistent, PrepareError, Submitted, Accepts,
     AddLightClientBlock, SyncBlockHeader, Return
<1> QED BY <1>1, <1>2, <1>3, FrameDelivery

\* Confirm only succeeds for a transaction that was sent.
LEMMA ConfirmDelivery ==
  ASSUME DeliveryInv, ConfirmOk \/ ConfirmError
  PROVE  DeliveryInv'
<1>1. UNCHANGED <<side, pool, lost, done, lo, hi, lastCommit>>
  BY DEF ConfirmOk, ConfirmError, otherChain, callVars, commitVars
<1>2. CASE ConfirmOk
  <2>1. sent /\ sent' = sent /\ pc' = "check"
    BY <1>2 DEF ConfirmOk, callVars
  <2> QED BY <1>1, <2>1, FrameDelivery
<1>3. CASE ConfirmError
  <2>1. sent' = FALSE /\ pc' = "retry"
    BY <1>3 DEF ConfirmError
  <2> QED BY <1>1, <2>1, FrameDelivery
<1> QED BY <1>2, <1>3

\* Only a cancelled call leaves the retry without the header.
LEMMA RetryDelivery ==
  ASSUME DeliveryInv, RetryDone \/ GiveUp \/ Retry
  PROVE  DeliveryInv'
<1>1. UNCHANGED <<side, pool, lost, done, lo, hi, lastCommit>>
  BY DEF RetryDone, GiveUp, Retry, Return, otherChain, callVars,
     commitVars
<1>2. ~ sent'
  BY DEF DeliveryInv, RetryDone, GiveUp, Retry, Return, callVars
<1>3. /\ pc' # "send"
      /\ pc' = "check" => done
      /\ pc' = "idle" => verdict' # "nil"
  BY DEF RetryDone, GiveUp, Retry, Return
<1> QED BY <1>1, <1>2, <1>3, FrameDelivery

\* An error is returned, and the last commit kept.
LEMMA MissingDelivery ==
  ASSUME DeliveryInv, CommitMissing
  PROVE  DeliveryInv'
<1>1. UNCHANGED <<side, pool, lost, done, lo, hi, lastCommit>>
  BY DEF CommitMissing, Return, otherChain, callVars, commitVars
<1>2. pc' = "idle" /\ verdict' # "nil" /\ ~ sent'
  BY DEF CommitMissing, Return
<1> QED BY <1>1, <1>2, FrameDelivery

\* The header becomes the last commit.
LEMMA CommitDelivery ==
  ASSUME DeliveryInv, CommitSucceeds \/ CommitUnchecked
  PROVE  DeliveryInv'
<1>1. /\ UNCHANGED <<side, pool, lost, done, lo, hi>>
      /\ lastCommit' = hi /\ pc' = "idle" /\ sent' = FALSE
  BY DEF CommitSucceeds, CommitUnchecked, Return, otherChain
<1>2. ~ done => lo \in Delivered
  BY CheckedDelivered DEF CommitSucceeds, CommitUnchecked
<1>3. Delivered' = Delivered
  BY <1>1 DEF Delivered
<1>4. LastCommitSubmitted'
  BY <1>1, <1>2, <1>3 DEF DeliveryInv, LastCommitSubmitted
<1>5. Reported'
  BY <1>1, <1>2, <1>3, Zenon DEF Reported
<1>6. Domain'
  BY <1>1 DEF DeliveryInv, Domain
<1> QED BY <1>4, <1>5, <1>6, DeliveryPartsPrimed

\* A new call.
LEMMA CallDelivery ==
  ASSUME Relays, DeliveryInv, Call PROVE DeliveryInv'
<1>1. /\ UNCHANGED <<side, pool, lost, done, lastCommit>>
      /\ sent' = FALSE /\ pc' = "exist"
      /\ lo' \in Nat \ {0} /\ hi' = lo'
  BY SubmitterAssumption
  DEF Relays, Call, CallFor, Ignores, otherChain, commitVars
<1>2. Delivered' = Delivered
  BY <1>1 DEF Delivered
<1>3. LastCommitSubmitted'
  BY <1>1, <1>2 DEF DeliveryInv, LastCommitSubmitted
<1>4. Reported'
  BY <1>1 DEF Reported
<1>5. Domain'
  BY <1>1 DEF DeliveryInv, Domain
<1> QED BY <1>3, <1>4, <1>5, DeliveryPartsPrimed

\* wallet.Send.
LEMMA SendDelivery ==
  ASSUME DeliveryInv, SendTx
  PROVE  DeliveryInv'
<1>1. /\ UNCHANGED <<side, lost, done, lo, hi, lastCommit>>
      /\ pc = "send" /\ pc' = "confirm"
      /\ \/ pool' = pool \cup {lo} /\ sent' = TRUE
         \/ pool' = pool /\ sent' = FALSE
  BY DEF SendTx, Submitted, commitVars
<1>2. Delivered \subseteq Delivered'
  BY <1>1 DEF Delivered
<1>3. LastCommitSubmitted'
  BY <1>1, <1>2 DEF DeliveryInv, LastCommitSubmitted
<1>4. (sent => lo \in Delivered)'
  BY <1>1 DEF Delivered
<1>5. Domain'
  BY <1>1 DEF DeliveryInv, Domain
<1>6. Reported'
  BY <1>1, <1>4 DEF Reported
<1> QED BY <1>3, <1>5, <1>6, DeliveryPartsPrimed

\* A mined header moves from the pool to the contract.
LEMMA MineDelivery ==
  ASSUME DeliveryInv, Mine
  PROVE  DeliveryInv'
<1> PICK h \in pool : /\ pool' = pool \ {h}
                      /\ side' = IF h = side + 1 THEN h ELSE side
  BY DEF Mine
<1>1. side \in Nat /\ h \in Nat /\ h <= side + 1
  BY DEF DeliveryInv
<1>2. side' \in Nat /\ side <= side' /\ h <= side'
  BY <1>1
<1>3. UNCHANGED <<lost, done, pc, lo, hi, sent, verdict, lastCommit>>
  BY DEF Mine, callVars, commitVars
<1>4. \A x \in Nat \ {0} : x \in Delivered => x \in Delivered'
  BY <1>1, <1>2, <1>3 DEF Delivered
<1>5. Domain'
  BY <1>1, <1>2, <1>3 DEF DeliveryInv, Domain
<1>6. lo \in Nat \ {0} /\ (lo \in Delivered => lo' \in Delivered')
  BY <1>4, <1>3 DEF DeliveryInv
<1>7. (lo <= side => lo' <= side') /\ (lo <= side + 1 => lo' <= side' + 1)
  BY <1>1, <1>2, <1>3, <1>6
<1>8. Reported'
  BY <1>3, <1>6, <1>7, Zenon DEF DeliveryInv, Reported
<1>9. LastCommitSubmitted'
  <2> SUFFICES ASSUME ~ done, lastCommit > 0
               PROVE  lastCommit \in Delivered'
    BY <1>3 DEF LastCommitSubmitted
  <2>1. lastCommit \in Delivered
    BY DEF DeliveryInv, LastCommitSubmitted
  <2>2. lastCommit \in Nat \ {0}
    BY <1>1, <2>1 DEF DeliveryInv, Delivered
  <2> QED BY <1>4, <2>1, <2>2
<1> QED BY <1>5, <1>8, <1>9, DeliveryPartsPrimed

\* The other steps: a loss, Cancel, stuttering.
LEMMA OtherDelivery ==
  ASSUME DeliveryInv,
         Lose \/ Cancel \/ Stopped \/ UNCHANGED vars
  PROVE  DeliveryInv'
<1>1. CASE Cancel
  <2>1. /\ UNCHANGED <<side, pool, lost, pc, lo, hi, sent, verdict, lastCommit>>
        /\ done'
    BY <1>1 DEF Cancel, otherChain, callVars, commitVars
  <2>2. Delivered' = Delivered
    BY <2>1 DEF Delivered
  <2>3. Reported' /\ LastCommitSubmitted'
    BY <2>1, <2>2, Zenon DEF DeliveryInv, Reported, LastCommitSubmitted
  <2>4. Domain'
    BY <2>1 DEF DeliveryInv, Domain
  <2> QED BY <2>3, <2>4, DeliveryPartsPrimed
<1>2. CASE UNCHANGED vars
  BY <1>2, FrameDelivery DEF vars, DeliveryInv
<1>3. CASE Stopped
  BY <1>2, <1>3 DEF Stopped
<1>4. CASE Lose
  <2> PICK h \in pool : pool' = pool \ {h} /\ lost' = lost \cup {h}
    BY <1>4 DEF Lose
  <2>1. UNCHANGED <<side, done, pc, lo, hi, sent, verdict, lastCommit>>
    BY <1>4 DEF Lose, callVars, commitVars
  <2>2. Delivered' = Delivered
    BY <2>1 DEF Delivered
  <2>3. Reported' /\ LastCommitSubmitted'
    BY <2>1, <2>2, Zenon DEF DeliveryInv, Reported, LastCommitSubmitted
  <2>4. Domain'
    BY <2>1 DEF DeliveryInv, Domain
  <2> QED BY <2>3, <2>4, DeliveryPartsPrimed
<1> QED BY <1>1, <1>2, <1>3, <1>4

\* DeliveryInv holds in every reachable state: what is sent, confirmed, found to
\* exist, reported or remembered is in the contract or was sent to it.
THEOREM Delivery ==
  ASSUME Relays PROVE Spec => []DeliveryInv
<1>1. DeliveryInv /\ [Next]_vars => DeliveryInv'
  BY CallDelivery, ExistenceDelivery, PrepareDelivery, SendDelivery, ConfirmDelivery,
     RetryDelivery, CommitDelivery, MissingDelivery, MineDelivery, OtherDelivery
  DEF Next, Step
<1> QED BY <1>1, InitDelivery, PTL DEF Spec

\* What eth.Submitter remembers as its last commit is a header that the contract
\* has or that was sent to it, however often it retried and whatever failed.
THEOREM LastCommitIsSubmitted ==
  ASSUME Relays PROVE Spec => []LastCommitSubmitted
<1>1. DeliveryInv => LastCommitSubmitted
  BY DEF DeliveryInv
<1> QED BY <1>1, Delivery, PTL

\* A nil from SubmitHeadersWithLoop of eth.Submitter, for a single header, means
\* that the header is submitted.
THEOREM NilIsSubmitted ==
  ASSUME Relays PROVE Spec => []NilMeansSubmitted
<1>1. DeliveryInv => NilMeansSubmitted
  BY DEF DeliveryInv, NilMeansSubmitted
<1> QED BY <1>1, Delivery, PTL

-----------------------------------------------------------------------------
(* eth.Submitter keeps the promise the submit loop relies on. *)

PromiseStep == Promise!Next \/ UNCHANGED Promise!vars

\* What a call does inside, but for its transactions, the loop does not see.
LEMMA SilentPromise ==
  ASSUME pc # "idle", pc' # "idle", UNCHANGED <<side, pool, done, lo, sent>>
  PROVE  PromiseStep
BY DEF PromiseStep, Promise!vars

\* A call begins; the last one, if there was one, has returned.
LEMMA CallPromise ==
  ASSUME Relays, Call PROVE PromiseStep
<1>1. /\ pc = "idle" /\ pc' = "exist" /\ sent' = FALSE
      /\ lo' \in Nat \ {0}
      /\ UNCHANGED <<side, pool, done>>
  BY SubmitterAssumption DEF Relays, Call, CallFor, Ignores, otherChain
<1>2. Promise!Call
  BY <1>1 DEF Promise!Call
<1> QED BY <1>2 DEF PromiseStep, Promise!Next

LEMMA InsidePromise ==
  ASSUME DeliveryInv,
         \/ HeaderExists \/ HeaderMissing \/ ExistenceError
         \/ PrepareOk \/ PrepareError \/ ConfirmOk \/ RetryDone \/ Retry
  PROVE  PromiseStep
<1>1. UNCHANGED <<side, pool, done, lo, sent>>
  BY DEF HeaderExists, HeaderMissing, ExistenceError, PrepareOk, PrepareError,
     ConfirmOk, RetryDone, Retry, otherChain, callVars
<1>2. pc # "idle" /\ pc' # "idle"
  BY DEF HeaderExists, HeaderMissing, ExistenceError, PrepareOk, PrepareError,
     ConfirmOk, RetryDone, Retry
<1> QED BY <1>1, <1>2, SilentPromise

\* A transaction is sent, or not; an attempt ends without its answer.
LEMMA AttemptPromise ==
  ASSUME DeliveryInv, SendTx \/ ConfirmError PROVE PromiseStep
<1>1. CASE SendTx /\ sent' = TRUE
  <2>1. /\ pc = "send" /\ pc' = "confirm" /\ ~ sent /\ lo <= side + 1
        /\ UNCHANGED <<side, done, lo>>
    BY <1>1 DEF SendTx, DeliveryInv
  <2>2. pool' = pool \cup {lo}
    BY <1>1 DEF SendTx, Submitted
  <2>3. pool' \ 1 .. side' = (pool \ 1 .. side) \cup ({lo} \ 1 .. side)
    BY <2>1, <2>2
  <2>4. Promise!Send
    BY <1>1, <2>1, <2>3 DEF Promise!Send
  <2> QED BY <2>4 DEF PromiseStep, Promise!Next
<1>2. CASE (SendTx /\ sent' = FALSE) \/ ConfirmError
  <2>1. /\ pc # "idle" /\ pc' # "idle" /\ sent' = FALSE
        /\ UNCHANGED <<side, done, lo>>
    BY <1>2 DEF SendTx, ConfirmError, otherChain
  <2>2. pool' = pool
    BY <1>2 DEF SendTx, ConfirmError, otherChain
  <2>3. Promise!TryAgain
    BY <2>1, <2>2 DEF Promise!TryAgain
  <2> QED BY <2>3 DEF PromiseStep, Promise!Next
<1> QED BY <1>1, <1>2 DEF SendTx

\* An error is the answer.
LEMMA ErrorPromise ==
  ASSUME PrepareInconsistent \/ GiveUp \/ CommitMissing
  PROVE  PromiseStep
<1>1. /\ pc # "idle" /\ pc' = "idle" /\ sent' = FALSE
      /\ verdict' \notin {"none", "nil"}
      /\ UNCHANGED <<side, pool, done, lo>>
  BY DEF PrepareInconsistent, GiveUp, CommitMissing, Return, otherChain
<1>2. Promise!ReturnError
  BY <1>1 DEF Promise!ReturnError
<1> QED BY <1>2 DEF PromiseStep, Promise!Next

\* nil is the answer.
LEMMA NilPromise ==
  ASSUME DeliveryInv, CommitSucceeds \/ CommitUnchecked
  PROVE  PromiseStep
<1>1. /\ pc = "check" /\ pc' = "idle" /\ sent' = FALSE /\ verdict' = "nil"
      /\ UNCHANGED <<side, pool, done, lo>>
  BY DEF CommitSucceeds, CommitUnchecked, Return, otherChain
<1>2. sent \/ lo <= side \/ done
  BY <1>1 DEF DeliveryInv
<1>3. Promise!ReturnNil
  BY <1>1, <1>2 DEF Promise!ReturnNil
<1> QED BY <1>3 DEF PromiseStep, Promise!Next

\* A mined header is the next one, or one the contract has already.
LEMMA MinePromise ==
  ASSUME DeliveryInv, Mine PROVE PromiseStep
<1> PICK h \in pool : /\ pool' = pool \ {h}
                      /\ side' = IF h = side + 1 THEN h ELSE side
  BY DEF Mine
<1>1. side \in Nat /\ h \in Nat \ {0} /\ h <= side + 1
  BY DEF DeliveryInv
<1>2. UNCHANGED <<done, pc, lo, sent, verdict>>
  BY DEF Mine, callVars
<1>3. CASE h = side + 1
  <2>1. side + 1 \in pool \ 1 .. side
    BY <1>1, <1>3
  <2>2. pool' \ 1 .. side' = (pool \ 1 .. side) \ {side'}
    BY <1>1, <1>3
  <2>3. Promise!Mine
    BY <1>2, <1>3, <2>1, <2>2 DEF Promise!Mine
  <2> QED BY <2>3 DEF PromiseStep, Promise!Next
<1>4. CASE h # side + 1
  <2>1. side' = side /\ pool' \ 1 .. side' = pool \ 1 .. side
    BY <1>1, <1>4
  <2> QED BY <1>2, <2>1 DEF PromiseStep, Promise!vars
<1> QED BY <1>3, <1>4

\* A lost transaction; the rest of the environment.
LEMMA OtherPromise ==
  ASSUME DeliveryInv, Lose \/ Cancel \/ Stopped \/ UNCHANGED vars
  PROVE  PromiseStep
<1>1. CASE Lose
  <2> PICK h \in pool : pool' = pool \ {h}
    BY <1>1 DEF Lose
  <2>1. UNCHANGED <<side, done, pc, lo, sent, verdict>>
    BY <1>1 DEF Lose, callVars
  <2>2. CASE h \in 1 .. side
    <3>1. pool' \ 1 .. side' = pool \ 1 .. side
      BY <2>1, <2>2
    <3> QED BY <2>1, <3>1 DEF PromiseStep, Promise!vars
  <2>3. CASE h \notin 1 .. side
    <3>1. pool' \ 1 .. side' = (pool \ 1 .. side) \ {h}
      BY <2>1
    <3>2. Promise!Lose
      BY <2>1, <2>3, <3>1 DEF Promise!Lose
    <3> QED BY <3>2 DEF PromiseStep, Promise!Next
  <2> QED BY <2>2, <2>3
<1>2. CASE Cancel
  <2>1. ~ done /\ done' = TRUE /\ UNCHANGED <<side, pool, pc, lo, sent, verdict>>
    BY <1>2 DEF Cancel, otherChain, callVars
  <2>2. Promise!Cancel
    BY <2>1 DEF Promise!Cancel
  <2> QED BY <2>2 DEF PromiseStep, Promise!Next
<1>3. CASE Stopped \/ UNCHANGED vars
  <2>1. UNCHANGED <<side, pool, done, pc, lo, sent, verdict>>
    BY <1>3 DEF Stopped, vars
  <2> QED BY <2>1 DEF PromiseStep, Promise!vars
<1> QED BY <1>1, <1>2, <1>3

LEMMA InitPromise ==
  ASSUME Init PROVE Promise!Init
BY DEF Init, Promise!Init

\* A call to eth.Submitter.SubmitHeadersWithLoop with one header implements
\* Submission, whatever is read, sent, lost or retried inside it.
THEOREM Promised ==
  ASSUME Relays PROVE Spec => PromiseKept
<1>1. DeliveryInv /\ [Next]_vars => PromiseStep
  BY CallPromise, InsidePromise, AttemptPromise, ErrorPromise, NilPromise,
     MinePromise, OtherPromise
  DEF Next, Step
<1>2. Init => Promise!Init
  BY InitPromise
<1>3. PromiseStep => [Promise!Next]_(Promise!vars)
  BY DEF PromiseStep
<1> QED BY <1>1, <1>2, <1>3, Delivery, PTL DEF Spec, PromiseKept, Promise!Spec

-----------------------------------------------------------------------------
(* Types, for both submitters and any batch *)

\* A call has headers; attempts are counted before they are compared; the check of
\* the last commit is counted from the first commit on.
TypeInv ==
  /\ TypeOK
  /\ IsFiniteSet(lost)
  /\ pc # "idle" => lo \in 1 .. MaxHeight /\ hi \in 1 .. MaxHeight
  /\ pc = "exist" => attempt <= MaxAttempts
  /\ lastCommit = 0 => lastCheck = 0

\* Init satisfies it.
LEMMA InitType ==
  ASSUME Init, Genesis <= MaxHeight
  PROVE  TypeInv
<1> USE SubmitterAssumption DEF Init
<1>1. IsFiniteSet(lost) /\ Cardinality(lost) = 0
  BY FS_EmptySet
<1>2. side \in 0 .. MaxHeight /\ attempt \in 0 .. MaxAttempts + 1
  OBVIOUS
<1>3. lastCheck \in 0 .. CheckAfter + 1 /\ lastCommit \in 0 .. MaxHeight
  OBVIOUS
<1>4. errors \in 0 .. MaxErrors /\ Cardinality(lost) <= MaxLost
  BY <1>1
<1> QED BY <1>1, <1>2, <1>3, <1>4 DEF TypeInv, TypeOK

\* A call returns.
LEMMA ReturnType ==
  ASSUME TypeInv, NEW v \in {"nil", "inconsistent", "failure", "missing"}, Return(v),
         UNCHANGED <<otherChain, done, lo, hi>>,
         lastCommit' \in 0 .. MaxHeight, lastCheck' \in 0 .. CheckAfter + 1,
         lastCommit' = 0 => lastCheck' = 0, errors' \in 0 .. MaxErrors
  PROVE  TypeInv'
<1>1. attempt' = 0 /\ sent' = FALSE /\ pc' = "idle"
  BY DEF Return
<1>2. 0 \in 0 .. MaxAttempts + 1
  BY SubmitterAssumption
<1>3. verdict' \in {"none", "nil", "inconsistent", "failure", "missing"}
  BY DEF Return
<1>4. UNCHANGED <<side, pool, lost, done, lo, hi>>
  BY DEF otherChain
<1> QED BY <1>1, <1>2, <1>3, <1>4 DEF TypeInv, TypeOK

\* A call begins.
LEMMA CallType ==
  ASSUME TypeInv, Call
  PROVE  TypeInv'
<1> USE SubmitterAssumption DEF TypeInv, TypeOK
<1>1. PICK l \in 1 .. MaxHeight, n \in 1 .. Batch :
        l + n - 1 <= MaxHeight /\ CallFor(l, l + n - 1)
  BY DEF Call
<1>2. l \in 1 .. MaxHeight /\ l + n - 1 \in 1 .. MaxHeight
  BY <1>1
<1>3. UNCHANGED <<side, pool, lost, done, lastCommit, lastCheck, errors>>
  BY <1>1 DEF CallFor, otherChain, commitVars
<1>4. /\ lo' = l /\ hi' = l + n - 1 /\ attempt' = 0 /\ sent' = FALSE
      /\ verdict' \in {"nil", "none"} /\ pc' \in {"idle", "exist"}
  BY <1>1 DEF CallFor
<1>5. attempt' <= MaxAttempts /\ attempt' \in 0 .. MaxAttempts + 1
  BY <1>4
<1>6. /\ pc' \in {"idle", "exist", "prepare", "send", "confirm", "retry", "check"}
      /\ verdict' \in {"none", "nil", "inconsistent", "failure", "missing"}
  BY <1>4
<1>7. lo' \in 1 .. MaxHeight /\ hi' \in 1 .. MaxHeight
  BY <1>2, <1>4
<1>8. sent' \in BOOLEAN
  <2> HIDE DEF TypeInv, TypeOK
  <2> QED BY <1>4, Zenon
<1>9. TypeOK'
  <2>1. TypeOK
    OBVIOUS
  <2>2. /\ (lo \in 1 .. MaxHeight \cup {1})' /\ (hi \in 1 .. MaxHeight \cup {1})'
    BY <1>7
  <2> HIDE DEF TypeInv
  <2> QED BY <2>1, <1>3, <1>5, <1>6, <1>8, <2>2, Zenon
<1>10. /\ (pc # "idle" => lo \in 1 .. MaxHeight /\ hi \in 1 .. MaxHeight)'
       /\ (pc = "exist" => attempt <= MaxAttempts)'
  BY <1>5, <1>7
<1>11. IsFiniteSet(lost)' /\ (lastCommit = 0 => lastCheck = 0)'
  BY <1>3
<1> HIDE DEF TypeOK
<1> QED BY <1>9, <1>10, <1>11

\* The steps that leave the counters alone.
LEMMA InsideType ==
  ASSUME TypeInv,
         \/ HeaderExists \/ PrepareOk \/ PrepareInconsistent \/ PrepareError
         \/ SendTx \/ ConfirmOk \/ ConfirmError \/ RetryDone \/ GiveUp
  PROVE  TypeInv'
<1> USE SubmitterAssumption DEF TypeInv, TypeOK, otherChain, callVars, commitVars, Return
<1>1. CASE HeaderExists \/ PrepareOk \/ PrepareError \/ ConfirmOk \/ RetryDone
  BY <1>1 DEF HeaderExists, PrepareOk, PrepareError, ConfirmOk, RetryDone
<1>2. CASE PrepareInconsistent \/ GiveUp
  <2>1. UNCHANGED <<otherChain, done, lo, hi, lastCommit, lastCheck, errors>>
    BY <1>2 DEF PrepareInconsistent, GiveUp
  <2>2. Return("inconsistent") \/ Return("failure")
    BY <1>2 DEF PrepareInconsistent, GiveUp
  <2> HIDE DEF Return, otherChain
  <2>3. /\ lastCommit' \in 0 .. MaxHeight /\ lastCheck' \in 0 .. CheckAfter + 1
        /\ lastCommit' = 0 => lastCheck' = 0
        /\ errors' \in 0 .. MaxErrors
    BY <2>1
  <2> HIDE DEF TypeInv
  <2> QED BY <2>1, <2>2, <2>3, ReturnType
<1>3. CASE SendTx \/ ConfirmError
  BY <1>3 DEF SendTx, ConfirmError, Submitted
<1> QED BY <1>1, <1>2, <1>3

\* The steps that count something.
LEMMA CountType ==
  ASSUME TypeInv,
         \/ HeaderMissing \/ ExistenceError \/ Retry
         \/ CommitSucceeds \/ CommitUnchecked \/ CommitMissing
  PROVE  TypeInv'
<1> USE SubmitterAssumption DEF TypeInv, TypeOK, otherChain, callVars, commitVars, Return
<1>1. CASE HeaderMissing
  BY <1>1 DEF HeaderMissing
<1>2. CASE ExistenceError
  BY <1>2 DEF ExistenceError, ReadFails
<1>3. CASE Retry
  BY <1>3 DEF Retry, TooManyAttempts
<1>4. CASE CommitSucceeds \/ CommitUnchecked \/ CommitMissing
  <2>1. UNCHANGED <<otherChain, done, lo, hi>> /\ pc = "check"
    BY <1>4 DEF CommitSucceeds, CommitUnchecked, CommitMissing
  <2>2. Return("nil") \/ Return("missing")
    BY <1>4 DEF CommitSucceeds, CommitUnchecked, CommitMissing
  <2>3. lastCommit' = hi \/ (lastCommit' = lastCommit /\ lastCommit > 0)
    BY <1>4 DEF CommitSucceeds, CommitUnchecked, CommitMissing, ChecksLastCommit
  <2>4. lastCommit' \in 1 .. MaxHeight
    BY <2>1, <2>3
  <2>5. lastCheck' \in 0 .. CheckAfter + 1
    BY <1>4 DEF CommitSucceeds, CommitUnchecked, CommitMissing, ChecksLastCommit
  <2>6. errors' \in 0 .. MaxErrors
    BY <1>4 DEF CommitSucceeds, CommitUnchecked, CommitMissing, ReadFails
  <2>7. lastCommit' \in 0 .. MaxHeight /\ (lastCommit' = 0 => lastCheck' = 0)
    BY <2>4
  <2> HIDE DEF TypeInv, Return, otherChain
  <2> QED BY <2>1, <2>2, <2>5, <2>6, <2>7, ReturnType
<1> QED BY <1>1, <1>2, <1>3, <1>4

\* The steps of the other chain and of the process.
LEMMA OutsideType ==
  ASSUME TypeInv, Mine \/ Lose \/ Cancel \/ Stopped \/ UNCHANGED vars
  PROVE  TypeInv'
<1> USE SubmitterAssumption DEF TypeInv, TypeOK, otherChain, callVars, commitVars, vars
<1>1. CASE Mine
  BY <1>1 DEF Mine
<1>2. CASE Lose
  <2> PICK h \in pool : lost' = lost \cup {h} /\ pool' = pool \ {h}
    BY <1>2 DEF Lose
  <2>1. /\ IsFiniteSet(lost \cup {h}) /\ Cardinality(lost) \in Nat
        /\ \/ Cardinality(lost \cup {h}) = Cardinality(lost)
           \/ Cardinality(lost \cup {h}) = Cardinality(lost) + 1
    <3> HIDE DEF TypeOK
    <3> QED BY FS_AddElement, FS_CardinalityType
  <2>2. Cardinality(lost) < MaxLost
    BY <1>2 DEF Lose
  <2>3. IsFiniteSet(lost') /\ Cardinality(lost') <= MaxLost
    BY <2>1, <2>2
  <2> QED BY <1>2, <2>1, <2>3 DEF Lose
<1>3. CASE Cancel \/ Stopped \/ UNCHANGED vars
  <2>1. /\ done' \in BOOLEAN
        /\ UNCHANGED <<side, pool, lost, callVars, pc, verdict, commitVars, errors>>
    BY <1>3 DEF Cancel, Stopped
  <2> QED BY <2>1
<1> QED BY <1>1, <1>2, <1>3

\* The locals of SubmitHeadersWithLoop and the counters of the submitter stay in
\* their ranges: no more attempts than the limit and one, and a check of the last
\* commit before it is overdue.
THEOREM SubmitterTypes ==
  ASSUME Genesis <= MaxHeight
  PROVE  Spec => []TypeOK
<1>1. TypeInv /\ [Next]_vars => TypeInv'
  BY CallType, InsideType, CountType, OutsideType DEF Next, Step
<1>2. Init => TypeInv
  BY InitType
<1>3. TypeInv => TypeOK
  BY DEF TypeInv
<1> QED BY <1>1, <1>2, <1>3, PTL DEF Spec

-----------------------------------------------------------------------------
(* Termination of a call, and what never submits *)

\* What is left of the reads and of the attempts.
Rest == (MaxErrors - errors) + (MaxAttempts + 1 - attempt)

\* It cannot be overdrawn.
LEMMA RestNat ==
  ASSUME NEW e \in 0 .. MaxErrors, NEW a \in 0 .. MaxAttempts + 1
  PROVE  /\ (MaxErrors - e) + (MaxAttempts + 1 - a) \in Nat
         /\ 1 + (MaxErrors - e) + (MaxAttempts + 1 - a)
              = 1 + ((MaxErrors - e) + (MaxAttempts + 1 - a))
BY SubmitterAssumption

\* Effort in the terms of Rest.
LEMMA EffortFacts ==
  ASSUME TypeInv
  PROVE  /\ Rest \in Nat
         /\ pc = "idle" => Effort = 0
         /\ done =>
              /\ pc = "exist" => Effort = 6
              /\ pc = "prepare" => Effort = 5
              /\ pc = "send" => Effort = 4
              /\ pc = "confirm" => Effort = 3
              /\ pc = "retry" => Effort = 2
              /\ pc = "check" => Effort = 1
         /\ ~ done =>
              /\ pc = "exist" => Effort = 7 * (1 + Rest) + 2
              /\ pc = "prepare" => Effort = 7 * (1 + Rest) + 6
              /\ pc = "send" => Effort = 7 * (1 + Rest) + 5
              /\ pc = "confirm" => Effort = 7 * (1 + Rest) + 4
              /\ pc = "retry" => Effort = 7 * (1 + Rest) + 3
              /\ pc = "check" => Effort = 7 * (1 + Rest) + 1
<1>1. errors \in 0 .. MaxErrors /\ attempt \in 0 .. MaxAttempts + 1
  BY DEF TypeInv, TypeOK
<1>2. Rest \in Nat
  BY <1>1, RestNat DEF Rest
<1>3. 1 + (MaxErrors - errors) + (MaxAttempts + 1 - attempt) = 1 + Rest
  BY <1>1, RestNat DEF Rest
<1> QED BY <1>2, <1>3 DEF Effort

\* So after a step.
LEMMA EffortFactsNext ==
  ASSUME TypeInv'
  PROVE  /\ Rest' \in Nat
         /\ pc' = "idle" => Effort' = 0
         /\ done' =>
              /\ pc' = "exist" => Effort' = 6
              /\ pc' = "prepare" => Effort' = 5
              /\ pc' = "send" => Effort' = 4
              /\ pc' = "confirm" => Effort' = 3
              /\ pc' = "retry" => Effort' = 2
              /\ pc' = "check" => Effort' = 1
         /\ ~ done' =>
              /\ pc' = "exist" => Effort' = 7 * (1 + Rest') + 2
              /\ pc' = "prepare" => Effort' = 7 * (1 + Rest') + 6
              /\ pc' = "send" => Effort' = 7 * (1 + Rest') + 5
              /\ pc' = "confirm" => Effort' = 7 * (1 + Rest') + 4
              /\ pc' = "retry" => Effort' = 7 * (1 + Rest') + 3
              /\ pc' = "check" => Effort' = 7 * (1 + Rest') + 1
<1>1. errors' \in 0 .. MaxErrors /\ attempt' \in 0 .. MaxAttempts + 1
  BY DEF TypeInv, TypeOK
<1>2. Rest' \in Nat
  BY <1>1, RestNat DEF Rest
<1>3. 1 + (MaxErrors - errors') + (MaxAttempts + 1 - attempt') = 1 + Rest'
  BY <1>1, RestNat DEF Rest
<1> QED BY <1>2, <1>3 DEF Effort

\* A step of a call goes on in its round, or begins one more at the cost of a read
\* or an attempt.
LEMMA EffortStep ==
  ASSUME TypeInv, TypeInv', Step
  PROVE  pc # "idle" /\ pc' # pc /\ Effort' < Effort
<1>1. done' = done /\ pc # "idle" /\ pc' # pc
  BY DEF Step, HeaderExists, HeaderMissing, ExistenceError, PrepareOk, PrepareInconsistent,
     PrepareError, SendTx, ConfirmOk, ConfirmError, RetryDone, GiveUp, Retry, CommitSucceeds,
     CommitUnchecked, CommitMissing, Return
<1>2. /\ errors \in Nat /\ attempt \in Nat /\ errors' \in Nat /\ attempt' \in Nat
      /\ MaxErrors \in Nat /\ MaxAttempts \in Nat
  BY SubmitterAssumption DEF TypeInv, TypeOK
<1>3. CASE HeaderExists \/ PrepareOk \/ PrepareError \/ SendTx \/ ConfirmOk \/ ConfirmError
           \/ RetryDone \/ Retry
  <2>1. UNCHANGED <<errors, attempt>>
    BY <1>3 DEF HeaderExists, PrepareOk, PrepareError, SendTx, ConfirmOk, ConfirmError,
       RetryDone, Retry, callVars
  <2>2. Rest' = Rest
    BY <2>1 DEF Rest
  <2>3. \/ pc = "exist" /\ pc' = "check"
        \/ pc = "prepare" /\ pc' \in {"send", "retry"}
        \/ pc = "send" /\ pc' = "confirm"
        \/ pc = "confirm" /\ pc' \in {"check", "retry"}
        \/ pc = "retry" /\ done /\ pc' = "check"
        \/ pc = "retry" /\ ~ done /\ pc' = "exist"
    BY <1>3 DEF HeaderExists, PrepareOk, PrepareError, SendTx, ConfirmOk, ConfirmError,
       RetryDone, Retry
  <2> QED BY <1>1, <2>2, <2>3, EffortFacts, EffortFactsNext
<1>4. CASE HeaderMissing
  <2>1. pc = "exist" /\ pc' = "prepare" /\ attempt' = attempt + 1 /\ errors' = errors
    BY <1>4 DEF HeaderMissing
  <2>2. Rest' = Rest - 1
    BY <1>2, <2>1 DEF Rest
  <2> QED BY <1>1, <2>1, <2>2, EffortFacts, EffortFactsNext
<1>5. CASE ExistenceError
  <2>1. pc = "exist" /\ pc' = "retry" /\ attempt' = attempt
    BY <1>5 DEF ExistenceError, callVars
  <2>2. done \/ errors' = errors + 1
    BY <1>5 DEF ExistenceError, ReadFails
  <2>3. errors' = errors + 1 => Rest' = Rest - 1
    BY <1>2, <2>1 DEF Rest
  <2>4. done => Effort' < Effort
    BY <1>1, <2>1, EffortFacts, EffortFactsNext
  <2>5. ~ done => Effort' < Effort
    BY <1>1, <2>1, <2>2, <2>3, EffortFacts, EffortFactsNext
  <2> QED BY <1>1, <2>1, <2>4, <2>5, EffortFacts, EffortFactsNext
<1>6. CASE PrepareInconsistent \/ GiveUp \/ CommitSucceeds \/ CommitUnchecked \/ CommitMissing
  <2>1. pc \in {"prepare", "retry", "check"} /\ pc' = "idle"
    BY <1>6 DEF PrepareInconsistent, GiveUp, CommitSucceeds, CommitUnchecked, CommitMissing, Return
  <2> QED BY <1>1, <2>1, EffortFacts, EffortFactsNext
<1> QED BY <1>1, <1>3, <1>4, <1>5, <1>6 DEF Step

\* Nothing outside a call makes it longer, Cancel least of all.
LEMMA EffortOutside ==
  ASSUME TypeInv, TypeInv', pc # "idle",
         Mine \/ Lose \/ Cancel \/ Stopped \/ UNCHANGED vars
  PROVE  pc' = pc /\ Effort' <= Effort
<1>1. UNCHANGED <<pc, errors, attempt>>
  BY DEF Mine, Lose, Cancel, Stopped, callVars, vars
<1>2. Rest' = Rest
  BY <1>1 DEF Rest
<1>3. done => done'
  BY DEF Mine, Lose, Cancel, Stopped, vars
<1>4. pc \in {"exist", "prepare", "send", "confirm", "retry", "check"}
  BY DEF TypeInv, TypeOK
<1> QED BY <1>1, <1>2, <1>3, <1>4, EffortFacts, EffortFactsNext

\* Both submitters, any batch: every step of SubmitHeadersWithLoop uses up something
\* that nothing gives back, so a call ends as soon as its steps are taken, within
\* a number of them that its attempts and the failed reads bound.
THEOREM CallsAreFinite ==
  ASSUME Genesis <= MaxHeight
  PROVE  Spec => EffortShrinks
<1>1. TypeInv /\ [Next]_vars => TypeInv'
  BY CallType, InsideType, CountType, OutsideType DEF Next, Step
<1>2. Init => TypeInv
  BY InitType
<1>3. TypeInv /\ TypeInv' /\ [Next]_vars =>
        [pc # "idle" => IF pc' # pc THEN Effort' < Effort ELSE Effort' <= Effort]_vars
  <2> SUFFICES ASSUME TypeInv, TypeInv', [Next]_vars, pc # "idle"
               PROVE  IF pc' # pc THEN Effort' < Effort ELSE Effort' <= Effort
    OBVIOUS
  <2>1. CASE Step
    BY <2>1, EffortStep
  <2>2. CASE Mine \/ Lose \/ Cancel \/ Stopped \/ UNCHANGED vars
    BY <2>2, EffortOutside
  <2>3. ~ Call
    BY DEF Call, CallFor
  <2> QED BY <2>1, <2>2, <2>3 DEF Next
<1> QED BY <1>1, <1>2, <1>3, PTL DEF Spec, EffortShrinks

\* top.Submitter, and eth.Submitter given a chain id other than TOP's, never get to
\* a transaction.
Silent ==
  /\ NothingSent
  /\ pc \in {"idle", "exist", "retry", "check"}
  /\ Ignores => pc = "idle"

\* Every step keeps it.
LEMMA SilentStep ==
  ASSUME Kind = "top" \/ Ignores, Silent, [Next]_vars
  PROVE  Silent'
<1>1. CASE Call
  BY <1>1 DEF Call, CallFor, Silent, NothingSent, Ignores, otherChain
<1>2. CASE Mine \/ Lose \/ Cancel \/ Stopped \/ UNCHANGED vars
  BY <1>2 DEF Mine, Lose, Cancel, Stopped, vars, Silent, NothingSent, Ignores, otherChain
<1>3. CASE Step
  <2>1. Kind # "eth"
    BY <1>3 DEF Step, HeaderExists, HeaderMissing, ExistenceError, PrepareOk,
       PrepareInconsistent, PrepareError, SendTx, ConfirmOk, ConfirmError, RetryDone, GiveUp,
       Retry, CommitSucceeds, CommitUnchecked, CommitMissing, Silent, Ignores
  <2>2. ~ HeaderMissing
    BY <2>1 DEF HeaderMissing, CheckHeaderExistence, TopCheckHeaderExistence
  <2>3. \/ HeaderExists \/ ExistenceError \/ RetryDone \/ GiveUp \/ Retry
        \/ CommitSucceeds \/ CommitUnchecked \/ CommitMissing
    BY <1>3, <2>2 DEF Step, PrepareOk, PrepareInconsistent, PrepareError, SendTx, ConfirmOk,
       ConfirmError, Silent
  <2>4. UNCHANGED otherChain /\ pc' \in {"idle", "exist", "retry", "check"}
    BY <2>3 DEF HeaderExists, ExistenceError, RetryDone, GiveUp, Retry, CommitSucceeds,
       CommitUnchecked, CommitMissing, Return
  <2> QED BY <2>1, <2>4 DEF Silent, NothingSent, Ignores, otherChain
<1> QED BY <1>1, <1>2, <1>3 DEF Next

\* SubmitHeadersWithLoop of top.Submitter, and of eth.Submitter unless the chain id
\* is TOP's, sends nothing, whatever the calls, the batch, the failures and the
\* heights: submitHeadersWithLoop drops the comparison, or is not entered.
THEOREM NeverSends ==
  ASSUME Kind = "top" \/ Ignores
  PROVE  Spec => []NothingSent
<1>1. Init => Silent
  BY DEF Init, Silent, NothingSent
<1>2. Silent /\ [Next]_vars => Silent'
  BY SilentStep
<1>3. Silent => NothingSent
  BY DEF Silent
<1> QED BY <1>1, <1>2, <1>3, PTL DEF Spec
=============================================================================
