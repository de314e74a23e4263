---------------------------- MODULE RelayerProofs ----------------------------
(***************************************************************************)
(* The whole relayer, for every length of the channel, number of           *)
(* confirmations, chain and number of restarts: the contract follows the   *)
(* confirmed source chain, and the relayer implements LightClient.         *)
(*                                                                         *)
(* The pipeline's own invariant is kept by the lemmas of HeaderSyncProofs; *)
(* what is new is how the contract depends on it, and that a process which *)
(* begins where the contract is begins in a state the pipeline may be in.  *)
(***************************************************************************)
EXTENDS Relayer, HeaderSyncProofs

\* What does not concern the pipeline.
Contract ==
  /\ side \in Nat /\ pool \subseteq Nat
  /\ tip >= Start
  /\ Follows

Positive ==
  /\ \A i \in 1 .. Len(ch) : ch[i] > 0
  /\ spc \in {"submit", "reset"} => hdr > 0

LEMMA Parts == RInv <=> IInv /\ Contract /\ Positive
BY DEF RInv, Contract, Positive

LEMMA PartsPrimed == RInv' <=> IInv' /\ Contract' /\ Positive'
BY DEF RInv, Contract, Positive

LEMMA InitRInv == RInit => RInv
<1> SUFFICES ASSUME RInit PROVE RInv
  OBVIOUS
<1>1. IInv
  BY InitIInv DEF RInit
<1>2. Contract
  BY ConfigAssumption DEF RInit, Init, Contract, Follows
<1>3. Positive
  BY DEF RInit, Init, Fresh, Positive
<1> QED BY <1>1, <1>2, <1>3, Parts

\* A process that begins at or below the height of its source is one that the
\* invariant of the pipeline admits.
Begins ==
  /\ tip \in Nat /\ height \in Nat
  /\ height <= tip
  /\ tip <= MaxHeight \/ tip = Start
  /\ Fresh(height)

LEMMA BeginsIInv == Begins => IInv
BY FreshIInv DEF Begins

LEMMA BeginsPrimed == Begins' => IInv'
BY BeginsIInv, PTL

\* The contract and the pool stay, the source chain may grow.
LEMMA FrameContract ==
  ASSUME RInv, UNCHANGED <<side, pool>>, tip' \in Nat, tip' >= tip
  PROVE  Contract'
BY ConfigAssumption DEF RInv, IInv, TypeOK, Contract, Follows

-----------------------------------------------------------------------------
(* Steps of the pipeline *)

\* Headers leave ch at its head, or are put on it at a height above 0.
LEMMA TakenPositive ==
  ASSUME IInv, Positive,
         \/ ch' = ch
         \/ ch # <<>> /\ ch' = Tail(ch)
         \/ ch' = Append(ch, height) /\ height > 0
  PROVE  \A i \in 1 .. Len(ch') : ch'[i] > 0
<1>0. ch \in Seq(Nat) /\ height \in Nat
  BY DEF IInv, TypeOK
<1>1. CASE ch' = ch
  BY <1>1 DEF Positive
<1>2. CASE ch # <<>> /\ ch' = Tail(ch)
  BY <1>0, <1>2, TailFacts DEF Positive
<1>3. CASE ch' = Append(ch, height) /\ height > 0
  BY <1>0, <1>3, AppendFacts DEF Positive
<1> QED BY <1>1, <1>2, <1>3

LEMMA HandlerStep ==
  ASSUME RInv, RunHandler PROVE RInv'
<1>1. IInv'
  BY HandlerInv DEF RInv, RunHandler
<1>2. UNCHANGED <<tip, side, pool, spc, hdr>>
  BY DEF RunHandler, Handler, chainVars, submitterVars, contractVars
<1>3. Contract'
  BY <1>2, FrameContract DEF RInv, IInv, TypeOK
<1>4. \/ ch' = ch
      \/ ch # <<>> /\ ch' = Tail(ch)
      \/ ch' = Append(ch, height) /\ height > 0
  <2>1. CASE Drain
    BY <2>1 DEF Drain
  <2>2. CASE Send
    BY <2>2 DEF Send, RInv, IInv, HandlerBounds
  <2>3. CASE SelectReset \/ SelectStaleReset \/ SelectDone \/ SelectDefault
    BY <2>3 DEF SelectReset, SelectStaleReset, SelectDone, SelectDefault, BreakLoop
  <2>4. CASE Rollback
    BY <2>4 DEF Rollback, RollbackToTarget, RollbackMatch, RollbackMiss,
       RollbackAstray, ReturnFromRollback
  <2>5. CASE WaitTillHeight \/ WaitCancelled \/ FetchHeader \/ FetchError \/ SendCancelled
    BY <2>5 DEF WaitTillHeight, WaitCancelled, FetchHeader, FetchError, SendCancelled,
       BreakLoop
  <2> QED BY <2>1, <2>2, <2>3, <2>4, <2>5 DEF RunHandler, Handler
<1>5. Positive'
  BY <1>2, <1>4, TakenPositive, Parts DEF Positive
<1> QED BY <1>1, <1>3, <1>5, PartsPrimed

\* The steps of the submitter that do not touch the pool.
LEMMA SubmitterStep ==
  ASSUME RInv, Receive \/ ReturnNil \/ ReturnError \/ GoBack \/ Leave
  PROVE  RInv'
<1>1. UNCHANGED <<chainVars, handlerVars, closed>>
  BY DEF Receive, ReturnNil, ReturnError, GoBack, Leave, Pipeline
<1>2. IInv'
  BY <1>1, SubmitterInv DEF RInv, Submitter, Receive, ReturnNil, ReturnError, GoBack,
     Leave, Pipeline
<1>3. UNCHANGED <<tip, side, pool>>
  BY <1>1 DEF chainVars, contractVars, Receive, ReturnNil, ReturnError, GoBack, Leave,
     S!Call, S!ReturnNil, S!ReturnError, S!Acknowledge
<1>4. Contract'
  BY <1>3, FrameContract DEF RInv, IInv, TypeOK
<1>5. Positive'
  <2>1. CASE Receive
    <3>1. ch # <<>> /\ ch' = Tail(ch) /\ hdr' > 0
      BY <2>1 DEF Receive, Pipeline, LoopReceive, S!Call
    <3> QED BY <3>1, TakenPositive, Parts DEF Positive
  <2>2. CASE ReturnNil \/ ReturnError \/ GoBack \/ Leave
    <3>1. UNCHANGED <<ch, hdr>>
      BY <2>2 DEF ReturnNil, ReturnError, GoBack, Leave, Pipeline, SubmitNil,
         SubmitError, SendReset, LeaveSyncLoop
    <3>2. spc' \in {"submit", "reset"} => spc = "submit"
      BY <2>2 DEF ReturnNil, ReturnError, GoBack, Leave, Pipeline, SubmitNil,
         SubmitError, SendReset, LeaveSyncLoop
    <3> QED BY <3>1, <3>2, Parts DEF Positive
  <2> QED BY <2>1, <2>2
<1> QED BY <1>2, <1>4, <1>5, PartsPrimed

\* Nothing of the pipeline changes.
LEMMA FrameStep ==
  ASSUME RInv, UNCHANGED vars, Contract'
  PROVE  RInv'
<1>1. IInv'
  BY StutterInv DEF RInv
<1>2. Positive'
  BY Parts DEF vars, Positive
<1> QED BY <1>1, <1>2, PartsPrimed

-----------------------------------------------------------------------------
(* Steps of the contract *)

\* What a transaction adds to the pool.
LEMMA SentHeader ==
  ASSUME RInv, SendTx
  PROVE  /\ UNCHANGED <<vars, side>>
         /\ \/ pool' = pool
            \/ pool' = {side + 1} /\ side + 1 + Confirms <= tip
<1>1. /\ UNCHANGED <<vars, side>> /\ spc = "submit" /\ hdr <= side + 1
      /\ pool' = pool \cup ({hdr} \ 1 .. side)
  BY DEF SendTx, S!Send
<1>2. hdr \in Nat /\ hdr > 0 /\ hdr + Confirms <= tip
  BY <1>1 DEF RInv, IInv, TypeOK, ConfirmedOnly
<1>3. side \in Nat /\ (pool # {} => pool = {side + 1})
  BY DEF RInv, Follows
<1>4. CASE hdr <= side
  BY <1>1, <1>2, <1>3, <1>4
<1>5. CASE hdr = side + 1
  BY <1>1, <1>2, <1>3, <1>5
<1> QED BY <1>1, <1>2, <1>3, <1>4, <1>5

LEMMA SendStep ==
  ASSUME RInv, SendTx PROVE RInv'
<1>1. Contract'
  BY SentHeader DEF vars, RInv, Contract, Follows
<1> QED BY <1>1, SentHeader, FrameStep

LEMMA MinedHeader ==
  ASSUME RInv, Mine
  PROVE  /\ UNCHANGED vars
         /\ pool = {side + 1} /\ side + 1 + Confirms <= tip
         /\ side' = side + 1 /\ pool' = {}
<1>1. /\ UNCHANGED vars /\ side + 1 \in pool
      /\ side' = side + 1 /\ pool' = pool \ {side'}
  BY DEF Mine, S!Mine
<1> QED BY <1>1 DEF RInv, Follows

LEMMA LostHeader ==
  ASSUME RInv, Lose
  PROVE  UNCHANGED <<vars, side>> /\ pool' = {}
<1>1. UNCHANGED <<vars, side>> /\ \E h \in pool : pool' = pool \ {h}
  BY DEF Lose, S!Lose
<1> QED BY <1>1 DEF RInv, Follows

LEMMA ChainStep ==
  ASSUME RInv, TryAgain \/ Mine \/ Lose PROVE RInv'
<1>1. CASE TryAgain
  <2>1. UNCHANGED <<vars, side, pool>>
    BY <1>1 DEF TryAgain, S!TryAgain
  <2>2. Contract'
    BY <2>1, FrameContract DEF vars, RInv, IInv, TypeOK
  <2> QED BY <2>1, <2>2, FrameStep
<1>2. CASE Mine
  <2>1. Contract'
    BY <1>2, MinedHeader DEF vars, RInv, Contract, Follows
  <2> QED BY <1>2, <2>1, MinedHeader, FrameStep
<1>3. CASE Lose
  <2>1. Contract'
    BY <1>3, LostHeader DEF vars, RInv, Contract, Follows
  <2> QED BY <1>3, <2>1, LostHeader, FrameStep
<1> QED BY <1>1, <1>2, <1>3

LEMMA GrowStep ==
  ASSUME RInv, GrowSource \/ Stop PROVE RInv'
<1>1. IInv'
  BY GrowInv, CancelInv DEF RInv, GrowSource, Stop
<1>2. /\ UNCHANGED <<side, pool, ch, spc, hdr>>
      /\ tip' = tip \/ tip' = tip + 1
  BY DEF GrowSource, Stop, Grow, Cancel, contractVars, submitterVars
<1>3. Contract'
  BY <1>2, FrameContract DEF RInv, IInv, TypeOK
<1>4. Positive'
  BY <1>2, Parts DEF Positive
<1> QED BY <1>1, <1>3, <1>4, PartsPrimed

\* A new process begins where the contract is, which is not ahead of the source.
LEMMA RestartStep ==
  ASSUME RInv, Restart PROVE RInv'
<1>1. UNCHANGED <<tip, side, pool>> /\ height' = side
  BY DEF Restart, StartAt, LastHeaderSync, contractVars
<1>2. Contract'
  BY <1>1, FrameContract DEF RInv, IInv, TypeOK
<1>3. /\ tip \in Nat /\ side \in Nat /\ side <= tip
      /\ tip <= MaxHeight \/ tip = Start
  BY ConfigAssumption DEF RInv, Follows, IInv, TypeOK, HandlerBounds
<1>4. Fresh(height)'
  BY DEF Restart, StartAt, Fresh
<1>5. Begins'
  BY <1>1, <1>3, <1>4 DEF Begins
<1>6. Positive'
  BY <1>4 DEF Fresh, Positive
<1> QED BY <1>2, <1>5, <1>6, BeginsPrimed, PartsPrimed

LEMMA StepRInv ==
  ASSUME RInv, [RNext]_rvars PROVE RInv'
<1>1. CASE UNCHANGED rvars
  <2>1. UNCHANGED <<vars, side, pool>>
    BY <1>1 DEF rvars
  <2>2. Contract'
    BY <2>1, FrameContract DEF vars, RInv, IInv, TypeOK
  <2> QED BY <2>1, <2>2, FrameStep
<1>2. CASE RunSubmitter
  BY <1>2, SubmitterStep, SendStep, ChainStep DEF RunSubmitter
<1> QED BY <1>1, <1>2, HandlerStep, GrowStep, RestartStep, ChainStep DEF RNext

\* The pipeline stays in its invariant through every restart, and the contract
\* behind the confirmed source chain.
THEOREM RelayerInvariant == RSpec => []RInv
BY StepRInv, InitRInv, PTL DEF RSpec

\* The contract, and what waits to be mined, is never ahead of the confirmed
\* source chain, and never out of order.
THEOREM ContractFollows == RSpec => []Follows
BY RelayerInvariant, PTL DEF RInv

-----------------------------------------------------------------------------
(* The relayer implements LightClient. *)

LEMMA ClientStep ==
  ASSUME RInv, [RNext]_rvars
  PROVE  [Client!Next]_(Client!vars)
<1> USE DEF Client!Next, Client!vars
<1>1. CASE RunHandler \/ Stop \/ Restart \/ UNCHANGED rvars
  <2>1. UNCHANGED <<tip, side, pool>>
    BY <1>1 DEF RunHandler, Handler, Stop, Cancel, Restart, chainVars, contractVars,
       rvars, vars
  <2> QED BY <2>1
<1>2. CASE Receive \/ ReturnNil \/ ReturnError \/ GoBack \/ Leave \/ TryAgain
  <2>1. UNCHANGED <<tip, side, pool>>
    BY <1>2 DEF Receive, ReturnNil, ReturnError, GoBack, Leave, TryAgain, Pipeline,
       S!Call, S!ReturnNil, S!ReturnError, S!Acknowledge, S!TryAgain, chainVars,
       contractVars, vars
  <2> QED BY <2>1
<1>3. CASE SendTx
  BY <1>3, SentHeader DEF Client!Submit, vars
<1>4. CASE GrowSource
  BY <1>4 DEF GrowSource, Grow, contractVars, Client!Grow
<1>5. CASE Mine
  BY <1>5, MinedHeader DEF Client!Mine, vars
<1>6. CASE Lose
  <2>1. \E h \in pool : pool' = pool \ {h}
    BY <1>6 DEF Lose, S!Lose
  <2> QED BY <1>6, <2>1, LostHeader DEF Client!Lose, vars
<1> QED BY <1>1, <1>2, <1>3, <1>4, <1>5, <1>6 DEF RNext, RunSubmitter

\* The relayer implements the light client: whatever the process does, and
\* however often it is killed and started again, the contract only ever takes the
\* next confirmed header.
THEOREM ClientImplemented == RSpec => ClientKept
<1>1. RInit => Client!Init
  BY DEF RInit, Init, Client!Init
<1>2. RInv /\ [RNext]_rvars => [Client!Next]_(Client!vars)
  BY ClientStep
<1> QED BY <1>1, <1>2, RelayerInvariant, PTL DEF RSpec, ClientKept, Client!Spec
=============================================================================
