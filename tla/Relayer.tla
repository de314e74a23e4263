------------------------------- MODULE Relayer -------------------------------
(***************************************************************************)
(* A whole relayer from TOP to the contract on another chain: the header   *)
(* pipeline (HeaderSync), whose submitter makes its calls to               *)
(* SubmitHeadersWithLoop, the contract, and the life of the process, which *)
(* may end at any moment and is started again.  Nothing is kept on disk: a *)
(* new process asks the contract where to begin.                           *)
(*                                                                         *)
(* Of SubmitHeadersWithLoop no more is used than Submission promises, and  *)
(* Submitter keeps.  Headers are submitted one by one, the default.        *)
(***************************************************************************)
EXTENDS HeaderSync

ASSUME RelayerAssumption ==
  /\ ~ SearchesAncestor
  /\ Batch = 1

VARIABLES
  side,     \* the contract holds the headers 1 .. side
  pool,     \* headers in transactions not mined yet, that the contract has not
  sent      \* the call under way has sent its header

\* A call is under way between a receive and a verdict; an error is dealt with
\* once its reset is sent.
S == INSTANCE Submission WITH
       Genesis <- Start,
       header <- hdr,
       state <- IF spc = "submit" THEN "busy"
                ELSE IF spc = "reset" THEN "failed" ELSE "idle"

pipelineVars == <<hpc, height, latest, target, ch, closed, reset,
                  spc, hdr, headers, pend>>
contractVars == <<side, pool>>
rvars == <<vars, side, pool, sent>>

RInit == Init /\ side = Start /\ pool = {} /\ sent = FALSE

-----------------------------------------------------------------------------
(* The process *)

RunHandler == Handler /\ UNCHANGED <<contractVars, sent>>

Pipeline(A) == A /\ UNCHANGED <<chainVars, handlerVars, closed>>

\* syncHeaderLoop: a header is received and SubmitHeadersWithLoop called with it.
Receive == Pipeline(LoopReceive) /\ S!Call

\* Inside the call nothing of the pipeline changes.
SendTx == UNCHANGED vars /\ S!Send

TryAgain == sent /\ UNCHANGED vars /\ S!TryAgain

\* The call returns.
ReturnNil == Pipeline(SubmitNil) /\ S!ReturnNil

ReturnError == Pipeline(SubmitError) /\ S!ReturnError

GoBack == Pipeline(SendReset) /\ S!Acknowledge

Leave == Pipeline(LeaveSyncLoop) /\ UNCHANGED <<contractVars, sent>>

RunSubmitter ==
  Receive \/ SendTx \/ TryAgain \/ ReturnNil \/ ReturnError \/ GoBack \/ Leave

Stop == Cancel /\ UNCHANGED <<contractVars, sent>>

\* A process begins where LastHeaderSync says.
StartAt(h) ==
  /\ done' = FALSE
  /\ hpc' = "select" /\ height' = h /\ latest' = 0 /\ target' = 0
  /\ ch' = <<>> /\ closed' = FALSE /\ reset' = <<>>
  /\ spc' = "recv" /\ hdr' = 0 /\ headers' = <<>> /\ pend' = 0
  /\ sent' = FALSE

\* GetMaxHeight of the contract.
LastHeaderSync == side

\* The process ends, by os.Exit or a crash, wherever its goroutines are, and is
\* started again.  What it has sent remains.
Restart ==
  /\ StartAt(LastHeaderSync)
  /\ UNCHANGED <<tip, contractVars>>

-----------------------------------------------------------------------------
(* The two chains *)

GrowSource == Grow /\ UNCHANGED <<contractVars, sent>>

Mine == UNCHANGED vars /\ S!Mine

Lose == UNCHANGED vars /\ S!Lose

RNext ==
  \/ RunHandler \/ RunSubmitter \/ Stop \/ Restart
  \/ GrowSource \/ Mine \/ Lose
  \/ Exited /\ UNCHANGED rvars

RSpec == RInit /\ [][RNext]_rvars

(***************************************************************************)
(* Fairness.  The goroutines are scheduled and their calls return, the     *)
(* source chain grows and the other one mines.  Nothing is assumed of Stop *)
(* or Restart.                                                             *)
(***************************************************************************)
RFairness ==
  /\ WF_rvars(RunHandler)
  /\ WF_rvars(RunSubmitter)
  /\ WF_rvars(GrowSource)
  /\ WF_rvars(Mine)

RFairSpec == RSpec /\ RFairness

-----------------------------------------------------------------------------
(* Properties *)

\* Listener.Header returns an error.
FetchFails == hpc = "fetch" /\ hpc' = "select"

\* What the state of the chains does not force: a header that is not fetched, a
\* call that fails although the contract has the header or would take it, one
\* attempt more after a transaction, a transaction that is lost.
Fault ==
  \/ FetchFails
  \/ ReturnError /\ hdr <= side + 1
  \/ TryAgain
  \/ Lose

\* No fault but a race that the code allows in normal operation: of the last
\* header of a drain, between the handler that throws it away and the submitter,
\* which gets it.
LosesRace == hpc = "drain" /\ Len(ch) = 1 /\ Receive

\* Once faults and restarts are over, however many there were, and wherever they
\* left the two goroutines, their channels and the transactions, the contract gets
\* every confirmed header up to the end of the source chain but the last, whose
\* loss no child shows, unless the process is told to stop.  Only a failure among
\* the last headers, whose reset the handler never sees, keeps more of them back,
\* and none below Settled: its parent may be the one that was lost.
\*
\* It is assumed that the handler loses the race for the last header of a drain a
\* finite number of times: with a buffer of two it can, by scheduling alone, lose
\* it again and again, each time causing the failure that starts the next drain,
\* and then nothing is promised.
CatchesUp ==
  <>[][~ (Fault \/ Restart \/ LosesRace)]_rvars
    => []<>(\/ done
            \/ side + 1 + Confirms >= MaxHeight
            \/ ResetUnseen /\ side + 1 >= Settled)

Client == INSTANCE LightClient

\* The process keeps the promise of the light client through its restarts.
ClientKept == Client!Spec

\* The contract never gets ahead of the confirmed source chain, and nothing that
\* waits to be mined is.
Follows ==
  /\ side = Start \/ side + Confirms <= tip
  /\ pool # {} => pool = {side + 1} /\ side + 1 + Confirms <= tip

\* Height 0 is never streamed, so every header of ch can be the header of a call.
RInv ==
  /\ IInv
  /\ side \in Nat /\ pool \subseteq Nat
  /\ tip >= Start
  /\ Follows
  /\ \A i \in 1 .. Len(ch) : ch[i] > 0
  /\ spc \in {"submit", "reset"} => hdr > 0
=============================================================================
