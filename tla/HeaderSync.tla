----------------------------- MODULE HeaderSync -----------------------------
(***************************************************************************)
(* The header pipeline: the goroutine HeaderSyncHandler.start, which       *)
(* fetches confirmed headers of the source chain and sends them on the     *)
(* channel ch, and the goroutine startSync of the submitter, which takes   *)
(* them from ch, submits them and, when a submission fails, sends on the   *)
(* channel reset the height the handler has to go back to.                 *)
(*                                                                         *)
(* The handler is written against the interface IChainSubmitter; here the  *)
(* verdict of SubmitHeadersWithLoop is free (nil or an error), and so are  *)
(* the answers of the two chains: a header fetch may fail, and each        *)
(* comparison of RollbackToCommonAncestor may find the two headers equal   *)
(* or not.  What is shown here holds for every submitter and every chain;  *)
(* the module Submitter says which verdicts are possible.                  *)
(***************************************************************************)
EXTENDS Integers, Sequences

CONSTANTS ChainId,    \* h.config.ChainId: the source chain
          Batch,      \* s.config.Batch: headers submitted together
          Buffer,     \* s.config.Buffer: the capacity of ch
          Confirms,   \* h.listener.Defer(): confirmations waited for
          Start,      \* the height LastHeaderSync returned to Start()
          Word,       \* number of values of a uint64
          MaxHeight   \* bound: the source chain stops growing here

ASSUME ConfigAssumption ==
  /\ Batch \in Nat \ {0}
  /\ Buffer \in Nat \ {0}
  /\ Confirms \in Nat
  /\ Start \in Nat
  /\ Word \in Nat
  /\ MaxHeight \in Nat
  /\ Start + Batch + 2 < Word
  /\ MaxHeight + 1 < Word

VARIABLES
  tip,      \* height of the source chain
  done,     \* the context h.Context is cancelled
  hpc,      \* where the handler is
  height,   \* h.height
  latest,   \* the local variable latest of start
  target,   \* the parameter target of RollbackToCommonAncestor
  ch,       \* the channel of headers, each given by its height
  closed,   \* ch is closed
  reset,    \* the channel of resets, of capacity 1
  spc,      \* where the submitter is
  hdr,      \* height of the last header the submitter received
  headers,  \* the batch being collected or submitted
  pend      \* the height the submitter is sending on reset

chainVars == <<tip, done>>
handlerVars == <<hpc, height, latest, target>>
submitterVars == <<spc, hdr, headers, pend>>
vars == <<tip, done, hpc, height, latest, target, ch, closed, reset,
          spc, hdr, headers, pend>>

\* a - b on uint64, for b at most Word
Minus(a, b) == IF a >= b THEN a - b ELSE a - b + Word

-----------------------------------------------------------------------------
(* HeaderSyncHandler.start *)

\* A process that has just been started, LastHeaderSync having returned h.
Fresh(h) ==
  /\ done = FALSE
  /\ hpc = "select"
  /\ height = h
  /\ latest = 0
  /\ target = 0
  /\ ch = <<>>
  /\ closed = FALSE
  /\ reset = <<>>
  /\ spc = "recv"
  /\ hdr = 0
  /\ headers = <<>>
  /\ pend = 0

Init == tip = Start /\ Fresh(Start)

\* break LOOP: the handler closes ch on its way out
BreakLoop ==
  /\ hpc' = "exit"
  /\ closed' = TRUE
  /\ UNCHANGED <<height, latest, target, ch, reset>>

\* A reset below the current height: throw away what is in ch, then go back.
SelectReset ==
  /\ hpc = "select"
  /\ reset # <<>>
  /\ Head(reset) < height
  /\ Head(reset) # 0
  /\ hpc' = "drain"
  /\ target' = Head(reset) - 1
  /\ reset' = Tail(reset)
  /\ UNCHANGED <<height, latest, ch, closed>>

\* Any other reset is consumed and has no effect.
SelectStaleReset ==
  /\ hpc = "select"
  /\ reset # <<>>
  /\ ~ (Head(reset) < height /\ Head(reset) # 0)
  /\ reset' = Tail(reset)
  /\ hpc' = "wait"
  /\ height' = height + 1
  /\ UNCHANGED <<latest, target, ch, closed>>

SelectDone ==
  /\ hpc = "select"
  /\ done
  /\ BreakLoop

\* Mutant: default is taken although a reset is waiting.
SelectDefaultBlind ==
  /\ hpc = "select"
  /\ ~ done
  /\ hpc' = "wait"
  /\ height' = height + 1
  /\ UNCHANGED <<latest, target, ch, closed, reset>>

SelectDefault ==
  /\ hpc = "select"
  /\ reset = <<>>
  /\ ~ done
  /\ hpc' = "wait"
  /\ height' = height + 1
  /\ UNCHANGED <<latest, target, ch, closed, reset>>

\* Mutant: nothing is drained.
DrainNothing ==
  /\ hpc = "drain"
  /\ hpc' = "rollback"
  /\ UNCHANGED <<height, latest, target, ch, closed, reset>>

\* The DRAIN loop takes one header at a time; the submitter may take the next.
Drain ==
  /\ hpc = "drain"
  /\ IF ch # <<>>
       THEN ch' = Tail(ch) /\ UNCHANGED hpc
       ELSE hpc' = "rollback" /\ UNCHANGED ch
  /\ UNCHANGED <<height, latest, target, closed, reset>>

\* h.height = RollbackToCommonAncestor(...), then h.height++
ReturnFromRollback ==
  /\ hpc' = "wait"
  /\ height' = target + 1
  /\ target' = 0
  /\ UNCHANGED <<latest, ch, closed, reset>>

SearchesAncestor == ChainId \in {"ETH", "BSC"}

RollbackToTarget ==
  /\ hpc = "rollback"
  /\ ~ SearchesAncestor
  /\ ReturnFromRollback

\* The two chains hold the same header at target; the source node has it.
RollbackMatch ==
  /\ hpc = "rollback"
  /\ SearchesAncestor
  /\ target <= tip
  /\ ReturnFromRollback

\* The side chain has no header at target, or another one: target--
RollbackMiss ==
  /\ hpc = "rollback"
  /\ SearchesAncestor
  /\ target <= tip
  /\ target' = Minus(target, 1)
  /\ UNCHANGED <<hpc, height, latest, ch, closed, reset>>

\* A search that has run below height 0 goes on from the largest uint64.  The
\* contract has no header anywhere near, which takes target down one height a
\* call without the source being asked: it would need more calls than the process
\* has time for to come back to the tip, and spins here without looking at Done.
RollbackAstray ==
  /\ hpc = "rollback"
  /\ SearchesAncestor
  /\ target > tip
  /\ UNCHANGED <<handlerVars, ch, closed, reset>>

\* Mutant: the confirmations are forgotten.
WaitUnconfirmed ==
  /\ hpc = "wait"
  /\ IF latest < height
       THEN tip >= height /\ latest' = tip
       ELSE UNCHANGED latest
  /\ hpc' = "fetch"
  /\ UNCHANGED <<height, target, ch, closed, reset>>

\* WaitTillHeight is only called when the cached latest is not enough.
WaitTillHeight ==
  /\ hpc = "wait"
  /\ IF latest < height + Confirms
       THEN tip >= height + Confirms /\ latest' = tip
       ELSE UNCHANGED latest
  /\ hpc' = "fetch"
  /\ UNCHANGED <<height, target, ch, closed, reset>>

WaitCancelled ==
  /\ hpc = "wait"
  /\ latest < height + Confirms
  /\ done
  /\ BreakLoop

FetchHeader ==
  /\ hpc = "fetch"
  /\ hpc' = "send"
  /\ UNCHANGED <<height, latest, target, ch, closed, reset>>

\* Mutant: the height is not taken back.
FetchErrorSkips ==
  /\ hpc = "fetch"
  /\ hpc' = "select"
  /\ UNCHANGED <<height, latest, target, ch, closed, reset>>

FetchError ==
  /\ hpc = "fetch"
  /\ hpc' = "select"
  /\ height' = height - 1
  /\ UNCHANGED <<latest, target, ch, closed, reset>>

\* Mutant: the buffer has no limit.
SendUnbounded ==
  /\ hpc = "send"
  /\ ch' = Append(ch, height)
  /\ hpc' = "select"
  /\ UNCHANGED <<height, latest, target, closed, reset>>

Send ==
  /\ hpc = "send"
  /\ Len(ch) < Buffer
  /\ ch' = Append(ch, height)
  /\ hpc' = "select"
  /\ UNCHANGED <<height, latest, target, closed, reset>>

\* Mutant: Done is only looked at when there is room in ch.
SendFirst ==
  /\ hpc = "send"
  /\ done
  /\ Len(ch) < Buffer
  /\ BreakLoop

SendCancelled ==
  /\ hpc = "send"
  /\ done
  /\ BreakLoop

Rollback == RollbackToTarget \/ RollbackMatch \/ RollbackMiss \/ RollbackAstray

Handler ==
  /\ \/ SelectReset \/ SelectStaleReset \/ SelectDone \/ SelectDefault
     \/ Drain \/ Rollback
     \/ WaitTillHeight \/ WaitCancelled
     \/ FetchHeader \/ FetchError
     \/ Send \/ SendCancelled
  /\ UNCHANGED <<chainVars, submitterVars>>

-----------------------------------------------------------------------------
(* syncHeaderLoop (Batch = 1) and syncHeaderBatchLoop (Batch > 1) *)

LoopReceive ==
  /\ Batch = 1
  /\ spc = "recv"
  /\ ch # <<>>
  /\ ch' = Tail(ch)
  /\ hdr' = Head(ch)
  /\ headers' = <<Head(ch)>>
  /\ spc' = "submit"
  /\ UNCHANGED <<reset, pend>>

BatchReceive ==
  /\ Batch > 1
  /\ spc = "recv"
  /\ ch # <<>>
  /\ ch' = Tail(ch)
  /\ hdr' = Head(ch)
  /\ headers' = Append(headers, Head(ch))
  /\ spc' = IF Len(headers') >= Batch THEN "submit" ELSE "recv"
  /\ UNCHANGED <<reset, pend>>

\* No header for config.Timeout seconds: submit what was collected.
BatchTimeout ==
  /\ Batch > 1
  /\ spc = "recv"
  /\ ch = <<>>
  /\ ~ closed
  /\ ~ done
  /\ headers # <<>>
  /\ spc' = "submit"
  /\ UNCHANGED <<ch, reset, hdr, headers, pend>>

SubmitNil ==
  /\ spc = "submit"
  /\ spc' = "recv"
  /\ headers' = <<>>
  /\ UNCHANGED <<ch, reset, hdr, pend>>

\* Mutant: the height that failed, without going below it.
ResetToFailed == hdr

\* reset <- header.Height - 2
LoopResetValue == Minus(hdr, 2)

\* reset <- height - uint64(len(headers)) - 2
BatchResetValue == Minus(Minus(hdr, Len(headers)), 2)

SubmitError ==
  /\ spc = "submit"
  /\ spc' = "reset"
  /\ pend' = IF Batch = 1 THEN LoopResetValue ELSE BatchResetValue
  /\ headers' = <<>>
  /\ UNCHANGED <<ch, reset, hdr>>

\* The send on reset is not in a select: it blocks until there is room.
SendReset ==
  /\ spc = "reset"
  /\ reset = <<>>
  /\ reset' = <<pend>>
  /\ pend' = 0
  /\ spc' = "recv"
  /\ UNCHANGED <<ch, hdr, headers>>

\* Cancelled, or ch closed and empty: a batch under way is submitted once more
\* and its verdict dropped.
LeaveSyncLoop ==
  /\ spc = "recv"
  /\ done \/ (closed /\ ch = <<>>)
  /\ spc' = IF headers # <<>> THEN "flush" ELSE "exit"
  /\ UNCHANGED <<ch, reset, hdr, headers, pend>>

Flush ==
  /\ spc = "flush"
  /\ spc' = "exit"
  /\ UNCHANGED <<ch, reset, hdr, headers, pend>>

Submitter ==
  /\ \/ LoopReceive \/ BatchReceive \/ BatchTimeout
     \/ SubmitNil \/ SubmitError \/ SendReset
     \/ LeaveSyncLoop \/ Flush
  /\ UNCHANGED <<chainVars, handlerVars, closed>>

-----------------------------------------------------------------------------
(* The source chain grows; the process is told to stop (main.start). *)

Grow ==
  /\ tip < MaxHeight
  /\ tip' = tip + 1
  /\ UNCHANGED <<done, handlerVars, ch, closed, reset, submitterVars>>

Cancel ==
  /\ ~ done
  /\ done' = TRUE
  /\ UNCHANGED <<tip, handlerVars, ch, closed, reset, submitterVars>>

\* The handler has left the wait group: main calls os.Exit, whatever the
\* submitter, which is not in the wait group, is doing.
Exited ==
  /\ hpc = "exit"
  /\ UNCHANGED vars

Next == Handler \/ Submitter \/ Grow \/ Cancel \/ Exited

Spec == Init /\ [][Next]_vars

(***************************************************************************)
(* Fairness.  The two goroutines are scheduled, timers fire and the submit *)
(* loop returns (the module Submitter says when it does); a fetch that is  *)
(* retried forever succeeds in the end; the source chain grows.  Nothing   *)
(* is assumed of Cancel, of failures or of the choices of select.          *)
(***************************************************************************)
Fairness ==
  /\ WF_vars(Handler)
  /\ WF_vars(Submitter)
  /\ WF_vars(Grow)
  /\ SF_vars(FetchHeader /\ UNCHANGED <<chainVars, submitterVars>>)

FairSpec == Spec /\ Fairness

-----------------------------------------------------------------------------
(* Properties *)

\* Every variable keeps the type the code gives it: heights and resets are
\* uint64 values, ch holds at most Buffer headers and reset at most one value.
TypeOK ==
  /\ tip \in Nat
  /\ done \in BOOLEAN
  /\ hpc \in {"select", "drain", "rollback", "wait", "fetch", "send", "exit"}
  /\ height \in 0 .. Word - 1
  /\ latest \in Nat
  /\ target \in 0 .. Word - 1
  /\ ch \in Seq(Nat) /\ Len(ch) <= Buffer
  /\ closed \in BOOLEAN
  /\ reset \in Seq(0 .. Word - 1) /\ Len(reset) <= 1
  /\ spc \in {"recv", "submit", "reset", "flush", "exit"}
  /\ hdr \in Nat
  /\ headers \in Seq(Nat) /\ Len(headers) <= Batch
  /\ pend \in 0 .. Word - 1

\* The two goroutines send to each other over two bounded channels, neither
\* send of the submitter being in a select: they never both block, the handler
\* on a full ch and the submitter on a full reset.
NoMutualBlock ==
  ~ (hpc = "send" /\ Len(ch) = Buffer /\ spc = "reset" /\ reset # <<>>)

\* The last height the handler put on ch, or went back to.
Cursor == IF hpc \in {"wait", "fetch", "send"} THEN height - 1 ELSE height

\* What waits on ch is a run of consecutive heights that ends where the handler
\* is: neither a failed fetch nor a rollback, with its item by item drain that
\* races the submitter, leaves a hole or an old header behind.
ChannelContiguous ==
  /\ \A i \in 1 .. Len(ch) - 1 : ch[i + 1] = ch[i] + 1
  /\ hpc # "exit" /\ ch # <<>> => ch[Len(ch)] = Cursor

\* No header reaches ch or the submitter before the source chain has Confirms
\* blocks on top of it, although start() asks for the height of the chain only
\* when the one it remembers is too low.
ConfirmedOnly ==
  /\ \A i \in 1 .. Len(ch) : ch[i] + Confirms <= tip
  /\ hdr > 0 => hdr + Confirms <= tip

\* A cancelled context ends the handler, whichever call it is in and however
\* full the channels are.
CancelStops == done ~> hpc = "exit"

\* The handler looks at reset once per header, and not while it waits for the
\* source chain: here it waits for a height the chain never comes to.
ResetUnseen == reset # <<>> /\ hpc = "wait" /\ height + Confirms > MaxHeight

\* The failure behind a reset that is never seen is of one of the last headers:
\* the first of a batch, with only the rest of it and what fits on ch after it.
Settled == MaxHeight - Confirms - Buffer - Batch

\* "err reponse here will revert header sync with delta - 2" (syncHeaderLoop):
\* an error asks the handler for a height below the header that failed.
ErrorGoesBack ==
  [][spc = "submit" /\ spc' = "reset" => pend' < hdr]_vars

\* The stream as a submitter sees it: the handler's place in it is not defined
\* any more once ch is closed.
Stream == INSTANCE HeaderStream
  WITH queue <- ch, cursor <- IF closed THEN 0 ELSE Cursor, open <- ~ closed

\* The handler keeps the promise of the stream through drains, which race the
\* submitter, stale resets, failed fetches and rollbacks: what goes on ch is
\* always the confirmed successor of what went before, and it goes back only with
\* ch empty and only downwards.
StreamKept == Stream!Spec

-----------------------------------------------------------------------------
(* The inductive invariant *)

\* The handler passes the reset it has not seen at most once: from then on there
\* is room in ch, for the submitter, to have failed again, took a header.
RoomAfterReset ==
  reset # <<>> /\ (spc \in {"submit", "reset"} \/ headers # <<>>)
    /\ hpc \in {"wait", "fetch", "send"}
  => Len(ch) < Buffer

\* Where the handler may be, relative to the chain and to where it goes back.
HandlerBounds ==
  /\ closed <=> hpc = "exit"
  /\ tip <= MaxHeight \/ tip = Start
  /\ latest <= tip
  /\ height <= tip + 1
  /\ hpc \in {"select", "drain", "rollback"} => height <= tip
  /\ hpc = "wait" => height > 0
  /\ hpc \in {"fetch", "send"} => height > 0 /\ height + Confirms <= latest
  /\ hpc = "drain" => target < height
  /\ hpc = "rollback" =>
       ch = <<>> /\ (target < height \/ (SearchesAncestor /\ target = Word - 1))

SubmitterBounds ==
  /\ spc = "recv" => Len(headers) < Batch
  /\ spc = "reset" => headers = <<>>

IInv ==
  /\ TypeOK
  /\ ChannelContiguous
  /\ ConfirmedOnly
  /\ RoomAfterReset
  /\ HandlerBounds
  /\ SubmitterBounds
=============================================================================
