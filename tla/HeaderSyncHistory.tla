------------------------- MODULE HeaderSyncHistory -------------------------
(***************************************************************************)
(* The header pipeline with a history: owed, the lowest height whose       *)
(* header the submitter still has to take care of, and faults, the number  *)
(* of submissions that failed, of which there are at most MaxFaults.       *)
(***************************************************************************)
EXTENDS HeaderSync, FiniteSetsExt

CONSTANT MaxFaults  \* bound: failed submissions

ASSUME FaultsAssumption == MaxFaults \in Nat

VARIABLES owed, faults

Heights(hs) == {hs[i] : i \in 1 .. Len(hs)}

\* The submission under way succeeds or fails.
Succeeds == spc = "submit" /\ spc' = "recv"
Fails == spc = "submit" /\ spc' = "reset"

\* A nil verdict settles the headers of the batch; an error makes the lowest of
\* them owed again.
Settle ==
  owed' =
    IF Succeeds THEN Min((owed .. owed + Batch) \ Heights(headers))
    ELSE IF Fails THEN Min(Heights(headers) \cup {owed})
    ELSE owed

CountFaults ==
  IF Fails THEN faults < MaxFaults /\ faults' = faults + 1 ELSE UNCHANGED faults

HInit == Init /\ owed = Start + 1 /\ faults = 0

HNext == Next /\ Settle /\ CountFaults

hvars == <<vars, owed, faults>>

HSpec == HInit /\ [][HNext]_hvars

HFairSpec == HSpec /\ Fairness

\* Whenever no reset is under way, the header the submitter owes is in the batch
\* it collects, on ch or ahead of the handler: a failed header is never left
\* behind, in spite of headers received in the middle of a drain and of resets
\* that arrive when the handler has already gone back.
NothingSkipped ==
  reset = <<>> /\ spc = "recv" /\ hpc \in {"select", "wait", "fetch", "send"}
    => owed \in Heights(headers) \cup Heights(ch) \/ owed > Cursor

\* Unless cancelled, the submitter comes to have submitted every confirmed header
\* with success, up to the last one of a chain that stops growing, whatever
\* fetches and submissions failed on the way.  Only a failure among the last ones,
\* whose reset the handler never sees, keeps headers back, and none up to Settled.
StreamProgress ==
  []<>(\/ done
       \/ owed + Confirms > MaxHeight
       \/ ResetUnseen /\ owed > Settled)

\* Every header of a submission, whatever becomes of it, is in the end submitted
\* with success, unless the process is told to stop: one that failed comes back
\* through reset, drain and rollback, however often that takes.
FailureRevisited ==
  \A f \in Start + 1 .. Settled :
    (spc = "submit" /\ f \in Heights(headers)) ~> (done \/ owed > f)

-----------------------------------------------------------------------------
(* The inductive invariant behind it, for a buffer of at most two headers: then a
   drain never moves the handler forward. *)

\* The last height that will not come any more: after it the handler goes on.
Past == IF hpc \in {"drain", "rollback"} THEN target ELSE Cursor - Len(ch)

\* The handler has neither left nor searched its way round below height 0.
Live == hpc # "exit" /\ ~ (hpc = "rollback" /\ target = Word - 1)

\* What is owed and will not come any more is in the batch.
Covered == \A h \in owed .. Past : h \in Heights(headers)

\* A reset that is on its way asks for a height below what is owed.
AskedBack ==
  \/ spc = "reset" /\ 0 < pend /\ pend < owed
  \/ reset # <<>> /\ 0 < Head(reset) /\ Head(reset) < owed

\* A batch counts back from its last header far enough for all of them, also when
\* that one was taken in the middle of a drain.
BatchSpan ==
  \A i \in 1 .. Len(headers) :
    /\ hdr <= headers[i] + Len(headers) + 1
    /\ Past < headers[i] + Len(headers)
    /\ hpc = "drain" => height <= headers[i] + Len(headers) + 1
    /\ Batch = 1 => headers[i] = hdr

OwedInv ==
  /\ owed \in Nat
  /\ faults \in 0 .. MaxFaults
  /\ hpc = "drain" => target + 2 <= height
  /\ Live => (Covered \/ AskedBack) /\ BatchSpan

-----------------------------------------------------------------------------
(* How low the failures can take the handler *)

\* The reset that a failure computes is a height above 0.
HighEnough == hdr > 2 + IF Batch = 1 THEN 0 ELSE Len(headers)

\* How much lower the handler may go on after a failure.
Drop == IF Batch = 1 THEN 2 ELSE Batch + 2

\* The lowest height that can still come.
Low == Start + 1 - faults * Drop

\* Without a search for the common ancestor only failures take the handler back.
LowInv ==
  /\ Live => Past + 1 >= Low
  /\ \A i \in 1 .. Len(ch) : ch[i] >= Low
  /\ spc = "submit" \/ headers # <<>> => hdr >= Low
  /\ spc = "reset" => pend >= Low
  /\ reset # <<>> => Head(reset) >= Low
=============================================================================
