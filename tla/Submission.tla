------------------------------ MODULE Submission ------------------------------
(***************************************************************************)
(* What the submit loop may rely on in SubmitHeadersWithLoop, given one    *)
(* header at a time: an answer nil means that the header is in the         *)
(* contract, or that this call sent it, or that the process is told to     *)
(* stop; nothing is sent before its parent is in the contract.  An error   *)
(* may be the answer at any time, and says nothing.                        *)
(***************************************************************************)
EXTENDS Integers

CONSTANT Genesis  \* the height the contract is at to begin with

VARIABLES
  side,    \* the contract holds the headers 1 .. side
  pool,    \* headers in transactions not mined yet, that the contract has not
  done,    \* the process is told to stop
  state,   \* "idle", "busy" with a call, or "failed": the last one did
  header,  \* the header of the call
  sent     \* this call has sent it

vars == <<side, pool, done, state, header, sent>>

Init ==
  /\ side = Genesis
  /\ pool = {}
  /\ done = FALSE
  /\ state = "idle"
  /\ header \in Nat
  /\ sent = FALSE

Call ==
  /\ state # "busy"
  /\ state' = "busy"
  /\ header' \in Nat \ {0}
  /\ sent' = FALSE
  /\ UNCHANGED <<side, pool, done>>

Send ==
  /\ state = "busy"
  /\ ~ sent
  /\ header <= side + 1
  /\ pool' = pool \cup ({header} \ 1 .. side)
  /\ sent' = TRUE
  /\ UNCHANGED <<side, done, state, header>>

\* Another attempt begins.
TryAgain ==
  /\ state = "busy"
  /\ sent' = FALSE
  /\ UNCHANGED <<side, pool, done, state, header>>

ReturnNil ==
  /\ state = "busy"
  /\ sent \/ header <= side \/ done
  /\ state' = "idle"
  /\ sent' = FALSE
  /\ UNCHANGED <<side, pool, done, header>>

ReturnError ==
  /\ state = "busy"
  /\ state' = "failed"
  /\ sent' = FALSE
  /\ UNCHANGED <<side, pool, done, header>>

\* The caller has dealt with the error.
Acknowledge ==
  /\ state = "failed"
  /\ state' = "idle"
  /\ UNCHANGED <<side, pool, done, header, sent>>

Mine ==
  /\ side + 1 \in pool
  /\ side' = side + 1
  /\ pool' = pool \ {side'}
  /\ UNCHANGED <<done, state, header, sent>>

Lose ==
  /\ \E h \in pool : pool' = pool \ {h}
  /\ UNCHANGED <<side, done, state, header, sent>>

Cancel ==
  /\ ~ done
  /\ done' = TRUE
  /\ UNCHANGED <<side, pool, state, header, sent>>

Next ==
  \/ Call \/ Send \/ TryAgain \/ ReturnNil \/ ReturnError \/ Acknowledge
  \/ Mine \/ Lose \/ Cancel

Spec == Init /\ [][Next]_vars
=============================================================================
