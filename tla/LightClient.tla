----------------------------- MODULE LightClient -----------------------------
(***************************************************************************)
(* What the relayer promises to the contract on the other chain and to     *)
(* those who use it, whatever happens inside the process or to it: the     *)
(* contract only ever follows the source chain, one confirmed header after *)
(* the other, and is never asked to take a header that is not confirmed or *)
(* whose parent it does not have.                                          *)
(***************************************************************************)
EXTENDS Integers

CONSTANTS Start,    \* the height the contract is at to begin with
          Confirms  \* confirmations a header has when it is submitted

VARIABLES
  tip,   \* height of the source chain
  side,  \* the contract holds the headers 1 .. side
  pool   \* headers in transactions not mined yet, that the contract has not

vars == <<tip, side, pool>>

Init ==
  /\ tip = Start
  /\ side = Start
  /\ pool = {}

Grow ==
  /\ tip' = tip + 1
  /\ UNCHANGED <<side, pool>>

\* Only the next header is new to the contract.
Submit ==
  /\ side + 1 + Confirms <= tip
  /\ pool' = {side + 1}
  /\ UNCHANGED <<tip, side>>

Mine ==
  /\ side + 1 \in pool
  /\ side' = side + 1
  /\ pool' = {}
  /\ UNCHANGED tip

Lose ==
  /\ pool' = {}
  /\ UNCHANGED <<tip, side>>

Next == Grow \/ Submit \/ Mine \/ Lose

Spec == Init /\ [][Next]_vars
=============================================================================
