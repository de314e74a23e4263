----------------------------- MODULE HeaderStream -----------------------------
(***************************************************************************)
(* What a submitter may rely on in the channel StartSync hands out: a      *)
(* stream of headers of the source chain in the order of their heights,    *)
(* each with its confirmations, that is only taken back when nothing of it *)
(* is waiting any more, and then to a lower height.  Nothing is said of    *)
(* how the handler fetches, waits, drains or is told to go back.           *)
(***************************************************************************)
EXTENDS Integers, Sequences

CONSTANTS Start,     \* the height the stream begins after
          Confirms,  \* confirmations a header has
          Buffer     \* headers that may wait

VARIABLES
  tip,     \* height of the source chain
  queue,   \* headers that wait, each given by its height
  cursor,  \* height of the last header produced, or gone back to
  open     \* headers may still be produced

vars == <<tip, queue, cursor, open>>

Init ==
  /\ tip = Start
  /\ queue = <<>>
  /\ cursor = Start
  /\ open = TRUE

Grow ==
  /\ tip' = tip + 1
  /\ UNCHANGED <<queue, cursor, open>>

\* The next header, once it is confirmed.
Produce ==
  /\ open
  /\ cursor + 1 + Confirms <= tip
  /\ Len(queue) < Buffer
  /\ cursor' = cursor + 1
  /\ queue' = Append(queue, cursor + 1)
  /\ UNCHANGED <<tip, open>>

\* The oldest header is taken, or thrown away.
Remove ==
  /\ queue # <<>>
  /\ queue' = Tail(queue)
  /\ UNCHANGED <<tip, cursor, open>>

\* The stream goes back.
Rewind ==
  /\ open
  /\ queue = <<>>
  /\ \E h \in 0 .. cursor - 1 : cursor' = h
  /\ UNCHANGED <<tip, queue, open>>

\* No more headers; those that wait may still be taken.
Close ==
  /\ open
  /\ open' = FALSE
  /\ cursor' = 0
  /\ UNCHANGED <<tip, queue>>

Next == Grow \/ Produce \/ Remove \/ Rewind \/ Close

Spec == Init /\ [][Next]_vars
=============================================================================
