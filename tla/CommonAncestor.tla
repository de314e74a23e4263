--------------------------- MODULE CommonAncestor ---------------------------
(***************************************************************************)
(* HeaderSyncHandler.RollbackToCommonAncestor for a source chain that may  *)
(* fork: from the goal downwards, the header of the contract is compared   *)
(* with the one of the source chain, two calls that other things happen    *)
(* between.  A read of the contract that fails is taken for a header it    *)
(* does not have; a read of the source that fails is tried again, after    *)
(* another read of the contract.  HeaderSync leaves the answers free; this *)
(* module says which height comes out.                                     *)
(*                                                                         *)
(* A block is its height and its branch: the number of the fork that made  *)
(* it.  Forks never reach the heights 1 .. Final, which the contract has.  *)
(***************************************************************************)
EXTENDS Integers

CONSTANTS Goal,        \* where the search begins
          Final,       \* height up to which no fork reaches
          MaxHeight,   \* bound: heights of either chain
          MaxForks,    \* bound: forks, with the one before the search
          MaxFailures  \* bound: reads of the contract that fail

ASSUME AncestorAssumption ==
  /\ Goal \in Nat /\ Final \in Nat /\ MaxHeight \in Nat
  /\ MaxForks \in Nat \ {0} /\ MaxFailures \in Nat
  /\ Final <= Goal /\ Goal <= MaxHeight
  /\ MaxFailures < Final

NoHash == -1  \* no bytes, or zeros: the contract has no header

VARIABLES
  source,    \* the branch of the source chain at each height
  side,      \* that of the contract's headers, or NoHash
  forks,     \* forks so far
  pc,        \* "side" or "source": the read that is next; or "found"
  target,    \* the parameter target
  b,         \* the local variable b
  failures,  \* failed reads of the contract
  known,     \* history: the blocks the contract ever had
  skipped,   \* history: the heights where a read of the contract failed
  changed    \* history: a chain changed since the search began

chains == <<source, side, forks, known, changed>>
search == <<pc, target, b, failures, skipped>>
vars == <<source, side, forks, pc, target, b, failures, known, skipped, changed>>

Heights == 1 .. MaxHeight

\* The contract has the old branch up to some height, the source forked.
Init ==
  /\ \E f \in Final + 1 .. MaxHeight + 1 :
       source = [h \in Heights |-> IF h < f THEN 0 ELSE 1]
  /\ \E n \in Final .. MaxHeight :
       /\ side = [h \in Heights |-> IF h <= n THEN 0 ELSE NoHash]
       /\ known = {<<h, 0>> : h \in 1 .. n}
  /\ forks = 1
  /\ pc = "side"
  /\ target = Goal
  /\ b = NoHash
  /\ failures = 0
  /\ skipped = {}
  /\ changed = FALSE

-----------------------------------------------------------------------------
(* The search *)

\* b, _ = GetSideChainHeader(target)
ReadSide ==
  /\ pc = "side"
  /\ b' = side[target]
  /\ pc' = "source"
  /\ UNCHANGED <<chains, target, failures, skipped>>

\* The error is dropped, and b has no header in it.
ReadSideFails ==
  /\ pc = "side"
  /\ failures < MaxFailures
  /\ failures' = failures + 1
  /\ skipped' = skipped \cup {target}
  /\ b' = NoHash
  /\ pc' = "source"
  /\ UNCHANGED <<chains, target>>

\* Mutant: a height is left out.
StepTwo == target - 2

\* Mutant: the height is not taken down.
SameHeight == target

\* target--
Below == target - 1

GoOn ==
  /\ target' = Below
  /\ pc' = "side"
  /\ UNCHANGED <<chains, b, failures, skipped>>

\* len(b) == 0; eth's contract answers zeros, which are compared.
NoHeader == pc = "source" /\ b = NoHash /\ GoOn

\* Mutant: any two headers will do.
SomeHeader == b # NoHash

\* bytes.Equal(a, b), a being what the source answers.
Equal == source[target] = b

Differ == pc = "source" /\ ~ Equal /\ GoOn

Found ==
  /\ pc = "source"
  /\ Equal
  /\ pc' = "found"
  /\ UNCHANGED <<chains, target, b, failures, skipped>>

\* Mutant: a source that does not answer counts as a difference.
ReadSourceGivesUp == pc = "source" /\ GoOn

ReadSourceFails ==
  /\ pc = "source"
  /\ pc' = "side"
  /\ UNCHANGED <<chains, target, b, failures, skipped>>

Compare == NoHeader \/ Differ \/ Found

Search == ReadSide \/ ReadSideFails \/ Compare \/ ReadSourceFails

-----------------------------------------------------------------------------
(* The two chains *)

Fork ==
  /\ forks < MaxForks
  /\ forks' = forks + 1
  /\ \E f \in Final + 1 .. MaxHeight :
       source' = [h \in Heights |-> IF h < f THEN source[h] ELSE forks']
  /\ changed' = TRUE
  /\ UNCHANGED <<side, known, search>>

\* The contract takes a header of the source whose parent it has, and leaves what
\* it had on another branch: sent by the submitter before, or by another relayer.
Relayed ==
  /\ \E h \in Final + 1 .. MaxHeight :
       /\ side[h - 1] = source[h - 1]
       /\ side[h] # source[h]
       /\ side' = [x \in Heights |-> IF x < h THEN side[x]
                                     ELSE IF x = h THEN source[h] ELSE NoHash]
       /\ known' = known \cup {<<h, source[h]>>}
  /\ changed' = TRUE
  /\ UNCHANGED <<source, forks, search>>

Returned == pc = "found" /\ UNCHANGED vars

Next == Search \/ Fork \/ Relayed \/ Returned

Spec == Init /\ [][Next]_vars

\* The handler is scheduled, its calls return, and the source does not fail for
\* ever.
Fairness == WF_vars(Search) /\ SF_vars(Compare)

FairSpec == Spec /\ Fairness

-----------------------------------------------------------------------------
(* Properties *)

TypeOK ==
  /\ source \in [Heights -> 0 .. MaxForks]
  /\ side \in [Heights -> 0 .. MaxForks \cup {NoHash}]
  /\ forks \in 1 .. MaxForks
  /\ pc \in {"side", "source", "found"}
  /\ target \in 1 .. Goal
  /\ b \in 0 .. MaxForks \cup {NoHash}
  /\ failures \in 0 .. MaxFailures
  /\ known \subseteq Heights \X (0 .. MaxForks)
  /\ skipped \subseteq 1 .. Goal
  /\ changed \in BOOLEAN

\* Each failed read costs a height, and no more, below what is final: a search
\* stays above height 0, where it would go on from the largest uint64, as long as
\* fewer reads fail than there are final headers.
NotTooFar == target >= 1 /\ (target < Final => Final - target <= failures)

\* With both chains at rest, the highest common header is found, but for heights
\* where the contract could not be read, whatever the source did not answer.
HighestFound ==
  pc = "found" /\ ~ changed =>
    /\ side[target] = source[target]
    /\ \A h \in target + 1 .. Goal : h \in skipped \/ side[h] # source[h]

\* While the chains change between the two reads, the height that is found is one
\* from which the contract can be continued: it knows the block the source has
\* there, and all those below.
ParentKnown ==
  [][pc' = "found" /\ pc # "found" =>
       \A h \in 1 .. target : <<h, source[h]>> \in known]_vars

\* The handler that searches, as HeaderSync has it: it leaves start()'s rollback for
\* the height after the one found.
Sync == INSTANCE HeaderSync
  WITH ChainId <- "ETH", Batch <- 1, Buffer <- 1, Confirms <- 0, Start <- 0,
       Word <- MaxHeight + 4, tip <- MaxHeight, done <- FALSE,
       hpc <- IF pc = "found" THEN "wait" ELSE "rollback",
       height <- IF pc = "found" THEN target + 1 ELSE Goal + 1,
       target <- IF pc = "found" THEN 0 ELSE target,
       latest <- 0, ch <- <<>>, closed <- FALSE, reset <- <<>>,
       spc <- "recv", hdr <- 0, headers <- <<>>, pend <- 0

\* However the two chains change and whichever reads fail, the search only does what
\* HeaderSync lets RollbackToCommonAncestor do: it goes down by one height, or returns
\* the height it is at, which is above the one it would go astray from.
RollsBack == [][Sync!Rollback]_(Sync!handlerVars)

\* The search ends.
Ends == <>(pc = "found")

-----------------------------------------------------------------------------
(* The inductive invariant *)

\* The final part of the chains is common for good.
FinalCommon == \A h \in 1 .. Final : side[h] = 0 /\ source[h] = 0

\* A height that is final is only left after a failed read.
LeftAfterFailure ==
  /\ target < Final => Final - target <= failures
  /\ pc = "source" /\ target <= Final =>
       b = 0 \/ Final - target + 1 <= failures

\* What was compared is as it was, at rest.
Compared ==
  ~ changed =>
    /\ \A h \in target + 1 .. Goal : h \in skipped \/ side[h] # source[h]
    /\ pc \in {"source", "found"} =>
         b = side[target] \/ (b = NoHash /\ target \in skipped)
    /\ pc = "found" => b = source[target]

AInv == TypeOK /\ FinalCommon /\ LeftAfterFailure /\ Compared
=============================================================================
