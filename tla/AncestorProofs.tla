--------------------------- MODULE AncestorProofs ---------------------------
(***************************************************************************)
(* The search for the common ancestor, for chains of any length, any       *)
(* number of forks and any goal: it stays above height 0 when fewer reads  *)
(* of the contract fail than there are final headers, and what it finds    *)
(* while the chains are at rest is the highest common header it could see. *)
(***************************************************************************)
EXTENDS CommonAncestor, TLAPS

\* The constants as integers, and what AInv says of where the search is.
LEMMA TargetFacts ==
  ASSUME AInv
  PROVE  /\ target \in 1 .. Goal /\ target \in Heights
         /\ Goal \in Nat /\ Final \in Nat /\ Final >= 1
         /\ failures \in 0 .. MaxFailures
         /\ source[target] \in 0 .. MaxForks
         /\ side[target] \in 0 .. MaxForks \cup {NoHash}
<1>1. target \in 1 .. Goal /\ target \in Heights
  BY AncestorAssumption DEF AInv, TypeOK, Heights
<1> QED BY <1>1, AncestorAssumption DEF AInv, TypeOK

\* The search starts in the invariant.
LEMMA InitAInv ==
  ASSUME Init PROVE AInv
<1> USE AncestorAssumption
<1> PICK f \in Final + 1 .. MaxHeight + 1 :
      source = [h \in Heights |-> IF h < f THEN 0 ELSE 1]
  BY DEF Init
<1> PICK n \in Final .. MaxHeight :
      /\ side = [h \in Heights |-> IF h <= n THEN 0 ELSE NoHash]
      /\ known = {<<h, 0>> : h \in 1 .. n}
  BY DEF Init
<1>1. TypeOK
  <2>1. source \in [Heights -> 0 .. MaxForks]
    BY DEF Heights
  <2>2. side \in [Heights -> 0 .. MaxForks \cup {NoHash}]
    BY DEF Heights
  <2>3. known \subseteq Heights \X (0 .. MaxForks)
    BY DEF Heights
  <2>4. /\ forks \in 1 .. MaxForks /\ pc \in {"side", "source", "found"}
        /\ target \in 1 .. Goal /\ b \in 0 .. MaxForks \cup {NoHash}
        /\ failures \in 0 .. MaxFailures /\ skipped \subseteq 1 .. Goal
    BY DEF Init
  <2>5. changed \in BOOLEAN
    BY DEF Init
  <2> QED BY <2>1, <2>2, <2>3, <2>4, <2>5 DEF TypeOK
<1>2. FinalCommon
  BY DEF FinalCommon, Heights
<1>3. LeftAfterFailure
  BY DEF Init, LeftAfterFailure
<1>4. Compared
  BY DEF Init, Compared
<1> QED BY <1>1, <1>2, <1>3, <1>4 DEF AInv

\* A step of the search leaves the chains as they are.
LEMMA SearchFrame ==
  ASSUME AInv, UNCHANGED chains,
         pc' \in {"side", "source", "found"},
         target' \in 1 .. Goal, b' \in 0 .. MaxForks \cup {NoHash},
         failures' \in 0 .. MaxFailures, skipped' \subseteq 1 .. Goal
  PROVE  TypeOK' /\ FinalCommon'
<1>1. TypeOK'
  BY DEF AInv, TypeOK, chains
<1>2. FinalCommon'
  BY DEF AInv, FinalCommon, chains
<1> QED BY <1>1, <1>2

\* The contract is read.
LEMMA ReadSideStep ==
  ASSUME AInv, ReadSide PROVE AInv'
<1>0. /\ UNCHANGED <<source, side, changed, target, failures, skipped>>
      /\ UNCHANGED chains
      /\ b' = side[target] /\ pc' = "source"
  BY DEF ReadSide, chains
<1>1. TypeOK' /\ FinalCommon'
  BY <1>0, TargetFacts, SearchFrame DEF AInv, TypeOK
<1>2. LeftAfterFailure'
  <2>1. target <= Final => side[target] = 0
    BY TargetFacts DEF AInv, FinalCommon
  <2> QED BY <1>0, <2>1 DEF AInv, LeftAfterFailure
<1>3. Compared'
  BY <1>0, Zenon DEF AInv, Compared
<1> QED BY <1>1, <1>2, <1>3 DEF AInv

\* A read fails: it pays for the height that will be left.
LEMMA ReadSideFailsStep ==
  ASSUME AInv, ReadSideFails PROVE AInv'
<1>0. /\ UNCHANGED <<source, side, changed, target>> /\ UNCHANGED chains
      /\ failures < MaxFailures /\ failures' = failures + 1
      /\ skipped' = skipped \cup {target}
      /\ b' = NoHash /\ pc' = "source"
  BY DEF ReadSideFails, chains
<1>1. TypeOK' /\ FinalCommon'
  BY <1>0, TargetFacts, SearchFrame, AncestorAssumption DEF AInv, TypeOK
<1>2. LeftAfterFailure'
  BY <1>0, TargetFacts DEF AInv, LeftAfterFailure
<1>3. Compared'
  BY <1>0 DEF AInv, Compared
<1> QED BY <1>1, <1>2, <1>3 DEF AInv

\* A height is left that is not common, or that was not read.
LEMMA GoOnStep ==
  ASSUME AInv, NoHeader \/ Differ PROVE AInv'
<1>0. /\ UNCHANGED <<source, side, changed, failures, skipped, b>> /\ UNCHANGED chains
      /\ pc = "source" /\ pc' = "side" /\ target' = target - 1
      /\ b = NoHash \/ b # source[target]
  BY DEF NoHeader, Differ, Equal, GoOn, Below, chains
<1>1. target <= Final => Final - target + 1 <= failures
  <2>1. target <= Final => source[target] = 0
    BY TargetFacts DEF AInv, FinalCommon
  <2> QED BY <1>0, <2>1 DEF AInv, LeftAfterFailure, NoHash
<1>2. target' \in 1 .. Goal
  BY <1>0, <1>1, TargetFacts, AncestorAssumption
<1>3. TypeOK' /\ FinalCommon'
  BY <1>0, <1>2, TargetFacts, SearchFrame DEF AInv, TypeOK
<1>4. LeftAfterFailure'
  BY <1>0, <1>1, TargetFacts DEF LeftAfterFailure
<1>5. Compared'
  <2> SUFFICES ASSUME ~ changed, NEW h \in target .. Goal
               PROVE  h \in skipped \/ side[h] # source[h]
    BY <1>0, TargetFacts DEF Compared
  <2>1. CASE h > target
    BY <2>1, TargetFacts DEF AInv, Compared
  <2>2. CASE h = target
    <3>1. source[target] # NoHash
      BY TargetFacts DEF NoHash
    <3>2. b = side[target] \/ target \in skipped
      BY <1>0 DEF AInv, Compared
    <3> QED BY <1>0, <2>2, <3>1, <3>2
  <2> QED BY <2>1, <2>2, TargetFacts
<1> QED BY <1>3, <1>4, <1>5 DEF AInv

\* The headers are equal; or the source did not answer.
LEMMA OtherSearchStep ==
  ASSUME AInv, Found \/ ReadSourceFails PROVE AInv'
<1>0. /\ UNCHANGED <<source, side, changed, target, failures, skipped, b>>
      /\ UNCHANGED chains
      /\ pc = "source"
      /\ \/ pc' = "side"
         \/ pc' = "found" /\ b = source[target]
  BY DEF Found, ReadSourceFails, Equal, chains
<1>1. TypeOK' /\ FinalCommon'
  BY <1>0, SearchFrame DEF AInv, TypeOK
<1>2. LeftAfterFailure'
  BY <1>0 DEF AInv, LeftAfterFailure
<1>3. Compared'
  BY <1>0 DEF AInv, Compared
<1> QED BY <1>1, <1>2, <1>3 DEF AInv

\* The source chain forks above what is final.
LEMMA ForkStep ==
  ASSUME AInv, Fork PROVE AInv'
<1>0. /\ UNCHANGED <<side, known, pc, target, b, failures, skipped>>
      /\ forks < MaxForks /\ forks' = forks + 1 /\ changed' = TRUE
  BY DEF Fork, search
<1> PICK f \in Final + 1 .. MaxHeight :
      source' = [h \in Heights |-> IF h < f THEN source[h] ELSE forks']
  BY DEF Fork
<1>1. TypeOK'
  <2>1. forks' \in 1 .. MaxForks /\ forks' \in 0 .. MaxForks
    BY <1>0, AncestorAssumption DEF AInv, TypeOK
  <2>2. source' \in [Heights -> 0 .. MaxForks]
    BY <2>1 DEF AInv, TypeOK
  <2>3. changed' \in BOOLEAN
    BY <1>0
  <2> QED BY <1>0, <2>1, <2>2, <2>3 DEF AInv, TypeOK
<1>2. FinalCommon'
  BY <1>0, AncestorAssumption DEF AInv, FinalCommon, Heights
<1>3. LeftAfterFailure'
  BY <1>0 DEF AInv, LeftAfterFailure
<1>4. Compared'
  BY <1>0 DEF Compared
<1> QED BY <1>1, <1>2, <1>3, <1>4 DEF AInv

\* The contract takes a header above what is final.
LEMMA RelayedStep ==
  ASSUME AInv, Relayed PROVE AInv'
<1>0. /\ UNCHANGED <<source, forks, pc, target, b, failures, skipped>>
      /\ changed' = TRUE
  BY DEF Relayed, search
<1> PICK h \in Final + 1 .. MaxHeight :
      /\ side' = [x \in Heights |-> IF x < h THEN side[x]
                                    ELSE IF x = h THEN source[h] ELSE NoHash]
      /\ known' = known \cup {<<h, source[h]>>}
  BY DEF Relayed
<1>1. h \in Heights
  BY AncestorAssumption DEF Heights
<1>2. TypeOK'
  <2>1. source[h] \in 0 .. MaxForks
    BY <1>1 DEF AInv, TypeOK
  <2>2. side' \in [Heights -> 0 .. MaxForks \cup {NoHash}]
    BY <2>1 DEF AInv, TypeOK
  <2>3. known' \subseteq Heights \X (0 .. MaxForks)
    BY <1>1, <2>1 DEF AInv, TypeOK
  <2>4. changed' \in BOOLEAN
    BY <1>0
  <2> QED BY <1>0, <2>2, <2>3, <2>4 DEF AInv, TypeOK
<1>3. FinalCommon'
  BY <1>0, AncestorAssumption DEF AInv, FinalCommon, Heights
<1>4. LeftAfterFailure'
  BY <1>0 DEF AInv, LeftAfterFailure
<1>5. Compared'
  BY <1>0 DEF Compared
<1> QED BY <1>2, <1>3, <1>4, <1>5 DEF AInv

LEMMA StillStep ==
  ASSUME AInv, UNCHANGED vars PROVE AInv'
BY DEF AInv, vars, TypeOK, FinalCommon, LeftAfterFailure, Compared

\* The chains and the search stay in the invariant: what is final is common, a
\* final height is left only after a failed read, and what was compared at rest
\* still holds.
THEOREM SearchInvariant == Spec => []AInv
<1>1. AInv /\ [Next]_vars => AInv'
  BY ReadSideStep, ReadSideFailsStep, GoOnStep, OtherSearchStep, ForkStep, RelayedStep,
     StillStep
  DEF Next, Search, Compare, Returned
<1>2. Init => AInv
  BY InitAInv
<1> QED BY <1>1, <1>2, PTL DEF Spec

\* The search never comes to height 0, nor below the final headers by more heights
\* than reads of the contract failed.
THEOREM StaysAbove == Spec => []NotTooFar
<1>1. AInv => NotTooFar
  BY TargetFacts DEF AInv, LeftAfterFailure, NotTooFar
<1> QED BY <1>1, SearchInvariant, PTL

\* What is found at rest is the highest common header, the heights that could not be
\* read aside.
THEOREM FindsHighest == Spec => []HighestFound
<1>1. AInv => HighestFound
  <2> SUFFICES ASSUME AInv, pc = "found", ~ changed
               PROVE  /\ side[target] = source[target]
                      /\ \A h \in target + 1 .. Goal : h \in skipped \/ side[h] # source[h]
    BY DEF HighestFound
  <2>1. source[target] # NoHash
    BY TargetFacts DEF NoHash
  <2> QED BY <2>1 DEF AInv, Compared
<1> QED BY <1>1, SearchInvariant, PTL

-----------------------------------------------------------------------------
(* What the contract knows *)

\* The contract knows what it has and what the search read of it; a block it knows
\* of the source chain it knows with all those below; a fork has a number of its own.
KnownInv ==
  /\ source \in [Heights -> 0 .. forks]
  /\ known \subseteq Heights \X (0 .. forks)
  /\ \A h \in Heights : side[h] = NoHash \/ <<h, side[h]>> \in known
  /\ pc \in {"source", "found"} => b = NoHash \/ <<target, b>> \in known
  /\ \A t \in Heights : <<t, source[t]>> \in known =>
       \A h \in 1 .. t : <<h, source[h]>> \in known

\* The contract begins with the old branch.
LEMMA InitKnown ==
  ASSUME Init PROVE KnownInv
<1> USE AncestorAssumption
<1> PICK f \in Final + 1 .. MaxHeight + 1 :
      source = [h \in Heights |-> IF h < f THEN 0 ELSE 1]
  BY DEF Init
<1> PICK n \in Final .. MaxHeight :
      /\ side = [h \in Heights |-> IF h <= n THEN 0 ELSE NoHash]
      /\ known = {<<h, 0>> : h \in 1 .. n}
  BY DEF Init
<1>1. forks = 1 /\ pc = "side"
  BY DEF Init
<1>2. \A h \in Heights, k \in Int : <<h, k>> \in known <=> h <= n /\ k = 0
  BY DEF Heights
<1>3. known \subseteq Heights \X (0 .. forks)
  BY <1>1 DEF Heights
<1>4. \A h \in Heights : side[h] = NoHash \/ <<h, side[h]>> \in known
  BY <1>2
<1>5. ASSUME NEW t \in Heights, <<t, source[t]>> \in known, NEW h \in 1 .. t
      PROVE  <<h, source[h]>> \in known
  <2>1. h \in Heights /\ h <= t
    BY DEF Heights
  <2>2. t <= n /\ source[t] = 0 /\ source[t] \in Int
    BY <1>2, <1>5
  <2>3. t < f
    BY <2>2
  <2>4. source[h] = 0 /\ h <= n
    BY <2>1, <2>2, <2>3 DEF Heights
  <2> QED BY <1>2, <2>1, <2>4
<1>6. source \in [Heights -> 0 .. forks]
  BY <1>1
<1> QED BY <1>1, <1>3, <1>4, <1>5, <1>6 DEF KnownInv

\* A step of the search reads, compares or goes on.
LEMMA SearchKnown ==
  ASSUME AInv, KnownInv, Search PROVE KnownInv'
<1>1. UNCHANGED <<known, forks, side, source>>
  BY DEF Search, ReadSide, ReadSideFails, Compare, NoHeader, Differ, Found,
         ReadSourceFails, GoOn, chains
<1>2. pc' \in {"source", "found"} => b' = NoHash \/ <<target', b'>> \in known
  BY TargetFacts
  DEF KnownInv, Search, ReadSide, ReadSideFails, Compare, NoHeader, Differ, Found,
      ReadSourceFails, GoOn
<1> QED BY <1>1, <1>2 DEF KnownInv

\* The new branch is not known, the rest of the source chain is what it was.
LEMMA ForkKnown ==
  ASSUME AInv, KnownInv, Fork PROVE KnownInv'
<1>1. /\ forks' = forks + 1 /\ UNCHANGED <<side, known, pc, target, b>>
      /\ forks \in Nat
  BY DEF Fork, search, AInv, TypeOK
<1>2. PICK f \in Final + 1 .. MaxHeight :
        source' = [h \in Heights |-> IF h < f THEN source[h] ELSE forks']
  BY DEF Fork
<1>3. known \subseteq Heights \X (0 .. forks')
  BY <1>1 DEF KnownInv
<1>4. ASSUME NEW t \in Heights, <<t, source'[t]>> \in known, NEW h \in 1 .. t
      PROVE  <<h, source'[h]>> \in known
  <2>1. h \in Heights /\ h <= t /\ f \in Int /\ t \in Int /\ h \in Int
    BY AncestorAssumption DEF Heights
  <2>2. source'[t] # forks'
    BY <1>1, <1>4 DEF KnownInv
  <2>3. t < f
    BY <1>2, <2>2
  <2>4. source'[t] = source[t] /\ source'[h] = source[h]
    BY <1>2, <2>1, <2>3
  <2> QED BY <1>4, <2>4 DEF KnownInv
<1>5. source' \in [Heights -> 0 .. forks']
  BY <1>1, <1>2 DEF KnownInv
<1> QED BY <1>1, <1>3, <1>4, <1>5 DEF KnownInv

\* The contract learns the next block of the source chain.
LEMMA RelayedKnown ==
  ASSUME AInv, KnownInv, Relayed PROVE KnownInv'
<1>1. UNCHANGED <<source, forks, pc, target, b>>
  BY DEF Relayed, search
<1>2. PICK h \in Final + 1 .. MaxHeight :
        /\ side[h - 1] = source[h - 1]
        /\ side' = [x \in Heights |-> IF x < h THEN side[x]
                                      ELSE IF x = h THEN source[h] ELSE NoHash]
        /\ known' = known \cup {<<h, source[h]>>}
  BY DEF Relayed
<1>3. Final \in Nat /\ Final >= 1 /\ h \in Heights /\ h - 1 \in Heights
  BY AncestorAssumption DEF Heights
<1>4. source \in [Heights -> 0 .. MaxForks] /\ forks \in 1 .. MaxForks
  BY DEF AInv, TypeOK
<1>5. \A x \in 1 .. h : <<x, source[x]>> \in known'
  <2>1. <<h - 1, source[h - 1]>> \in known
    <3>1. source[h - 1] # NoHash
      BY <1>3, <1>4, AncestorAssumption DEF NoHash
    <3> QED BY <1>2, <1>3, <3>1 DEF KnownInv
  <2>2. \A x \in 1 .. h - 1 : <<x, source[x]>> \in known
    BY <1>3, <2>1 DEF KnownInv
  <2> QED BY <1>2, <1>3, <2>2
<1>6. \A t \in Heights : <<t, source[t]>> \in known' =>
        \A x \in 1 .. t : <<x, source[x]>> \in known'
  <2> SUFFICES ASSUME NEW t \in Heights, <<t, source[t]>> \in known'
               PROVE  \A x \in 1 .. t : <<x, source[x]>> \in known'
    OBVIOUS
  <2>1. CASE t = h
    BY <1>5, <2>1
  <2>2. CASE t # h
    BY <1>2, <2>2 DEF KnownInv
  <2> QED BY <2>1, <2>2
<1>7. \A x \in Heights : side'[x] = NoHash \/ <<x, side'[x]>> \in known'
  BY <1>2 DEF KnownInv
<1>8. source[h] \in 0 .. forks
  BY <1>3 DEF KnownInv
<1> QED BY <1>1, <1>2, <1>3, <1>6, <1>7, <1>8 DEF KnownInv

\* What is found while the chains change is a block the contract knows, with all
\* those below: the handler goes on with a header whose parent the contract has seen.
THEOREM FoundIsKnown == Spec => ParentKnown
<1>1. AInv /\ KnownInv /\ [Next]_vars => KnownInv'
  <2>1. UNCHANGED vars /\ KnownInv => KnownInv'
    BY DEF vars, KnownInv
  <2> QED BY <2>1, SearchKnown, ForkKnown, RelayedKnown DEF Next, Returned
<1>2. ASSUME AInv, KnownInv, [Next]_vars
      PROVE  [pc' = "found" /\ pc # "found" =>
               \A h \in 1 .. target : <<h, source[h]>> \in known]_vars
  <2> SUFFICES ASSUME Next, pc' = "found", pc # "found"
               PROVE  \A h \in 1 .. target : <<h, source[h]>> \in known
    BY <1>2
  <2>1. Found
    BY DEF Next, Search, ReadSide, ReadSideFails, Compare, NoHeader, Differ,
           ReadSourceFails, GoOn, Fork, Relayed, Returned, search
  <2>2. target \in Heights /\ source[target] # NoHash
    BY <1>2, TargetFacts DEF NoHash
  <2>3. <<target, source[target]>> \in known
    BY <1>2, <2>1, <2>2 DEF KnownInv, Found, Equal
  <2> QED BY <1>2, <2>2, <2>3 DEF KnownInv
<1> QED BY <1>1, <1>2, InitKnown, SearchInvariant, PTL DEF Spec, ParentKnown

-----------------------------------------------------------------------------
(* The search and the handler of HeaderSync *)

\* One step of the search, as the handler sees it.
LEMMA StepRollsBack ==
  ASSUME AInv, AInv', [Next]_vars
  PROVE  [Sync!Rollback]_(Sync!handlerVars)
<1> USE DEF Sync!Rollback, Sync!handlerVars
<1>1. CASE Found
  <2>1. pc = "source" /\ pc' = "found" /\ target' = target
    BY <1>1 DEF Found
  <2>2. target <= MaxHeight
    BY TargetFacts DEF Heights
  <2>3. Sync!RollbackMatch
    BY <2>1, <2>2 DEF Sync!RollbackMatch, Sync!SearchesAncestor, Sync!ReturnFromRollback
  <2> QED BY <2>3
<1>2. CASE NoHeader \/ Differ
  <2>1. pc = "source" /\ pc' = "side" /\ target' = target - 1
    BY <1>2 DEF NoHeader, Differ, GoOn, Below
  <2>2. target <= MaxHeight /\ Sync!Minus(target, 1) = target - 1
    BY TargetFacts DEF Heights, Sync!Minus
  <2>3. Sync!RollbackMiss
    BY <2>1, <2>2 DEF Sync!RollbackMiss, Sync!SearchesAncestor
  <2> QED BY <2>3
<1>3. CASE ReadSide \/ ReadSideFails \/ ReadSourceFails \/ Fork \/ Relayed \/ Returned
           \/ UNCHANGED vars
  <2>1. target' = target /\ (pc = "found" <=> pc' = "found")
    BY <1>3 DEF ReadSide, ReadSideFails, ReadSourceFails, Fork, Relayed, Returned, search, vars
  <2> QED BY <2>1
<1> QED BY <1>1, <1>2, <1>3 DEF Next, Search, Compare

\* For chains of any length and any forks: what RollbackToCommonAncestor does is what
\* HeaderSync says of it, so what is proved there of the handler, with its answers
\* free, holds of the search that makes them.
THEOREM SearchRollsBack == Spec => RollsBack
<1>1. AInv /\ AInv' /\ [Next]_vars => [Sync!Rollback]_(Sync!handlerVars)
  BY StepRollsBack
<1> QED BY <1>1, SearchInvariant, PTL DEF Spec, RollsBack
=============================================================================
