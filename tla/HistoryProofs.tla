---------------------------- MODULE HistoryProofs ----------------------------
(***************************************************************************)
(* No failed header is left behind, as long as a drain cannot move the     *)
(* handler forward: with a buffer of at most two headers, the default for  *)
(* single ones, whatever the batch, the verdicts and the answers of the    *)
(* chains.                                                                 *)
(***************************************************************************)
EXTENDS HeaderSyncHistory, HeaderSyncProofs, FiniteSetTheorems

(* Least elements, and the heights of a sequence *)

\* A set of naturals has a least element, which is its Min.
LEMMA LeastNatural ==
  ASSUME NEW S \in SUBSET Nat, S # {}
  PROVE  Min(S) \in S /\ \A x \in S : Min(S) <= x
<1> DEFINE R == OpToRel(<, Nat)
<1>1. IsWellFoundedOn(R, Nat)
  BY NatLessThanWellFounded
<1>2. \A x, y \in Nat : <<y, x>> \in R <=> y < x
  BY DEF OpToRel
<1> HIDE DEF R
<1>3. PICK x \in S : \A y \in S : ~ (<<y, x>> \in R)
  BY <1>1, WFMin, Zenon
<1>4. ASSUME NEW y \in S PROVE x <= y
  <2>1. x \in Nat /\ y \in Nat
    OBVIOUS
  <2>2. ~ (y < x)
    BY <1>2, <1>3, <2>1, Zenon
  <2> QED BY <2>1, <2>2
<1> QED BY <1>4 DEF Min

\* The heights of a sequence are no more than its elements.
LEMMA HeightsFinite ==
  ASSUME NEW s \in Seq(Nat)
  PROVE  /\ Heights(s) \subseteq Nat
         /\ IsFiniteSet(Heights(s))
         /\ Cardinality(Heights(s)) <= Len(s)
<1>1. s \in Surjection(1 .. Len(s), Heights(s))
  BY DEF Heights, Surjection
<1>2. ExistsSurjection(1 .. Len(s), Heights(s)) /\ Len(s) \in Nat
  BY <1>1 DEF ExistsSurjection
<1>3. Heights(s) \subseteq Nat
  BY DEF Heights
<1> QED BY <1>2, <1>3, FS_NatSurjection, FS_SurjCardinalityBound

\* The heights of a sequence with one more element.
LEMMA HeightsAppend ==
  ASSUME NEW s \in Seq(Nat), NEW e \in Nat
  PROVE  Heights(Append(s, e)) = Heights(s) \cup {e}
<1>1. /\ Len(Append(s, e)) = Len(s) + 1 /\ Len(s) \in Nat
      /\ \A i \in 1 .. Len(s) : Append(s, e)[i] = s[i]
      /\ Append(s, e)[Len(s) + 1] = e
  BY AppendFacts
<1>2. 1 .. Len(s) + 1 = 1 .. Len(s) \cup {Len(s) + 1}
  BY <1>1
<1> QED BY <1>1, <1>2 DEF Heights

\* No headers, no heights.
LEMMA HeightsEmpty == Heights(<<>>) = {}
  BY DEF Heights

(* What a verdict does to the height that is owed *)

\* After a success it is one that the batch did not have.
LEMMA SettleSuccess ==
  ASSUME TypeOK, owed \in Nat, Settle, Succeeds
  PROVE  owed' \in Nat /\ owed' >= owed /\ owed' \notin Heights(headers)
<1> DEFINE W == owed .. owed + Batch
<1>1. /\ IsFiniteSet(Heights(headers))
      /\ Cardinality(Heights(headers)) <= Batch
      /\ Cardinality(Heights(headers)) \in Nat
  BY HeightsFinite, FS_CardinalityType, ConfigAssumption DEF TypeOK
<1>2. Cardinality(W) = Batch + 1
  BY FS_Interval, ConfigAssumption
<1>3. W \ Heights(headers) # {}
  <2> SUFFICES ASSUME W \subseteq Heights(headers) PROVE FALSE
    OBVIOUS
  <2>1. Cardinality(W) <= Cardinality(Heights(headers))
    BY <1>1, FS_Subset
  <2> QED BY <1>1, <1>2, <2>1, ConfigAssumption
<1>4. owed' = Min(W \ Heights(headers))
  BY DEF Settle
<1>5. W \ Heights(headers) \subseteq Nat
  BY ConfigAssumption
<1>6. owed' \in W \ Heights(headers)
  BY <1>3, <1>4, <1>5, LeastNatural
<1> QED BY <1>5, <1>6

\* After a failure it is the lowest of those of the batch and the old one.
LEMMA SettleFailure ==
  ASSUME TypeOK, owed \in Nat, Settle, Fails
  PROVE  /\ owed' \in Heights(headers) \cup {owed}
         /\ owed' \in Nat /\ owed' <= owed
         /\ \A h \in Heights(headers) : owed' <= h
<1>1. Heights(headers) \cup {owed} \subseteq Nat
  BY HeightsFinite DEF TypeOK
<1>2. owed' = Min(Heights(headers) \cup {owed})
  BY DEF Settle, Succeeds, Fails
<1> QED BY <1>1, <1>2, LeastNatural

\* No other step changes it.
LEMMA SettleOther ==
  ASSUME Settle, CountFaults, ~ Succeeds, ~ Fails
  PROVE  owed' = owed /\ faults' = faults
BY DEF Settle, CountFaults

-----------------------------------------------------------------------------
(* Where the handler is, with a short channel *)

\* Places in the handler's loop are integers.
LEMMA PastType ==
  ASSUME TypeOK
  PROVE  Past \in Int /\ Cursor \in Int /\ Len(ch) \in Nat
<1>1. height \in Int /\ target \in Int
  BY ConfigAssumption DEF TypeOK
<1>2. Len(ch) \in Nat
  BY DEF TypeOK
<1>3. Cursor \in Int
  BY <1>1 DEF Cursor
<1> QED BY <1>1, <1>2, <1>3 DEF Past

\* So they are after a step.
LEMMA PastTypeNext ==
  ASSUME TypeOK'
  PROVE  Past' \in Int /\ Cursor' \in Int /\ Len(ch)' \in Nat
<1>1. height' \in Int /\ target' \in Int
  BY ConfigAssumption DEF TypeOK
<1>2. Len(ch)' \in Nat
  BY DEF TypeOK
<1>3. Cursor' \in Int
  BY <1>1 DEF Cursor
<1> QED BY <1>1, <1>2, <1>3 DEF Past

\* A short channel holds at most two headers, the heights up to where the handler
\* is.
LEMMA ChannelHeights ==
  ASSUME IInv, Buffer <= 2, hpc # "exit"
  PROVE  /\ Len(ch) <= 2
         /\ \A i \in 1 .. Len(ch) : ch[i] = Cursor - Len(ch) + i
<1>1. /\ Len(ch) \in Nat /\ Cursor \in Int
      /\ \A i \in 1 .. Len(ch) : ch[i] \in Nat
  <2>1. ch \in Seq(Nat)
    BY DEF IInv, TypeOK
  <2>2. \A i \in 1 .. Len(ch) : ch[i] \in Nat
    BY ONLY <2>1
  <2> QED BY <2>2, PastType DEF IInv
<1>2. Len(ch) <= 2
  BY <1>1, ConfigAssumption DEF IInv, TypeOK
<1>3. ASSUME NEW i \in 1 .. Len(ch) PROVE ch[i] = Cursor - Len(ch) + i
  <2>1. ch # <<>> /\ ch[Len(ch)] = Cursor
    BY <1>1, EmptyFacts DEF IInv, ChannelContiguous
  <2>2. CASE i = Len(ch)
    BY <1>1, <2>1, <2>2
  <2>3. CASE i # Len(ch)
    <3>1. i \in 1 .. Len(ch) - 1 /\ i + 1 = Len(ch)
      BY <1>1, <1>2, <2>3
    <3>2. ch[i + 1] = ch[i] + 1
      BY <3>1 DEF IInv, ChannelContiguous
    <3> QED BY <1>1, <2>1, <3>1, <3>2
  <2> QED BY <2>2, <2>3
<1> QED BY <1>2, <1>3

-----------------------------------------------------------------------------
(* Steps that take no header and give no verdict *)

\* They keep the invariant if the handler does not move forward, and a reset that
\* asks for a height below what is owed is only lost when the handler is there.
LEMMA BackwardInv ==
  ASSUME IInv, IInv', OwedInv, UNCHANGED <<owed, faults, hdr, headers>>,
         Live' => Live /\ Past' <= Past,
         Live' /\ AskedBack => AskedBack' \/ Past' < owed,
         hpc' = "drain" =>
           /\ target' + 2 <= height'
           /\ \A i \in 1 .. Len(headers) : height' <= headers[i] + Len(headers) + 1
  PROVE  OwedInv'
<1>1. Past \in Int /\ Past' \in Int /\ owed \in Nat
  BY PastType, PastTypeNext DEF OwedInv, IInv
<1>2. ASSUME Live' PROVE (Covered \/ AskedBack)'
  <2>1. CASE AskedBack
    <3>1. CASE AskedBack'
      BY <3>1
    <3>2. CASE Past' < owed
      BY <1>1, <3>2 DEF Covered
    <3> QED BY <1>2, <2>1, <3>1, <3>2
  <2>2. CASE Covered
    BY <1>1, <1>2, <2>2 DEF Covered
  <2> QED BY <1>2, <2>1, <2>2 DEF OwedInv
<1>3. ASSUME Live' PROVE BatchSpan'
  <2>1. headers \in Seq(Nat)
    BY DEF IInv, TypeOK
  <2>2. Len(headers) \in Nat /\ \A i \in 1 .. Len(headers) : headers[i] \in Nat
    BY <2>1
  <2>3. BatchSpan /\ Past' <= Past
    BY <1>3 DEF OwedInv
  <2>4. ASSUME NEW i \in 1 .. Len(headers) PROVE Past' < headers[i] + Len(headers)
    <3>1. Past < headers[i] + Len(headers)
      BY <2>3 DEF BatchSpan
    <3> QED BY <1>1, <2>2, <2>3, <3>1
  <2> QED BY <2>3, <2>4 DEF BatchSpan
<1> QED BY <1>2, <1>3 DEF OwedInv

\* What the variables of the pipeline hold.
LEMMA Types ==
  ASSUME IInv, OwedInv
  PROVE  /\ height \in Nat /\ target \in Nat /\ tip \in Nat /\ owed \in Nat /\ hdr \in Nat
         /\ ch \in Seq(Nat) /\ Len(ch) \in Nat
         /\ headers \in Seq(Nat) /\ Len(headers) \in Nat /\ Len(headers) <= Batch
         /\ \A i \in 1 .. Len(headers) : headers[i] \in Nat
         /\ ch # <<>> => Head(ch) \in Nat /\ Head(ch) = ch[1] /\ Len(ch) # 0
         /\ reset # <<>> => Head(reset) \in Nat /\ Tail(reset) = <<>>
<1>1. /\ height \in Nat /\ target \in Nat /\ tip \in Nat /\ owed \in Nat /\ hdr \in Nat
      /\ ch \in Seq(Nat) /\ Len(ch) \in Nat
      /\ headers \in Seq(Nat) /\ Len(headers) \in Nat /\ Len(headers) <= Batch
      /\ reset \in Seq(0 .. Word - 1) /\ Len(reset) <= 1
  BY ConfigAssumption DEF IInv, TypeOK, OwedInv
<1>2. \A i \in 1 .. Len(headers) : headers[i] \in Nat
  BY <1>1
<1>3. ch # <<>> => Head(ch) \in Nat /\ Head(ch) = ch[1] /\ Len(ch) # 0
  BY <1>1, TailFacts
<1>4. ASSUME reset # <<>> PROVE Head(reset) \in Nat /\ Tail(reset) = <<>>
  <2>1. Head(reset) \in 0 .. Word - 1
    BY <1>1, <1>4, TailFacts
  <2>2. Tail(reset) = <<>>
    BY <1>4, TailFacts DEF IInv, TypeOK
  <2> QED BY <2>1, <2>2, ConfigAssumption
<1> QED BY <1>1, <1>2, <1>3, <1>4

\* The handler looks at a reset: it goes back, and with a short channel never
\* forward, or it is there already.
LEMMA LookOwed ==
  ASSUME Buffer <= 2, IInv, IInv', OwedInv, UNCHANGED <<owed, faults, submitterVars>>,
         SelectReset \/ SelectStaleReset
  PROVE  OwedInv'
<1>1. /\ height \in Nat /\ Len(ch) \in Nat /\ Head(reset) \in Nat /\ owed \in Nat
      /\ headers \in Seq(Nat) /\ Len(headers) \in Nat
  <2>1. reset # <<>>
    BY DEF SelectReset, SelectStaleReset
  <2> QED BY <2>1, Types
<1>2. Len(ch) <= 2 /\ Past = height - Len(ch) /\ Live
  <2>1. hpc = "select"
    BY DEF SelectReset, SelectStaleReset
  <2> QED BY <2>1, ChannelHeights DEF Past, Cursor, Live
<1>3. UNCHANGED <<owed, faults, spc, pend, hdr, headers>>
  BY DEF submitterVars
<1>4. CASE SelectReset
  <2>1. /\ Past' = Head(reset) - 1 /\ Head(reset) < height /\ Head(reset) # 0
        /\ target' = Head(reset) - 1 /\ height' = height
    BY <1>4 DEF SelectReset, Past
  <2>2. AskedBack => AskedBack' \/ Past' < owed
    BY <1>1, <1>3, <2>1 DEF AskedBack
  <2>3. Past' <= Past /\ target' + 2 <= height'
    BY <1>1, <1>2, <2>1
  <2>4. ASSUME NEW i \in 1 .. Len(headers)
        PROVE  height' <= headers[i] + Len(headers) + 1
    <3>1. Past < headers[i] + Len(headers) /\ headers[i] \in Nat
      BY <1>1, <1>2 DEF OwedInv, BatchSpan
    <3> QED BY <1>1, <1>2, <2>1, <3>1
  <2> QED BY <1>2, <1>3, <2>2, <2>3, <2>4, BackwardInv
<1>5. CASE SelectStaleReset
  <2>1. Past' = Past /\ hpc' = "wait"
    BY <1>1, <1>2, <1>5 DEF SelectStaleReset, Past, Cursor
  <2>2. AskedBack => AskedBack' \/ Past' < owed
    BY <1>1, <1>2, <1>3, <1>5, <2>1 DEF AskedBack, SelectStaleReset
  <2> QED BY <1>1, <1>2, <1>3, <2>1, <2>2, BackwardInv
<1> QED BY <1>4, <1>5

\* The handler leaves its loop: nothing is owed to it any more.
LEMMA LeaveOwed ==
  ASSUME IInv, IInv', OwedInv, UNCHANGED <<owed, faults, submitterVars>>,
         SelectDone \/ WaitCancelled \/ SendCancelled
  PROVE  OwedInv'
<1>1. hpc' = "exit"
  BY DEF SelectDone, WaitCancelled, SendCancelled, BreakLoop
<1> QED BY <1>1 DEF OwedInv, Live, submitterVars

\* One header is thrown away, or the drain ends.
LEMMA DrainOwed ==
  ASSUME IInv, IInv', OwedInv, UNCHANGED <<owed, faults, submitterVars>>, Drain
  PROVE  OwedInv'
<1>1. UNCHANGED <<owed, faults, spc, pend, hdr, headers, reset, height, target>>
  BY DEF Drain, submitterVars
<1>2. hpc = "drain" /\ hpc' \in {"drain", "rollback"}
  BY DEF Drain
<1>3. target + 2 <= height /\ height \in Nat /\ target \in Nat /\ height # Word
  BY <1>2, Types, ConfigAssumption DEF OwedInv, IInv, TypeOK
<1>4. Live /\ Past' = Past /\ Past = target
  BY <1>1, <1>2 DEF Live, Past
<1>5. AskedBack => AskedBack'
  BY <1>1 DEF AskedBack
<1>6. \A i \in 1 .. Len(headers) : height' <= headers[i] + Len(headers) + 1
  BY <1>1, <1>2, <1>4 DEF OwedInv, BatchSpan
<1> QED BY <1>1, <1>3, <1>4, <1>5, <1>6, BackwardInv

\* The handler goes on after the height it went back to, or tries a lower one.
LEMMA RollbackOwed ==
  ASSUME IInv, IInv', OwedInv, UNCHANGED <<owed, faults, submitterVars, tip>>, Rollback
  PROVE  OwedInv'
<1>1. UNCHANGED <<owed, faults, spc, pend, hdr, headers, reset, ch>>
  BY DEF Rollback, RollbackToTarget, RollbackMatch, RollbackMiss, RollbackAstray,
     ReturnFromRollback, submitterVars
<1>2. AskedBack => AskedBack'
  BY <1>1 DEF AskedBack
<1>3. hpc = "rollback" /\ ch = <<>> /\ target \in Nat /\ Past = target
  BY Types DEF Rollback, RollbackToTarget, RollbackMatch, RollbackMiss, RollbackAstray,
     IInv, HandlerBounds, Past
<1>4. target <= tip \/ ~ SearchesAncestor => target # Word - 1
  <2>1. tip \in Nat /\ height \in 0 .. Word - 1 /\ (tip <= MaxHeight \/ tip = Start)
    BY DEF IInv, HandlerBounds, TypeOK
  <2>2. ~ SearchesAncestor => target < height
    BY <1>3 DEF IInv, HandlerBounds
  <2> QED BY <1>3, <2>1, <2>2, ConfigAssumption
<1>5. CASE RollbackToTarget \/ RollbackMatch
  <2>1. hpc' = "wait" /\ height' = target + 1
    BY <1>5 DEF RollbackToTarget, RollbackMatch, ReturnFromRollback
  <2>2. Past' = target
    BY <1>1, <1>3, <2>1, EmptyFacts DEF Past, Cursor
  <2>3. Live
    BY <1>3, <1>4, <1>5 DEF RollbackToTarget, RollbackMatch, Live
  <2> QED BY <1>1, <1>2, <1>3, <2>1, <2>2, <2>3, BackwardInv
<1>6. CASE RollbackMiss
  <2>1. hpc' = "rollback" /\ target' = Minus(target, 1) /\ target <= tip
    BY <1>3, <1>6 DEF RollbackMiss
  <2>2. Live /\ Past' = target'
    BY <1>3, <1>4, <2>1 DEF Live, Past
  <2>3. Live' => target' <= target
    BY <1>3, <2>1, ConfigAssumption DEF Live, Minus
  <2> QED BY <1>1, <1>2, <1>3, <2>1, <2>2, <2>3, BackwardInv
<1>7. CASE RollbackAstray
  <2>1. UNCHANGED <<hpc, height, target>>
    BY <1>7 DEF RollbackAstray, handlerVars
  <2>2. Past' = Past /\ (Live' <=> Live) /\ hpc' # "drain"
    BY <1>3, <2>1 DEF Past, Live
  <2> QED BY <1>1, <1>2, <1>3, <2>2, BackwardInv
<1> QED BY <1>5, <1>6, <1>7 DEF Rollback

\* What will not come any more is the same while the handler goes on to the next
\* header and sends it.
LEMMA GoOnPast ==
  ASSUME IInv, OwedInv,
         SelectDefault \/ WaitTillHeight \/ FetchHeader \/ FetchError \/ Send
  PROVE  Past' = Past /\ Live /\ Live'
<1>1. /\ hpc \notin {"drain", "rollback", "exit"}
      /\ hpc' \notin {"drain", "rollback", "exit"}
  BY DEF SelectDefault, WaitTillHeight, FetchHeader, FetchError, Send
<1>2. CASE Send
  <2>1. Len(ch') = Len(ch) + 1 /\ hpc = "send" /\ hpc' = "select" /\ height' = height
    BY <1>2, Types, AppendFacts DEF Send
  <2> QED BY <2>1, Types DEF Past, Cursor, Live
<1>3. CASE SelectDefault \/ WaitTillHeight \/ FetchHeader \/ FetchError
  <2>1. /\ ch' = ch
        /\ \/ hpc = "select" /\ hpc' = "wait" /\ height' = height + 1
           \/ hpc = "wait" /\ hpc' = "fetch" /\ height' = height
           \/ hpc = "fetch" /\ hpc' = "send" /\ height' = height
           \/ hpc = "fetch" /\ hpc' = "select" /\ height' = height - 1
    BY <1>3 DEF SelectDefault, WaitTillHeight, FetchHeader, FetchError
  <2>2. height \in Nat
    BY Types
  <2>3. Cursor' = Cursor
    BY <2>1, <2>2 DEF Cursor
  <2>4. Past' = Past
    BY <1>1, <2>1, <2>3 DEF Past
  <2> QED BY <1>1, <2>4 DEF Live
<1> QED BY <1>2, <1>3

\* So the handler keeps what it owes while it goes on.
LEMMA GoOnOwed ==
  ASSUME IInv, IInv', OwedInv, UNCHANGED <<owed, faults, submitterVars>>,
         SelectDefault \/ WaitTillHeight \/ FetchHeader \/ FetchError \/ Send
  PROVE  OwedInv'
<1>1. UNCHANGED <<owed, faults, spc, pend, hdr, headers, reset, target>>
  BY DEF SelectDefault, WaitTillHeight, FetchHeader, FetchError, Send, submitterVars
<1>2. AskedBack => AskedBack'
  BY <1>1 DEF AskedBack
<1>3. hpc' # "drain"
  BY DEF SelectDefault, WaitTillHeight, FetchHeader, FetchError, Send
<1>4. Live /\ Past' <= Past
  BY GoOnPast, PastType DEF IInv
<1> QED BY <1>1, <1>2, <1>3, <1>4, BackwardInv

\* The submitter leaves its loop, sends its reset or gives up waiting: it takes no
\* header and gives no verdict.
LEMMA QuietOwed ==
  ASSUME IInv, IInv', OwedInv, UNCHANGED <<owed, faults, handlerVars>>,
         BatchTimeout \/ SendReset \/ LeaveSyncLoop \/ Flush
  PROVE  OwedInv'
<1>1. UNCHANGED <<owed, faults, hpc, height, target, ch, hdr, headers>>
  BY DEF BatchTimeout, SendReset, LeaveSyncLoop, Flush, handlerVars
<1>2. AskedBack => AskedBack'
  <2>1. CASE SendReset
    BY <1>1, <2>1 DEF SendReset, AskedBack
  <2>2. CASE BatchTimeout \/ LeaveSyncLoop \/ Flush
    BY <1>1, <2>2 DEF BatchTimeout, LeaveSyncLoop, Flush, AskedBack
  <2> QED BY <2>1, <2>2
<1>3. Past' = Past /\ (Live' <=> Live)
  BY <1>1 DEF Past, Cursor, Live
<1>4. Live' => Live /\ Past' <= Past
  BY <1>3, PastType DEF IInv
<1>5. ASSUME hpc' = "drain"
      PROVE  /\ target' + 2 <= height'
             /\ \A i \in 1 .. Len(headers) : height' <= headers[i] + Len(headers) + 1
  BY <1>1, <1>5 DEF OwedInv, BatchSpan, Live
<1> QED BY <1>1, <1>2, <1>4, <1>5, BackwardInv

-----------------------------------------------------------------------------
(* Steps that take a header or give a verdict *)

\* A batch of one header more spans one height more.
LEMMA OneMore ==
  ASSUME NEW x \in Nat, NEW n \in Nat, NEW a \in Int
  PROVE  /\ a <= x + n + 1 => a <= x + (n + 1) + 1
         /\ a < x + n => a < x + (n + 1) /\ a + 1 < x + (n + 1) /\ a + 1 <= x + (n + 1) + 1
         /\ a <= x + 1 => a <= x + (n + 1) + 1
         /\ a <= x => a < x + (n + 1) /\ a <= x + (n + 1) + 1
OBVIOUS

\* A header is taken: the one after the last that will not come any more or, in
\* the middle of a drain, one above it.
LEMMA ReceiveOwed ==
  ASSUME Buffer <= 2, IInv, IInv', OwedInv, UNCHANGED <<owed, faults, handlerVars>>,
         LoopReceive \/ BatchReceive
  PROVE  OwedInv'
<1> DEFINE e == Head(ch)
<1>1. /\ spc = "recv" /\ ch # <<>> /\ ch' = Tail(ch) /\ hdr' = e
      /\ UNCHANGED <<owed, faults, hpc, height, target, reset>>
  BY DEF LoopReceive, BatchReceive, handlerVars
<1>2. headers' = Append(headers, e) /\ (Batch = 1 => Len(headers) = 0)
  <2>1. Len(headers) < Batch
    BY <1>1 DEF IInv, SubmitterBounds
  <2>2. Batch = 1 => headers = <<>>
    BY <2>1, Types
  <2>3. CASE LoopReceive
    BY <2>2, <2>3 DEF LoopReceive
  <2>4. CASE BatchReceive
    BY <2>4 DEF BatchReceive
  <2> QED BY <2>3, <2>4
<1>3. /\ e \in Nat /\ e = ch[1] /\ Len(ch) \in Nat \ {0} /\ Len(ch') = Len(ch) - 1
      /\ headers \in Seq(Nat) /\ Len(headers) \in Nat /\ height \in Nat /\ target \in Nat
      /\ Past \in Int /\ owed \in Nat
  BY <1>1, Types, TailFacts, PastType DEF IInv
<1>4. /\ Len(headers') = Len(headers) + 1
      /\ \A i \in 1 .. Len(headers) : headers'[i] = headers[i] /\ headers[i] \in Nat
      /\ headers'[Len(headers) + 1] = e
      /\ Heights(headers)' = Heights(headers) \cup {e}
  BY <1>2, <1>3, AppendFacts, HeightsAppend
<1>5. hpc = "drain" => target + 2 <= height
  BY DEF OwedInv
<1> SUFFICES ASSUME Live' PROVE (Covered \/ AskedBack)' /\ BatchSpan'
  BY <1>1, <1>5 DEF OwedInv
<1>6. Live /\ (Covered \/ AskedBack) /\ BatchSpan
  BY <1>1 DEF Live, OwedInv
<1>7. hpc # "exit" /\ hpc # "rollback"
  BY <1>1, <1>6 DEF Live, IInv, HandlerBounds
<1>8. Len(ch) <= 2 /\ e = Cursor - Len(ch) + 1 /\ Cursor \in Int
  BY <1>3, <1>7, ChannelHeights, PastType DEF IInv
<1>9. AskedBack => AskedBack'
  BY <1>1 DEF AskedBack
<1>10. CASE hpc = "drain"
  <2>1. Past = target /\ Past' = target /\ Cursor = height
    BY <1>1, <1>10 DEF Past, Cursor
  <2>2. Covered => Covered'
    BY <1>1, <1>4, <2>1 DEF Covered
  <2>3. target + 1 <= e /\ height <= e + 1 /\ e <= height
    BY <1>3, <1>5, <1>8, <1>10, <2>1
  <2>4. ASSUME NEW i \in 1 .. Len(headers) + 1
        PROVE  /\ e <= headers'[i] + (Len(headers) + 1) + 1
               /\ target < headers'[i] + (Len(headers) + 1)
               /\ height <= headers'[i] + (Len(headers) + 1) + 1
               /\ Batch = 1 => headers'[i] = e
    <3>1. CASE i \in 1 .. Len(headers)
      <4>1. target < headers[i] + Len(headers) /\ height <= headers[i] + Len(headers) + 1
        BY <1>6, <1>10, <2>1, <3>1 DEF BatchSpan
      <4>2. headers'[i] = headers[i] /\ headers[i] \in Nat
        BY <1>4, <3>1
      <4>3. Batch # 1
        BY <1>2, <1>3, <3>1
      <4>4. e <= headers[i] + Len(headers) + 1
        <5>1. /\ e \in Nat /\ height \in Nat /\ e <= height
              /\ headers[i] \in Nat /\ Len(headers) \in Nat
          BY <1>3, <2>3, <4>2
        <5> QED BY ONLY <4>1, <5>1
      <4>5. e \in Int /\ target \in Int /\ height \in Int
        BY <1>3
      <4> HIDE DEF e
      <4> QED BY <1>3, <4>1, <4>2, <4>3, <4>4, <4>5, OneMore
    <3>2. CASE i = Len(headers) + 1
      <4>1. headers'[i] = e
        BY <1>4, <3>2
      <4>2. e <= e /\ target <= e /\ height <= e + 1
        BY <1>3, <2>3
      <4>3. e \in Int /\ target \in Int /\ height \in Int
        BY <1>3
      <4> HIDE DEF e
      <4> QED BY <1>3, <4>1, <4>2, <4>3, OneMore
    <3> QED BY <1>3, <3>1, <3>2
  <2>5. BatchSpan'
    BY <1>1, <1>4, <2>1, <2>4 DEF BatchSpan
  <2> QED BY <1>6, <1>9, <2>2, <2>5
<1>11. CASE hpc # "drain"
  <2>1. e = Past + 1 /\ Past' = e
    <3>1. Cursor' = Cursor /\ Past = Cursor - Len(ch)
      BY <1>1, <1>7, <1>11 DEF Past, Cursor
    <3>2. Past' = Cursor - (Len(ch) - 1)
      BY <1>1, <1>3, <1>7, <1>11, <3>1 DEF Past
    <3> QED BY <1>3, <1>8, <3>1, <3>2
  <2>2. Covered => Covered'
    <3> SUFFICES ASSUME Covered, NEW h \in owed .. e PROVE h \in Heights(headers) \cup {e}
      BY <1>1, <1>4, <2>1 DEF Covered
    <3>1. h = e \/ h \in owed .. Past
      BY <1>3, <2>1
    <3> QED BY <3>1 DEF Covered
  <2>3. ASSUME NEW i \in 1 .. Len(headers) + 1
        PROVE  /\ e <= headers'[i] + (Len(headers) + 1) + 1
               /\ e < headers'[i] + (Len(headers) + 1)
               /\ Batch = 1 => headers'[i] = e
    <3>1. CASE i \in 1 .. Len(headers)
      <4>1. Past < headers[i] + Len(headers)
        BY <1>6, <3>1 DEF BatchSpan
      <4>2. headers'[i] = headers[i] /\ headers[i] \in Nat
        BY <1>4, <3>1
      <4>3. Batch # 1
        BY <1>2, <1>3, <3>1
      <4> HIDE DEF e
      <4> QED BY <1>3, <2>1, <4>1, <4>2, <4>3, OneMore
    <3>2. CASE i = Len(headers) + 1
      <4>1. headers'[i] = e
        BY <1>4, <3>2
      <4>2. e <= e /\ e \in Int
        BY <1>3
      <4> HIDE DEF e
      <4> QED BY <1>3, <4>1, <4>2, OneMore
    <3> QED BY <1>3, <3>1, <3>2
  <2>4. BatchSpan'
    BY <1>1, <1>4, <1>11, <2>1, <2>3 DEF BatchSpan
  <2> QED BY <1>6, <1>9, <2>2, <2>4
<1> QED BY <1>10, <1>11

\* A nil verdict: what is owed now is not in the batch, so what has gone by is
\* below it.
LEMMA NilOwed ==
  ASSUME IInv, IInv', OwedInv, Settle, CountFaults, UNCHANGED handlerVars, SubmitNil
  PROVE  OwedInv'
<1>1. /\ spc = "submit" /\ spc' = "recv" /\ headers' = <<>>
      /\ UNCHANGED <<hpc, height, target, ch, reset>>
  BY DEF SubmitNil, handlerVars
<1>2. owed' \in Nat /\ owed' >= owed /\ owed' \notin Heights(headers)
  BY <1>1, SettleSuccess DEF Succeeds, IInv, OwedInv
<1>3. faults' = faults
  BY <1>1 DEF CountFaults, Fails
<1>4. Past' = Past /\ (Live' <=> Live) /\ Past \in Int /\ owed \in Nat
  BY <1>1, PastType DEF Past, Cursor, Live, IInv, OwedInv
<1>5. BatchSpan'
  BY <1>1, EmptyFacts DEF BatchSpan
<1>6. Covered => Covered'
  <2> SUFFICES ASSUME Covered PROVE ~ (owed' <= Past)
    BY <1>2, <1>4 DEF Covered
  <2> QED BY <1>2, <1>4 DEF Covered
<1>7. AskedBack => AskedBack'
  <2> SUFFICES ASSUME AskedBack PROVE reset # <<>> /\ 0 < Head(reset) /\ Head(reset) < owed'
    BY <1>1 DEF AskedBack
  <2>1. reset # <<>> /\ 0 < Head(reset) /\ Head(reset) < owed
    BY <1>1 DEF AskedBack
  <2>2. Head(reset) \in Nat
    BY <2>1, Types
  <2> QED BY <1>2, <1>4, <2>1, <2>2
<1> QED BY <1>1, <1>2, <1>3, <1>4, <1>5, <1>6, <1>7 DEF OwedInv

\* An error: the handler is asked for a height above 0 and below every height of
\* the batch.
LEMMA ErrorOwed ==
  ASSUME IInv, IInv', OwedInv, Settle, CountFaults, UNCHANGED handlerVars,
         SubmitError, HighEnough
  PROVE  OwedInv'
<1>1. /\ spc = "submit" /\ spc' = "reset" /\ headers' = <<>>
      /\ pend' = IF Batch = 1 THEN LoopResetValue ELSE BatchResetValue
      /\ UNCHANGED <<hpc, height, target, ch, reset>>
  BY DEF SubmitError, handlerVars
<1>2. /\ owed' \in Heights(headers) \cup {owed} /\ owed' \in Nat /\ owed' <= owed
      /\ \A h \in Heights(headers) : owed' <= h
  BY <1>1, SettleFailure DEF Fails, IInv, OwedInv
<1>3. faults \in Nat /\ faults' \in 0 .. MaxFaults
  <2>1. faults < MaxFaults /\ faults' = faults + 1
    BY <1>1 DEF CountFaults, Fails
  <2> QED BY <2>1, FaultsAssumption DEF OwedInv
<1>4. Past' = Past /\ (Live' <=> Live) /\ Past \in Int /\ owed \in Nat
  BY <1>1, PastType DEF Past, Cursor, Live, IInv, OwedInv
<1>5. BatchSpan'
  BY <1>1, EmptyFacts DEF BatchSpan
<1> SUFFICES ASSUME Live PROVE (Covered \/ AskedBack)'
  BY <1>1, <1>2, <1>3, <1>4, <1>5 DEF OwedInv
<1>6. BatchSpan /\ (Covered \/ AskedBack)
  BY DEF OwedInv
<1>7. hdr \in Nat /\ Len(headers) \in Nat /\ Batch \in Nat
  BY Types, ConfigAssumption
<1>8. /\ 0 < pend' /\ pend' \in Nat
      /\ pend' = IF Batch = 1 THEN hdr - 2 ELSE hdr - Len(headers) - 2
  <2>1. CASE Batch = 1
    BY <1>1, <1>7, <2>1 DEF HighEnough, LoopResetValue, Minus
  <2>2. CASE Batch # 1
    BY <1>1, <1>7, <2>2 DEF HighEnough, BatchResetValue, Minus
  <2> QED BY <2>1, <2>2
<1>9. CASE owed' \in Heights(headers)
  <2>1. PICK i \in 1 .. Len(headers) : owed' = headers[i]
    BY <1>9 DEF Heights
  <2>2. pend' < owed'
    <3>1. hdr <= owed' + Len(headers) + 1 /\ (Batch = 1 => owed' = hdr)
      BY <1>6, <2>1 DEF BatchSpan
    <3> QED BY <1>2, <1>7, <1>8, <3>1
  <2> QED BY <1>1, <1>8, <2>2 DEF AskedBack
<1>10. CASE owed' \notin Heights(headers)
  <2>1. owed' = owed
    BY <1>2, <1>10
  <2>2. Covered => Covered'
    <3> SUFFICES ASSUME Covered PROVE ~ (owed' <= Past)
      BY <1>2, <1>4 DEF Covered
    <3> QED BY <1>2, <1>4, <1>10, <2>1 DEF Covered
  <2>3. AskedBack => AskedBack'
    BY <1>1, <2>1 DEF AskedBack
  <2> QED BY <1>6, <2>2, <2>3
<1> QED BY <1>9, <1>10

-----------------------------------------------------------------------------
(* Every step *)

\* Every step keeps OwedInv, if a failure computes a reset above 0.
LEMMA OwedStep ==
  ASSUME Buffer <= 2, IInv, IInv', OwedInv, [HNext]_hvars, Fails => HighEnough
  PROVE  OwedInv'
<1>1. CASE UNCHANGED hvars
  <2>1. UNCHANGED <<tip, done, hpc, height, latest, target, ch, closed, reset,
                    spc, hdr, headers, pend, owed, faults>>
    BY <1>1 DEF hvars, vars
  <2>2. Past' = Past /\ (Live' <=> Live) /\ (Covered' <=> Covered)
        /\ (AskedBack' <=> AskedBack) /\ (BatchSpan' <=> BatchSpan)
    BY <2>1 DEF Past, Cursor, Live, Covered, AskedBack, BatchSpan
  <2> QED BY <2>1, <2>2 DEF OwedInv
<1>2. CASE HNext
  <2>0. Settle /\ CountFaults
    BY <1>2 DEF HNext
  <2>1. CASE Handler
    <3>1. UNCHANGED <<submitterVars, tip>> /\ ~ Succeeds /\ ~ Fails
      BY <2>1 DEF Handler, chainVars, submitterVars, Succeeds, Fails
    <3>2. UNCHANGED <<owed, faults>>
      BY <2>0, <3>1, SettleOther
    <3>3. CASE SelectReset \/ SelectStaleReset
      BY <3>1, <3>2, <3>3, LookOwed
    <3>4. CASE SelectDone \/ WaitCancelled \/ SendCancelled
      BY <3>1, <3>2, <3>4, LeaveOwed
    <3>5. CASE Drain
      BY <3>1, <3>2, <3>5, DrainOwed
    <3>6. CASE Rollback
      BY <3>1, <3>2, <3>6, RollbackOwed
    <3>7. CASE SelectDefault \/ WaitTillHeight \/ FetchHeader \/ FetchError \/ Send
      BY <3>1, <3>2, <3>7, GoOnOwed
    <3> QED BY <2>1, <3>3, <3>4, <3>5, <3>6, <3>7 DEF Handler
  <2>2. CASE Submitter
    <3>1. UNCHANGED handlerVars
      BY <2>2 DEF Submitter
    <3>2. CASE SubmitNil
      BY <2>0, <3>1, <3>2, NilOwed
    <3>3. CASE SubmitError
      <4>1. HighEnough
        BY <3>3 DEF SubmitError, Fails
      <4> QED BY <2>0, <3>1, <3>3, <4>1, ErrorOwed
    <3>4. CASE LoopReceive \/ BatchReceive
      <4>1. UNCHANGED <<owed, faults>>
        BY <2>0, <3>4, SettleOther DEF LoopReceive, BatchReceive, Succeeds, Fails
      <4> QED BY <3>1, <3>4, <4>1, ReceiveOwed
    <3>5. CASE BatchTimeout \/ SendReset \/ LeaveSyncLoop \/ Flush
      <4>1. UNCHANGED <<owed, faults>>
        BY <2>0, <3>5, SettleOther
        DEF BatchTimeout, SendReset, LeaveSyncLoop, Flush, Succeeds, Fails
      <4> QED BY <3>1, <3>5, <4>1, QuietOwed
    <3> QED BY <2>2, <3>2, <3>3, <3>4, <3>5 DEF Submitter
  <2>3. CASE Grow \/ Cancel \/ Exited
    <3>1. UNCHANGED <<hpc, height, target, ch, reset, spc, hdr, headers, pend>>
      BY <2>3 DEF Grow, Cancel, Exited, handlerVars, submitterVars, vars
    <3>2. UNCHANGED <<owed, faults>>
      BY <2>0, <3>1, SettleOther DEF Succeeds, Fails
    <3>3. Past' = Past /\ (Live' <=> Live) /\ (Covered' <=> Covered)
          /\ (AskedBack' <=> AskedBack) /\ (BatchSpan' <=> BatchSpan)
      BY <3>1, <3>2 DEF Past, Cursor, Live, Covered, AskedBack, BatchSpan
    <3> QED BY <3>1, <3>2, <3>3 DEF OwedInv
  <2> QED BY <1>2, <2>1, <2>2, <2>3 DEF HNext, Next
<1> QED BY <1>1, <1>2

-----------------------------------------------------------------------------
(* The heights that the failures can take the handler back to *)

\* A product grows with its factor.
LEMMA ProductMonotone ==
  ASSUME NEW a \in Nat, NEW b \in Nat, NEW d \in Nat, a <= b
  PROVE  a * d <= b * d
<1>1. (b - a) * d \in Nat
  BY b - a \in Nat
<1>2. b * d = a * d + (b - a) * d
  OBVIOUS
<1> QED BY <1>1, <1>2

\* Low is an integer, and one more failure takes it Drop lower, but never below 1.
LEMMA LowFacts ==
  ASSUME MaxFaults * Drop <= Start, faults \in 0 .. MaxFaults
  PROVE  /\ Low \in Int /\ Drop \in Nat
         /\ faults < MaxFaults => Low >= Drop + 1
<1>1. Drop \in Nat /\ Start \in Nat /\ MaxFaults \in Nat /\ faults \in Nat
  BY ConfigAssumption, FaultsAssumption DEF Drop
<1>2. ASSUME NEW d \in Nat, MaxFaults * d <= Start, faults < MaxFaults
      PROVE  Start + 1 - faults * d >= d + 1
  <2>1. (faults + 1) * d <= MaxFaults * d
    BY <1>1, <1>2, ProductMonotone
  <2>2. (faults + 1) * d = faults * d + d
    BY <1>1
  <2>3. faults * d \in Nat /\ MaxFaults * d \in Nat
    BY <1>1
  <2> QED BY <1>1, <1>2, <2>1, <2>2, <2>3
<1>3. faults * Drop \in Nat
  BY <1>1
<1> QED BY <1>1, <1>2, <1>3 DEF Low

\* A failure drops Low.
LEMMA LowNext ==
  ASSUME faults \in Nat, faults' = faults + 1
  PROVE  Low' = Low - Drop
<1>1. Drop \in Nat /\ Drop' = Drop /\ Start \in Nat
  BY ConfigAssumption DEF Drop
<1>2. ASSUME NEW d \in Nat
      PROVE  Start + 1 - (faults + 1) * d = Start + 1 - faults * d - d
  BY <1>1
<1> QED BY <1>1, <1>2 DEF Low

\* A failure that is not the last one allowed computes a reset above 0.
LEMMA FailsHigh ==
  ASSUME MaxFaults * Drop <= Start, IInv, OwedInv, LowInv, CountFaults
  PROVE  Fails => HighEnough
<1> SUFFICES ASSUME Fails PROVE HighEnough
  OBVIOUS
<1>1. hdr >= Low
  BY DEF LowInv, Fails
<1>2. Low \in Int /\ Low >= Drop + 1 /\ Drop \in Nat
  BY LowFacts DEF CountFaults, OwedInv
<1>3. hdr \in Nat /\ Len(headers) \in Nat /\ Len(headers) <= Batch /\ Batch \in Nat
  BY Types, ConfigAssumption
<1> QED BY <1>1, <1>2, <1>3 DEF HighEnough, Drop

\* The handler sends nothing lower than what will not come any more.
LEMMA LowHandler ==
  ASSUME ~ SearchesAncestor, IInv, IInv', OwedInv, LowInv, Low \in Int,
         UNCHANGED faults, Handler
  PROVE  LowInv'
<1>1. UNCHANGED <<spc, hdr, headers, pend>> /\ Low' = Low
  BY DEF Handler, submitterVars, Low, Drop
<1>2. /\ spc' = "submit" \/ headers' # <<>> => hdr' >= Low'
      /\ spc' = "reset" => pend' >= Low'
  BY <1>1 DEF LowInv
<1>3. reset' # <<>> => Head(reset') >= Low'
  <2>1. reset' = reset \/ (reset # <<>> /\ reset' = Tail(reset))
    BY DEF Handler, SelectReset, SelectStaleReset, SelectDone, SelectDefault, Drain,
       Rollback, RollbackToTarget, RollbackMatch, RollbackMiss, RollbackAstray,
       ReturnFromRollback, WaitTillHeight, WaitCancelled, FetchHeader, FetchError,
       Send, SendCancelled, BreakLoop
  <2> QED BY <1>1, <2>1, Types DEF LowInv
<1>4. Live' => Past' + 1 >= Low'
  <2>1. CASE SelectReset
    <3>1. reset # <<>> /\ hpc' = "drain" /\ target' = Head(reset) - 1
      BY <2>1 DEF SelectReset
    <3> QED BY <1>1, <3>1, Types DEF LowInv, Past
  <2>2. CASE SelectStaleReset
    <3>1. Past' = Past /\ Live
      BY <2>2, Types DEF SelectStaleReset, Past, Cursor, Live
    <3> QED BY <1>1, <3>1 DEF LowInv
  <2>3. CASE SelectDone \/ WaitCancelled \/ SendCancelled
    BY <2>3 DEF SelectDone, WaitCancelled, SendCancelled, BreakLoop, Live
  <2>4. CASE Drain
    <3>1. Past' = Past /\ Live
      BY <2>4 DEF Drain, Past, Live
    <3> QED BY <1>1, <3>1 DEF LowInv
  <2>5. CASE Rollback
    <3>1. hpc = "rollback" /\ hpc' = "wait" /\ height' = target + 1 /\ ch' = ch
      BY <2>5 DEF Rollback, RollbackToTarget, RollbackMatch, RollbackMiss, RollbackAstray,
         ReturnFromRollback
    <3>2. ch = <<>> /\ target < height /\ height \in 0 .. Word - 1 /\ target \in Nat
      BY <3>1, Types DEF IInv, HandlerBounds, TypeOK
    <3>3. Past' = Past /\ Live
      BY <3>1, <3>2, EmptyFacts, ConfigAssumption DEF Past, Cursor, Live
    <3> QED BY <1>1, <3>3 DEF LowInv
  <2>6. CASE SelectDefault \/ WaitTillHeight \/ FetchHeader \/ FetchError \/ Send
    BY <1>1, <2>6, GoOnPast DEF LowInv
  <2> QED BY <2>1, <2>2, <2>3, <2>4, <2>5, <2>6 DEF Handler
<1>5. ASSUME NEW i \in 1 .. Len(ch') PROVE ch'[i] >= Low'
  <2>1. CASE Send
    <3>1. Past' + 1 >= Low' /\ Past \in Int
      BY <1>4, <2>1, GoOnPast, PastType DEF IInv
    <3>2. /\ hpc = "send" /\ ch' = Append(ch, height) /\ Past = height - 1 - Len(ch)
          /\ Past' = Past
      BY <2>1, GoOnPast DEF Send, Past, Cursor
    <3>3. height >= Low'
      <4>1. height \in Nat /\ Len(ch) \in Nat /\ Low' \in Int
        BY <1>1, Types
      <4>2. height - Len(ch) >= Low'
        BY <3>1, <3>2, <4>1
      <4> QED BY <4>1, <4>2
    <3>4. ASSUME NEW j \in 1 .. Len(ch) PROVE ch[j] >= Low'
      BY <1>1 DEF LowInv
    <3> QED BY <3>2, <3>3, <3>4, Types, AppendFacts
  <2>2. CASE Drain
    <3>1. CASE ch # <<>>
      <4>1. ch' = Tail(ch)
        BY <2>2, <3>1 DEF Drain
      <4>2. i + 1 \in 1 .. Len(ch) /\ ch'[i] = ch[i + 1]
        BY <3>1, <4>1, Types, TailFacts
      <4> QED BY <1>1, <4>2 DEF LowInv
    <3>2. CASE ch = <<>>
      BY <1>1, <2>2, <3>2 DEF Drain, LowInv
    <3> QED BY <3>1, <3>2
  <2>3. CASE ch' = ch
    BY <1>1, <2>3 DEF LowInv
  <2> QED
    BY <2>1, <2>2, <2>3
    DEF Handler, SelectReset, SelectStaleReset, SelectDone, SelectDefault,
       Rollback, RollbackToTarget, RollbackMatch, RollbackMiss, RollbackAstray,
       ReturnFromRollback, WaitTillHeight, WaitCancelled, FetchHeader, FetchError,
       SendCancelled, BreakLoop
<1> QED BY <1>2, <1>3, <1>4, <1>5 DEF LowInv

\* A header is taken, which is not below Low.
LEMMA LowReceive ==
  ASSUME IInv, OwedInv, LowInv, Low \in Int, UNCHANGED <<faults, handlerVars>>,
         LoopReceive \/ BatchReceive
  PROVE  LowInv'
<1>1. /\ spc = "recv" /\ ch # <<>> /\ ch' = Tail(ch) /\ hdr' = Head(ch)
      /\ spc' \in {"recv", "submit"} /\ Low' = Low
      /\ UNCHANGED <<hpc, height, target, reset>>
  BY DEF LoopReceive, BatchReceive, handlerVars, Low, Drop
<1>2. /\ Head(ch) = ch[1] /\ Len(ch) \in Nat \ {0} /\ Len(ch') = Len(ch) - 1
      /\ \A i \in 1 .. Len(ch) - 1 : ch'[i] = ch[i + 1]
      /\ Past \in Int /\ Cursor \in Int
  BY <1>1, Types, TailFacts, PastType DEF IInv
<1>3. Live' => Past' + 1 >= Low'
  <2> SUFFICES ASSUME Live' PROVE Past' + 1 >= Low
    BY <1>1
  <2>1. Past + 1 >= Low /\ Cursor' = Cursor
    BY <1>1 DEF Live, LowInv, Cursor
  <2>2. Past' = Past \/ Past' = Past + 1
    BY <1>1, <1>2, <2>1 DEF Past
  <2> QED BY <1>2, <2>1, <2>2
<1>4. ASSUME NEW i \in 1 .. Len(ch') PROVE ch'[i] >= Low'
  <2>1. i + 1 \in 1 .. Len(ch) /\ ch'[i] = ch[i + 1]
    BY <1>2
  <2> QED BY <1>1, <2>1 DEF LowInv
<1>5. hdr' >= Low'
  <2>1. 1 \in 1 .. Len(ch)
    BY <1>2
  <2> QED BY <1>1, <1>2, <2>1 DEF LowInv
<1> QED BY <1>1, <1>3, <1>4, <1>5 DEF LowInv

\* A failed submission asks for a height at most Drop below the header that failed.
LEMMA LowError ==
  ASSUME IInv, OwedInv, LowInv, Low \in Int, CountFaults, HighEnough,
         UNCHANGED handlerVars, SubmitError
  PROVE  LowInv'
<1>1. /\ spc = "submit" /\ spc' = "reset" /\ headers' = <<>>
      /\ pend' = IF Batch = 1 THEN LoopResetValue ELSE BatchResetValue
      /\ UNCHANGED <<hpc, height, target, ch, reset, hdr>>
  BY DEF SubmitError, handlerVars
<1>2. hdr \in Nat /\ Len(headers) \in Nat /\ Len(headers) <= Batch /\ Batch \in Nat
  BY Types, ConfigAssumption
<1>3. Low' = Low - Drop /\ Drop \in Nat
  <2>1. faults' = faults + 1 /\ faults \in Nat
    BY <1>1, FaultsAssumption DEF CountFaults, Fails, OwedInv
  <2> QED BY <1>2, <2>1, LowNext DEF Drop
<1>4. hdr >= Low
  BY <1>1 DEF LowInv
<1>5. pend' >= Low'
  <2>1. CASE Batch = 1
    BY <1>1, <1>2, <1>3, <1>4, <2>1 DEF HighEnough, LoopResetValue, Minus, Drop
  <2>2. CASE Batch # 1
    BY <1>1, <1>2, <1>3, <1>4, <2>2 DEF HighEnough, BatchResetValue, Minus, Drop
  <2> QED BY <2>1, <2>2
<1>6. Live' => Past' + 1 >= Low'
  <2>1. Past' = Past /\ (Live' <=> Live) /\ Past \in Int
    BY <1>1, PastType DEF Past, Cursor, Live, IInv
  <2> QED BY <1>3, <2>1 DEF LowInv
<1>7. ASSUME NEW i \in 1 .. Len(ch') PROVE ch'[i] >= Low'
  <2>1. i \in 1 .. Len(ch) /\ ch \in Seq(Nat)
    BY <1>1, Types
  <2>2. ch[i] >= Low /\ ch[i] \in Nat
    BY <2>1 DEF LowInv
  <2> QED BY <1>1, <1>3, <2>2
<1>8. reset' # <<>> => Head(reset') >= Low'
  BY <1>1, <1>3, Types DEF LowInv
<1> QED BY <1>1, <1>5, <1>6, <1>7, <1>8 DEF LowInv

\* The other steps of the submitter send its reset at most.
LEMMA LowQuiet ==
  ASSUME IInv, OwedInv, LowInv, Low \in Int, UNCHANGED <<faults, handlerVars>>,
         SubmitNil \/ BatchTimeout \/ SendReset \/ LeaveSyncLoop \/ Flush
  PROVE  LowInv'
<1>1. UNCHANGED <<hpc, height, target, ch, hdr>> /\ Low' = Low
  BY DEF SubmitNil, BatchTimeout, SendReset, LeaveSyncLoop, Flush, handlerVars, Low, Drop
<1>2. Past' = Past /\ (Live' <=> Live)
  BY <1>1 DEF Past, Cursor, Live
<1>3. CASE SendReset
  <2>1. /\ spc = "reset" /\ spc' = "recv" /\ reset' = <<pend>> /\ headers' = headers
        /\ headers = <<>>
    BY <1>3 DEF SendReset, IInv, SubmitterBounds
  <2> QED BY <1>1, <1>2, <2>1 DEF LowInv
<1>4. CASE SubmitNil \/ BatchTimeout \/ LeaveSyncLoop \/ Flush
  <2>1. reset' = reset /\ spc' # "reset"
    BY <1>4 DEF SubmitNil, BatchTimeout, LeaveSyncLoop, Flush
  <2>2. spc' = "submit" \/ headers' # <<>> => spc = "submit" \/ headers # <<>>
    BY <1>4 DEF SubmitNil, BatchTimeout, LeaveSyncLoop, Flush
  <2> QED BY <1>1, <1>2, <2>1, <2>2 DEF LowInv
<1> QED BY <1>3, <1>4

\* Every step keeps LowInv.
LEMMA LowStep ==
  ASSUME MaxFaults * Drop <= Start, ~ SearchesAncestor, IInv, IInv', OwedInv, LowInv,
         [HNext]_hvars
  PROVE  LowInv'
<1>1. Low \in Int
  BY LowFacts DEF OwedInv
<1>2. CASE UNCHANGED hvars
  <2>1. UNCHANGED <<tip, done, hpc, height, latest, target, ch, closed, reset,
                    spc, hdr, headers, pend, owed, faults>>
    BY <1>2 DEF hvars, vars
  <2>2. Past' = Past /\ (Live' <=> Live) /\ Low' = Low
    BY <2>1 DEF Past, Cursor, Live, Low, Drop
  <2> QED BY <2>1, <2>2 DEF LowInv
<1>3. CASE HNext
  <2>0. Settle /\ CountFaults
    BY <1>3 DEF HNext
  <2>1. CASE Handler
    <3>1. ~ Succeeds /\ ~ Fails
      BY <2>1 DEF Handler, submitterVars, Succeeds, Fails
    <3>2. UNCHANGED faults
      BY <2>0, <3>1, SettleOther
    <3> QED BY <1>1, <2>1, <3>2, LowHandler
  <2>2. CASE Submitter
    <3>1. UNCHANGED handlerVars
      BY <2>2 DEF Submitter
    <3>2. CASE SubmitError
      <4>1. HighEnough
        BY <2>0, <3>2, FailsHigh DEF SubmitError, Fails
      <4> QED BY <1>1, <2>0, <3>1, <3>2, <4>1, LowError
    <3>3. CASE LoopReceive \/ BatchReceive
      <4>1. UNCHANGED faults
        BY <2>0, <3>3, SettleOther DEF LoopReceive, BatchReceive, Succeeds, Fails
      <4> QED BY <1>1, <3>1, <3>3, <4>1, LowReceive
    <3>4. CASE SubmitNil \/ BatchTimeout \/ SendReset \/ LeaveSyncLoop \/ Flush
      <4>1. UNCHANGED faults
        BY <2>0, <3>4
        DEF SubmitNil, BatchTimeout, SendReset, LeaveSyncLoop, Flush, CountFaults, Fails
      <4> QED BY <1>1, <3>1, <3>4, <4>1, LowQuiet
    <3> QED BY <2>2, <3>2, <3>3, <3>4 DEF Submitter
  <2>3. CASE Grow \/ Cancel \/ Exited
    <3>1. UNCHANGED <<hpc, height, target, ch, reset, spc, hdr, headers, pend>>
      BY <2>3 DEF Grow, Cancel, Exited, handlerVars, submitterVars, vars
    <3>2. UNCHANGED faults
      BY <2>0, <3>1, SettleOther DEF Succeeds, Fails
    <3>3. Past' = Past /\ (Live' <=> Live) /\ Low' = Low
      BY <3>1, <3>2 DEF Past, Cursor, Live, Low, Drop
    <3> QED BY <3>1, <3>3 DEF LowInv
  <2> QED BY <1>3, <2>1, <2>2, <2>3 DEF HNext, Next
<1> QED BY <1>2, <1>3

-----------------------------------------------------------------------------
(* The theorems *)

\* A process starts owing the height after the one the contract has.
LEMMA HInitInv == HInit => OwedInv /\ LowInv
<1> SUFFICES ASSUME HInit PROVE OwedInv /\ LowInv
  OBVIOUS
<1>1. /\ hpc = "select" /\ height = Start /\ ch = <<>> /\ reset = <<>> /\ spc = "recv"
      /\ headers = <<>> /\ owed = Start + 1 /\ faults = 0 /\ Start \in Nat
  BY ConfigAssumption DEF HInit, Init, Fresh
<1>2. Past = Start /\ Len(ch) = 0 /\ Len(headers) = 0
  BY <1>1, EmptyFacts DEF Past, Cursor
<1>3. Covered /\ BatchSpan
  BY <1>1, <1>2 DEF Covered, BatchSpan
<1>4. OwedInv
  BY <1>1, <1>3, FaultsAssumption DEF OwedInv
<1>5. Low = Start + 1
  <2>1. Drop \in Int
    BY ConfigAssumption DEF Drop
  <2> QED BY <1>1, <2>1 DEF Low
<1>6. LowInv
  BY <1>1, <1>2, <1>5 DEF LowInv
<1> QED BY <1>4, <1>6

\* What is owed comes, or is in the batch.
LEMMA OwedNothingSkipped ==
  ASSUME Buffer <= 2, IInv, OwedInv
  PROVE  NothingSkipped
<1> SUFFICES ASSUME reset = <<>>, spc = "recv", hpc \in {"select", "wait", "fetch", "send"},
                    ~ (owed > Cursor)
             PROVE  owed \in Heights(headers) \cup Heights(ch)
  BY DEF NothingSkipped
<1>1. Covered
  BY DEF OwedInv, Live, AskedBack
<1>2. /\ Past = Cursor - Len(ch) /\ Cursor \in Int /\ owed \in Nat /\ Len(ch) \in Nat
      /\ owed <= Cursor
  BY PastType DEF Past, IInv, OwedInv
<1>3. CASE owed <= Past
  BY <1>1, <1>2, <1>3 DEF Covered
<1>4. CASE ~ (owed <= Past)
  <2>1. owed - Past \in 1 .. Len(ch) /\ owed = Cursor - Len(ch) + (owed - Past)
    BY <1>2, <1>4
  <2>2. ch[owed - Past] = owed
    BY <2>1, ChannelHeights
  <2> QED BY <2>1, <2>2 DEF Heights
<1> QED BY <1>3, <1>4

\* The pipeline with its history is the pipeline.
LEMMA HistoryIInv == HSpec => []IInv
<1>1. HInit => Init
  BY DEF HInit
<1>2. [HNext]_hvars => [Next]_vars
  BY DEF HNext, hvars
<1>3. HSpec => Spec
  BY <1>1, <1>2, PTL DEF HSpec, Spec
<1> QED BY <1>3, Inductive, PTL

\* Whatever the batch, the answers of the chains, a search for the common ancestor
\* included, and however many submissions fail: as long as a failure asks for a
\* height above 0, a header whose submission failed is not left behind.
THEOREM NeverSkips ==
  ASSUME Buffer <= 2
  PROVE  HSpec /\ [][Fails => HighEnough]_hvars => []NothingSkipped
<1>1. HInit => OwedInv
  BY HInitInv
<1>2. IInv /\ IInv' /\ OwedInv /\ [HNext]_hvars /\ [Fails => HighEnough]_hvars => OwedInv'
  <2>1. UNCHANGED hvars => ~ Fails
    BY DEF hvars, vars, Fails
  <2> QED BY <2>1, OwedStep
<1>3. IInv /\ OwedInv => NothingSkipped
  BY OwedNothingSkipped
<1> QED BY <1>1, <1>2, <1>3, HistoryIInv, PTL DEF HSpec

\* That is so without any condition on the failures when the handler does not
\* search for the common ancestor and starts high enough for as many failures as
\* there are: it then never goes back to a height that a subtraction takes below 0.
THEOREM NeverSkipsBounded ==
  ASSUME Buffer <= 2, ~ SearchesAncestor, MaxFaults * Drop <= Start
  PROVE  HSpec => []NothingSkipped
<1>1. HInit => OwedInv /\ LowInv
  BY HInitInv
<1>2. ASSUME IInv, IInv', OwedInv, LowInv, [HNext]_hvars
      PROVE  (OwedInv /\ LowInv)'
  <2>1. Fails => HighEnough
    <3>1. UNCHANGED hvars => ~ Fails
      BY DEF hvars, vars, Fails
    <3>2. HNext => CountFaults
      BY DEF HNext
    <3> QED BY <1>2, <3>1, <3>2, FailsHigh
  <2> QED BY <1>2, <2>1, OwedStep, LowStep
<1>3. IInv /\ OwedInv => NothingSkipped
  BY OwedNothingSkipped
<1> QED BY <1>1, <1>2, <1>3, HistoryIInv, PTL DEF HSpec
=============================================================================
