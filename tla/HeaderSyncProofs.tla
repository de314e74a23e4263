-------------------------- MODULE HeaderSyncProofs --------------------------
(***************************************************************************)
(* The safety properties of the header pipeline, for every batch size,     *)
(* capacity, number of confirmations and source chain.  The inductive      *)
(* invariant is IInv of HeaderSync; there is a lemma per action of the     *)
(* handler and of the submitter, with a step per conjunct of IInv.         *)
(***************************************************************************)
EXTENDS HeaderSync, TLAPS

(* Sequences and machine arithmetic *)

\* What is left of a sequence without its head.
LEMMA TailFacts ==
  ASSUME NEW S, NEW s \in Seq(S), s # <<>>
  PROVE  /\ Tail(s) \in Seq(S)
         /\ Head(s) \in S
         /\ Head(s) = s[1]
         /\ Len(s) \in Nat \ {0}
         /\ Len(Tail(s)) = Len(s) - 1
         /\ \A i \in 1 .. Len(s) - 1 : Tail(s)[i] = s[i + 1]
  OBVIOUS

\* What a sequence is with one more element.
LEMMA AppendFacts ==
  ASSUME NEW S, NEW s \in Seq(S), NEW e \in S
  PROVE  /\ Append(s, e) \in Seq(S)
         /\ Append(s, e) # <<>>
         /\ Len(Append(s, e)) = Len(s) + 1
         /\ \A i \in 1 .. Len(s) : Append(s, e)[i] = s[i]
         /\ Append(s, e)[Len(s) + 1] = e
  OBVIOUS

\* The empty sequence.
LEMMA EmptyFacts ==
  ASSUME NEW S
  PROVE  <<>> \in Seq(S) /\ Len(<<>>) = 0
  OBVIOUS

\* A subtraction of uint64 values is a uint64 value.
LEMMA MinusType ==
  ASSUME NEW a \in 0 .. Word - 1, NEW b \in 0 .. Word
  PROVE  Minus(a, b) \in 0 .. Word - 1
  BY ConfigAssumption DEF Minus

\* Taking the head of ch, as the submitter and the drain do, leaves a run of
\* consecutive confirmed heights that ends where it did.
LEMMA TakeFacts ==
  ASSUME TypeOK, ChannelContiguous, ConfirmedOnly, ch # <<>>, ch' = Tail(ch),
         UNCHANGED <<hpc, height, tip>>
  PROVE  /\ ch' \in Seq(Nat)
         /\ Len(ch') = Len(ch) - 1
         /\ Len(ch) \in Nat \ {0}
         /\ ChannelContiguous'
         /\ \A i \in 1 .. Len(ch') : ch'[i] + Confirms <= tip
         /\ Head(ch) \in Nat
         /\ Head(ch) + Confirms <= tip
<1>1. /\ ch' \in Seq(Nat)
      /\ Len(ch') = Len(ch) - 1
      /\ Len(ch) \in Nat \ {0}
      /\ \A i \in 1 .. Len(ch) - 1 : ch'[i] = ch[i + 1]
      /\ Head(ch) \in Nat
      /\ Head(ch) = ch[1]
  BY TailFacts DEF TypeOK
<1>2. Cursor' = Cursor
  BY DEF Cursor
<1>3. ChannelContiguous'
  <2>1. ASSUME NEW i \in 1 .. Len(ch') - 1
        PROVE  ch'[i + 1] = ch'[i] + 1
    BY <1>1, <2>1 DEF ChannelContiguous
  <2>2. ASSUME hpc' # "exit", ch' # <<>>
        PROVE  ch'[Len(ch')] = Cursor'
    <3>1. Len(ch') # 0
      BY <1>1, <2>2, TailFacts
    <3> QED BY <1>1, <1>2, <2>2, <3>1 DEF ChannelContiguous
  <2> QED BY <2>1, <2>2 DEF ChannelContiguous
<1>4. /\ \A i \in 1 .. Len(ch') : ch'[i] + Confirms <= tip
      /\ Head(ch) + Confirms <= tip
  BY <1>1 DEF ConfirmedOnly
<1> QED BY <1>1, <1>3, <1>4

\* A process that has just been started, at any height the source chain has, is
\* in the invariant.
LEMMA FreshIInv ==
  /\ tip \in Nat /\ height \in Nat
  /\ height <= tip
  /\ tip <= MaxHeight \/ tip = Start
  /\ Fresh(height)
  => IInv
<1> SUFFICES ASSUME tip \in Nat, height \in Nat, height <= tip,
                    tip <= MaxHeight \/ tip = Start, Fresh(height)
             PROVE  IInv
  OBVIOUS
<1> USE ConfigAssumption DEF Fresh
<1>1. TypeOK
  <2>1. /\ ch \in Seq(Nat) /\ Len(ch) <= Buffer
        /\ reset \in Seq(0 .. Word - 1) /\ Len(reset) <= 1
        /\ headers \in Seq(Nat) /\ Len(headers) <= Batch
    BY EmptyFacts
  <2>2. /\ done \in BOOLEAN /\ closed \in BOOLEAN
        /\ hpc = "select" /\ spc = "recv"
    OBVIOUS
  <2>3. /\ latest \in Nat /\ hdr \in Nat
        /\ height \in 0 .. Word - 1 /\ target \in 0 .. Word - 1
        /\ pend \in 0 .. Word - 1
    OBVIOUS
  <2> HIDE DEF Fresh
  <2> QED BY <2>1, <2>2, <2>3 DEF TypeOK
<1>2. ChannelContiguous
  BY EmptyFacts DEF ChannelContiguous
<1>3. ConfirmedOnly
  BY DEF ConfirmedOnly
<1>4. RoomAfterReset
  BY DEF RoomAfterReset
<1>5. HandlerBounds
  BY DEF HandlerBounds
<1>6. SubmitterBounds
  BY EmptyFacts DEF SubmitterBounds
<1> QED BY <1>1, <1>2, <1>3, <1>4, <1>5, <1>6 DEF IInv

\* The pipeline starts in the invariant.
LEMMA InitIInv == Init => IInv
<1> SUFFICES ASSUME Init PROVE IInv
  OBVIOUS
<1>1. tip = Start /\ Fresh(Start) /\ height = Start
  BY DEF Init, Fresh
<1> QED BY <1>1, FreshIInv, ConfigAssumption


(* The handler's actions preserve IInv *)

\* A reset below the height is consumed: the drain begins.
LEMMA SelectResetInv ==
  ASSUME IInv, SelectReset, UNCHANGED <<chainVars, submitterVars>>
  PROVE  IInv'
<1> USE ConfigAssumption DEF IInv, chainVars, submitterVars, SelectReset
<1>0. /\ Head(reset) \in 0 .. Word - 1
      /\ Tail(reset) = <<>>
  BY TailFacts DEF TypeOK
<1>1. TypeOK'
  <2>1. reset' \in Seq(0 .. Word - 1) /\ Len(reset') <= 1
    <3>1. reset' = <<>>
      BY <1>0
    <3>2. <<>> \in Seq(0 .. Word - 1) /\ Len(<<>>) = 0
      BY ONLY EmptyFacts
    <3> QED BY ONLY <3>1, <3>2
  <2>2. target' \in 0 .. Word - 1
    BY <1>0
  <2> QED BY <2>1, <2>2 DEF TypeOK
<1>2. ChannelContiguous'
  BY DEF TypeOK, ChannelContiguous, Cursor
<1>3. ConfirmedOnly'
  BY DEF ConfirmedOnly
<1>4. RoomAfterReset'
  BY DEF RoomAfterReset
<1>5. HandlerBounds'
  BY <1>0 DEF TypeOK, HandlerBounds
<1>6. SubmitterBounds'
  BY DEF SubmitterBounds
<1> QED BY <1>1, <1>2, <1>3, <1>4, <1>5, <1>6

\* A reset without effect is consumed; reset is empty afterwards.
LEMMA SelectStaleResetInv ==
  ASSUME IInv, SelectStaleReset, UNCHANGED <<chainVars, submitterVars>>
  PROVE  IInv'
<1> USE ConfigAssumption DEF IInv, chainVars, submitterVars, SelectStaleReset
<1>0. Tail(reset) = <<>>
  BY TailFacts DEF TypeOK
<1>1. TypeOK'
  BY <1>0 DEF TypeOK, HandlerBounds
<1>2. ChannelContiguous'
  BY DEF TypeOK, ChannelContiguous, Cursor
<1>3. ConfirmedOnly'
  BY DEF ConfirmedOnly
<1>4. RoomAfterReset'
  BY <1>0 DEF RoomAfterReset
<1>5. HandlerBounds'
  BY DEF TypeOK, HandlerBounds
<1>6. SubmitterBounds'
  BY DEF SubmitterBounds
<1> QED BY <1>1, <1>2, <1>3, <1>4, <1>5, <1>6

\* Leaving the loop, by any of the three ways Done is seen.
LEMMA LeaveInv ==
  ASSUME IInv, SelectDone \/ WaitCancelled \/ SendCancelled, UNCHANGED <<chainVars, submitterVars>>
  PROVE  IInv'
<1> USE ConfigAssumption DEF IInv, chainVars, submitterVars,
        SelectDone, WaitCancelled, SendCancelled, BreakLoop
<1>1. TypeOK'
  BY DEF TypeOK
<1>2. ChannelContiguous'
  BY DEF TypeOK, ChannelContiguous, Cursor
<1>3. ConfirmedOnly'
  BY DEF ConfirmedOnly
<1>4. RoomAfterReset'
  BY DEF RoomAfterReset
<1>5. HandlerBounds'
  BY DEF TypeOK, HandlerBounds
<1>6. SubmitterBounds'
  BY DEF SubmitterBounds
<1> QED BY <1>1, <1>2, <1>3, <1>4, <1>5, <1>6

\* The next height: only when no reset waits.
LEMMA SelectDefaultInv ==
  ASSUME IInv, SelectDefault, UNCHANGED <<chainVars, submitterVars>>
  PROVE  IInv'
<1> USE ConfigAssumption DEF IInv, chainVars, submitterVars, SelectDefault
<1>1. TypeOK'
  BY DEF TypeOK, HandlerBounds
<1>2. ChannelContiguous'
  BY DEF TypeOK, ChannelContiguous, Cursor
<1>3. ConfirmedOnly'
  BY DEF ConfirmedOnly
<1>4. RoomAfterReset'
  BY DEF RoomAfterReset
<1>5. HandlerBounds'
  BY DEF TypeOK, HandlerBounds
<1>6. SubmitterBounds'
  BY DEF SubmitterBounds
<1> QED BY <1>1, <1>2, <1>3, <1>4, <1>5, <1>6

\* One header is thrown away, or the drain ends with ch empty.
LEMMA DrainInv ==
  ASSUME IInv, Drain, UNCHANGED <<chainVars, submitterVars>>
  PROVE  IInv'
<1> USE ConfigAssumption DEF IInv, chainVars, submitterVars, Drain
<1>1. CASE ch = <<>>
  <2>1. TypeOK'
    BY <1>1 DEF TypeOK
  <2>2. ChannelContiguous'
    BY <1>1 DEF TypeOK, ChannelContiguous, Cursor
  <2>3. ConfirmedOnly' /\ RoomAfterReset' /\ HandlerBounds' /\ SubmitterBounds'
    BY <1>1 DEF ConfirmedOnly, RoomAfterReset, HandlerBounds, SubmitterBounds
  <2> QED BY <2>1, <2>2, <2>3
<1>2. CASE ch # <<>>
  <2>1. ch' = Tail(ch) /\ UNCHANGED <<tip, done, hpc, height, latest, target, closed,
                                     reset, spc, hdr, headers, pend>>
    BY <1>2
  <2>2. ChannelContiguous' /\ ch' \in Seq(Nat) /\ Len(ch') = Len(ch) - 1
        /\ Len(ch) \in Nat /\ \A i \in 1 .. Len(ch') : ch'[i] + Confirms <= tip
    BY <1>2, <2>1, TakeFacts
  <2>3. TypeOK'
    BY <2>1, <2>2, ch' \in Seq(Nat) DEF TypeOK
  <2>4. ConfirmedOnly' /\ RoomAfterReset'
    BY <2>1, <2>2 DEF TypeOK, ConfirmedOnly, RoomAfterReset
  <2>5. HandlerBounds' /\ SubmitterBounds'
    BY <1>2, <2>1 DEF HandlerBounds, SubmitterBounds
  <2> QED BY <2>2, <2>3, <2>4, <2>5
<1> QED BY <1>1, <1>2

\* The handler goes back, with ch empty.
LEMMA ReturnInv ==
  ASSUME IInv, RollbackToTarget \/ RollbackMatch, UNCHANGED <<chainVars, submitterVars>>
  PROVE  IInv'
<1> USE ConfigAssumption DEF IInv, chainVars, submitterVars,
        RollbackToTarget, RollbackMatch, ReturnFromRollback
<1>1. TypeOK'
  BY DEF TypeOK, HandlerBounds
<1>2. ChannelContiguous'
  BY EmptyFacts DEF TypeOK, ChannelContiguous, HandlerBounds
<1>3. ConfirmedOnly'
  BY DEF ConfirmedOnly
<1>4. RoomAfterReset'
  BY EmptyFacts DEF RoomAfterReset, HandlerBounds
<1>5. HandlerBounds'
  BY DEF TypeOK, HandlerBounds
<1>6. SubmitterBounds'
  BY DEF SubmitterBounds
<1> QED BY <1>1, <1>2, <1>3, <1>4, <1>5, <1>6

\* The search goes on below, or round.
LEMMA RollbackMissInv ==
  ASSUME IInv, RollbackMiss \/ RollbackAstray, UNCHANGED <<chainVars, submitterVars>>
  PROVE  IInv'
<1> USE ConfigAssumption DEF IInv, chainVars, submitterVars, handlerVars,
        RollbackMiss, RollbackAstray
<1>1. TypeOK'
  <2>1. target' \in 0 .. Word - 1
    BY MinusType, 1 \in 0 .. Word DEF TypeOK
  <2> QED BY <2>1 DEF TypeOK
<1>2. ChannelContiguous'
  BY DEF TypeOK, ChannelContiguous, Cursor
<1>3. ConfirmedOnly'
  BY DEF ConfirmedOnly
<1>4. RoomAfterReset'
  BY DEF RoomAfterReset
<1>5. HandlerBounds'
  <2>1. CASE RollbackAstray
    BY <2>1 DEF TypeOK, HandlerBounds
  <2>2. CASE RollbackMiss
    <3>1. target # Word - 1 /\ target < height
      BY <2>2 DEF TypeOK, HandlerBounds
    <3>2. target' < height \/ target' = Word - 1
      BY <2>2, <3>1, 1 \in 0 .. Word DEF TypeOK, Minus
    <3> QED BY <2>2, <3>2 DEF TypeOK, HandlerBounds
  <2> QED BY <2>1, <2>2
<1>6. SubmitterBounds'
  BY DEF SubmitterBounds
<1> QED BY <1>1, <1>2, <1>3, <1>4, <1>5, <1>6

\* The header has its confirmations.
LEMMA WaitInv ==
  ASSUME IInv, WaitTillHeight, UNCHANGED <<chainVars, submitterVars>>
  PROVE  IInv'
<1> USE ConfigAssumption DEF IInv, chainVars, submitterVars, WaitTillHeight
<1>1. TypeOK'
  BY DEF TypeOK
<1>2. ChannelContiguous'
  BY DEF TypeOK, ChannelContiguous, Cursor
<1>3. ConfirmedOnly'
  BY DEF ConfirmedOnly
<1>4. RoomAfterReset'
  BY DEF RoomAfterReset
<1>5. HandlerBounds'
  BY DEF TypeOK, HandlerBounds
<1>6. SubmitterBounds'
  BY DEF SubmitterBounds
<1> QED BY <1>1, <1>2, <1>3, <1>4, <1>5, <1>6

\* The header is fetched, or the height is taken back.
LEMMA FetchInv ==
  ASSUME IInv, FetchHeader \/ FetchError, UNCHANGED <<chainVars, submitterVars>>
  PROVE  IInv'
<1> USE ConfigAssumption DEF IInv, chainVars, submitterVars,
        FetchHeader, FetchError
<1>1. TypeOK'
  <2>1. height \in 0 .. Word - 1 /\ height > 0
    BY DEF TypeOK, HandlerBounds
  <2>2. height' \in 0 .. Word - 1
    <3>1. height' = height \/ height' = height - 1
      OBVIOUS
    <3> QED BY ONLY <2>1, <3>1, ConfigAssumption
  <2> QED BY <2>2 DEF TypeOK
<1>2. ChannelContiguous'
  BY DEF TypeOK, ChannelContiguous, Cursor
<1>3. ConfirmedOnly'
  BY DEF ConfirmedOnly
<1>4. RoomAfterReset'
  BY DEF RoomAfterReset
<1>5. HandlerBounds'
  <2>1. /\ hpc = "fetch" /\ UNCHANGED <<tip, latest, target, ch, closed>>
        /\ \/ hpc' = "send" /\ height' = height
           \/ hpc' = "select" /\ height' = height - 1
    OBVIOUS
  <2>2. /\ height \in Nat /\ height > 0 /\ tip \in Nat /\ latest \in Nat
        /\ latest <= tip /\ height + Confirms <= latest
    BY DEF TypeOK, HandlerBounds
  <2>3. height' <= tip /\ height' <= tip + 1
    BY <2>1, <2>2
  <2> QED BY <2>1, <2>2, <2>3 DEF HandlerBounds
<1>6. SubmitterBounds'
  BY DEF SubmitterBounds
<1> QED BY <1>1, <1>2, <1>3, <1>4, <1>5, <1>6

\* The next height goes on ch after the one before it.
LEMMA SendInv ==
  ASSUME IInv, Send, UNCHANGED <<chainVars, submitterVars>>
  PROVE  IInv'
<1> USE ConfigAssumption DEF IInv, chainVars, submitterVars, Send
<1>0. /\ Append(ch, height) \in Seq(Nat)
      /\ Append(ch, height) # <<>>
      /\ Len(Append(ch, height)) = Len(ch) + 1
      /\ \A i \in 1 .. Len(ch) : Append(ch, height)[i] = ch[i]
      /\ Append(ch, height)[Len(ch) + 1] = height
  <2>1. ch \in Seq(Nat) /\ height \in Nat
    BY DEF TypeOK
  <2> QED BY <2>1, AppendFacts
<1>1. TypeOK'
  BY <1>0 DEF TypeOK
<1>2. ChannelContiguous'
  <2>1. ch' # <<>> /\ Len(ch') = Len(ch) + 1 /\ Len(ch) \in Nat
    <3>1. ch' = Append(ch, height)
      OBVIOUS
    <3>2. ch \in Seq(Nat)
      BY DEF TypeOK
    <3>3. ch' # <<>> /\ Len(ch') = Len(ch) + 1
      BY ONLY <1>0, <3>1
    <3> QED BY <3>2, <3>3
  <2>2. ch'[Len(ch')] = Cursor'
    BY <1>0, <2>1 DEF Cursor
  <2>3. Len(ch) # 0 => ch[Len(ch)] = height - 1
    BY EmptyFacts DEF TypeOK, ChannelContiguous, Cursor
  <2>4. ASSUME NEW i \in 1 .. Len(ch') - 1
        PROVE  ch'[i + 1] = ch'[i] + 1
    <3>1. CASE i = Len(ch)
      BY <1>0, <2>1, <2>3, <2>4, <3>1 DEF TypeOK
    <3>2. CASE i # Len(ch)
      <4>1. i \in 1 .. Len(ch) - 1 /\ i \in 1 .. Len(ch) /\ i + 1 \in 1 .. Len(ch)
        BY <2>1, <2>4, <3>2
      <4>2. ch[i + 1] = ch[i] + 1
        BY <4>1 DEF ChannelContiguous
      <4> QED BY <1>0, <4>1, <4>2
    <3> QED BY <3>1, <3>2
  <2> QED BY <2>2, <2>4 DEF ChannelContiguous
<1>3. ConfirmedOnly'
  BY <1>0 DEF TypeOK, ConfirmedOnly, HandlerBounds
<1>4. RoomAfterReset'
  BY DEF RoomAfterReset
<1>5. HandlerBounds'
  BY DEF TypeOK, HandlerBounds
<1>6. SubmitterBounds'
  BY DEF SubmitterBounds
<1> QED BY <1>1, <1>2, <1>3, <1>4, <1>5, <1>6


(* The submitter's actions preserve IInv *)

\* A header is taken: from now on there is room in ch.
LEMMA LoopReceiveInv ==
  ASSUME IInv, LoopReceive, UNCHANGED <<chainVars, handlerVars, closed>>
  PROVE  IInv'
<1> USE ConfigAssumption DEF IInv, chainVars, handlerVars, LoopReceive
<1>0. /\ ch' \in Seq(Nat)
      /\ Len(ch') = Len(ch) - 1
      /\ Len(ch) \in Nat \ {0}
      /\ ChannelContiguous'
      /\ \A i \in 1 .. Len(ch') : ch'[i] + Confirms <= tip
      /\ Head(ch) \in Nat
      /\ Head(ch) + Confirms <= tip
  BY TakeFacts
<1>1. TypeOK'
  BY <1>0 DEF TypeOK
<1>2. ChannelContiguous'
  BY <1>0
<1>3. ConfirmedOnly'
  BY <1>0 DEF TypeOK, ConfirmedOnly
<1>4. RoomAfterReset'
  BY <1>0 DEF TypeOK, RoomAfterReset
<1>5. HandlerBounds'
  BY DEF TypeOK, HandlerBounds
<1>6. SubmitterBounds'
  BY DEF SubmitterBounds
<1> QED BY <1>1, <1>2, <1>3, <1>4, <1>5, <1>6

\* A header is taken into the batch.
LEMMA BatchReceiveInv ==
  ASSUME IInv, BatchReceive, UNCHANGED <<chainVars, handlerVars, closed>>
  PROVE  IInv'
<1> USE ConfigAssumption DEF IInv, chainVars, handlerVars, BatchReceive
<1>0. /\ ch' \in Seq(Nat)
      /\ Len(ch') = Len(ch) - 1
      /\ Len(ch) \in Nat \ {0}
      /\ ChannelContiguous'
      /\ \A i \in 1 .. Len(ch') : ch'[i] + Confirms <= tip
      /\ Head(ch) \in Nat
      /\ Head(ch) + Confirms <= tip
  BY TakeFacts
<1>7. /\ Append(headers, Head(ch)) \in Seq(Nat)
      /\ Len(Append(headers, Head(ch))) = Len(headers) + 1
  <2>1. headers \in Seq(Nat) /\ Head(ch) \in Nat
    BY <1>0 DEF TypeOK
  <2> QED BY <2>1, AppendFacts
<1>1. TypeOK'
  BY <1>0, <1>7 DEF TypeOK, SubmitterBounds
<1>2. ChannelContiguous'
  BY <1>0
<1>3. ConfirmedOnly'
  BY <1>0 DEF TypeOK, ConfirmedOnly
<1>4. RoomAfterReset'
  BY <1>0 DEF TypeOK, RoomAfterReset
<1>5. HandlerBounds'
  BY DEF TypeOK, HandlerBounds
<1>6. SubmitterBounds'
  BY AppendFacts, <1>0 DEF TypeOK, SubmitterBounds
<1> QED BY <1>1, <1>2, <1>3, <1>4, <1>5, <1>6

\* Steps that leave ch and reset alone and send no reset.
LEMMA VerdictInv ==
  ASSUME IInv, BatchTimeout \/ SubmitNil \/ Flush \/ LeaveSyncLoop, UNCHANGED <<chainVars, handlerVars, closed>>
  PROVE  IInv'
<1> USE ConfigAssumption DEF IInv, chainVars, handlerVars,
        BatchTimeout, SubmitNil, Flush, LeaveSyncLoop
<1>1. TypeOK'
  <2>1. headers' \in Seq(Nat) /\ Len(headers') <= Batch
    <3>1. headers' = headers \/ headers' = <<>>
      OBVIOUS
    <3>2. headers \in Seq(Nat) /\ Len(headers) <= Batch
      BY DEF TypeOK
    <3>3. <<>> \in Seq(Nat) /\ Len(<<>>) <= Batch
      BY EmptyFacts
    <3> HIDE DEF BatchTimeout, SubmitNil, Flush, LeaveSyncLoop
    <3> QED BY <3>1, <3>2, <3>3
  <2> QED BY <2>1 DEF TypeOK
<1>2. ChannelContiguous'
  BY DEF TypeOK, ChannelContiguous, Cursor
<1>3. ConfirmedOnly'
  BY DEF ConfirmedOnly
<1>4. RoomAfterReset'
  BY DEF RoomAfterReset
<1>5. HandlerBounds'
  BY DEF TypeOK, HandlerBounds
<1>6. SubmitterBounds'
  BY EmptyFacts DEF SubmitterBounds
<1> QED BY <1>1, <1>2, <1>3, <1>4, <1>5, <1>6

\* A failed submission computes its reset.
LEMMA SubmitErrorInv ==
  ASSUME IInv, SubmitError, UNCHANGED <<chainVars, handlerVars, closed>>
  PROVE  IInv'
<1> USE ConfigAssumption DEF IInv, chainVars, handlerVars, SubmitError
<1>0. pend' \in 0 .. Word - 1
  <2>1. hdr \in 0 .. Word - 1 /\ Len(headers) \in 0 .. Word
    BY DEF TypeOK, ConfirmedOnly, HandlerBounds
  <2>2. Minus(hdr, 2) \in 0 .. Word - 1
    BY <2>1, MinusType, 2 \in 0 .. Word
  <2>3. Minus(Minus(hdr, Len(headers)), 2) \in 0 .. Word - 1
    <3>1. Minus(hdr, Len(headers)) \in 0 .. Word - 1
      BY <2>1, MinusType
    <3> QED BY <3>1, MinusType, 2 \in 0 .. Word
  <2> QED BY <2>2, <2>3 DEF LoopResetValue, BatchResetValue
<1>1. TypeOK'
  <2>1. headers' \in Seq(Nat) /\ Len(headers') <= Batch
    BY EmptyFacts
  <2>3. UNCHANGED <<tip, done, hpc, height, latest, target, ch, closed, reset, hdr>>
    OBVIOUS
  <2>4. spc' = "reset"
    OBVIOUS
  <2> HIDE DEF SubmitError
  <2> QED BY <1>0, <2>1, <2>3, <2>4 DEF TypeOK
<1>2. ChannelContiguous'
  BY DEF TypeOK, ChannelContiguous, Cursor
<1>3. ConfirmedOnly'
  BY DEF ConfirmedOnly
<1>4. RoomAfterReset'
  BY DEF RoomAfterReset
<1>5. HandlerBounds'
  BY DEF TypeOK, HandlerBounds
<1>6. SubmitterBounds'
  BY EmptyFacts DEF SubmitterBounds
<1> QED BY <1>1, <1>2, <1>3, <1>4, <1>5, <1>6

\* The reset is sent: reset was empty.
LEMMA SendResetInv ==
  ASSUME IInv, SendReset, UNCHANGED <<chainVars, handlerVars, closed>>
  PROVE  IInv'
<1> USE ConfigAssumption DEF IInv, chainVars, handlerVars, SendReset
<1>1. TypeOK'
  BY DEF TypeOK
<1>2. ChannelContiguous'
  BY DEF TypeOK, ChannelContiguous, Cursor
<1>3. ConfirmedOnly'
  BY DEF ConfirmedOnly
<1>4. RoomAfterReset'
  BY DEF RoomAfterReset, SubmitterBounds
<1>5. HandlerBounds'
  BY DEF TypeOK, HandlerBounds
<1>6. SubmitterBounds'
  BY DEF SubmitterBounds
<1> QED BY <1>1, <1>2, <1>3, <1>4, <1>5, <1>6


(* The other steps, and the theorems *)

\* Nothing changes.
LEMMA StutterInv ==
  ASSUME IInv, UNCHANGED vars
  PROVE  IInv'
BY DEF vars, IInv, TypeOK, ChannelContiguous, Cursor, ConfirmedOnly,
       RoomAfterReset, HandlerBounds, SubmitterBounds

\* The source chain grows.
LEMMA GrowInv ==
  ASSUME IInv, Grow
  PROVE  IInv'
<1> USE ConfigAssumption DEF IInv, handlerVars, submitterVars, Grow
<1>1. TypeOK'
  BY DEF TypeOK
<1>2. ChannelContiguous'
  BY DEF ChannelContiguous, Cursor
<1>3. ConfirmedOnly'
  <2>1. ch \in Seq(Nat) /\ hdr \in Nat /\ tip \in Nat
    BY DEF TypeOK
  <2>2. \A i \in 1 .. Len(ch) : ch[i] \in Nat
    BY <2>1
  <2>3. tip' = tip + 1 /\ UNCHANGED <<ch, hdr>>
    OBVIOUS
  <2> QED BY <2>1, <2>2, <2>3 DEF ConfirmedOnly
<1>4. RoomAfterReset'
  BY DEF RoomAfterReset
<1>5. HandlerBounds'
  BY DEF TypeOK, HandlerBounds
<1>6. SubmitterBounds'
  BY DEF SubmitterBounds
<1> QED BY <1>1, <1>2, <1>3, <1>4, <1>5, <1>6

\* The context is cancelled.
LEMMA CancelInv ==
  ASSUME IInv, Cancel
  PROVE  IInv'
BY DEF handlerVars, submitterVars, Cancel, IInv, TypeOK, ChannelContiguous,
       Cursor, ConfirmedOnly, RoomAfterReset, HandlerBounds, SubmitterBounds


\* Every step of the handler.
LEMMA HandlerInv ==
  ASSUME IInv, Handler
  PROVE  IInv'
<1>0. UNCHANGED <<chainVars, submitterVars>>
  BY DEF Handler
<1>1. CASE SelectReset
  BY <1>0, <1>1, SelectResetInv
<1>2. CASE SelectStaleReset
  BY <1>0, <1>2, SelectStaleResetInv
<1>3. CASE SelectDone \/ WaitCancelled \/ SendCancelled
  BY <1>0, <1>3, LeaveInv
<1>4. CASE SelectDefault
  BY <1>0, <1>4, SelectDefaultInv
<1>5. CASE Drain
  BY <1>0, <1>5, DrainInv
<1>6. CASE RollbackToTarget \/ RollbackMatch
  BY <1>0, <1>6, ReturnInv
<1>7. CASE RollbackMiss \/ RollbackAstray
  BY <1>0, <1>7, RollbackMissInv
<1>8. CASE WaitTillHeight
  BY <1>0, <1>8, WaitInv
<1>9. CASE FetchHeader \/ FetchError
  BY <1>0, <1>9, FetchInv
<1>10. CASE Send
  BY <1>0, <1>10, SendInv
<1> QED
  BY <1>1, <1>2, <1>3, <1>4, <1>5, <1>6, <1>7, <1>8, <1>9, <1>10
  DEF Handler, Rollback

\* Every step of the submitter.
LEMMA SubmitterInv ==
  ASSUME IInv, Submitter
  PROVE  IInv'
<1>0. UNCHANGED <<chainVars, handlerVars, closed>>
  BY DEF Submitter
<1>1. CASE LoopReceive
  BY <1>0, <1>1, LoopReceiveInv
<1>2. CASE BatchReceive
  BY <1>0, <1>2, BatchReceiveInv
<1>3. CASE BatchTimeout \/ SubmitNil \/ Flush \/ LeaveSyncLoop
  BY <1>0, <1>3, VerdictInv
<1>4. CASE SubmitError
  BY <1>0, <1>4, SubmitErrorInv
<1>5. CASE SendReset
  BY <1>0, <1>5, SendResetInv
<1> QED BY <1>1, <1>2, <1>3, <1>4, <1>5 DEF Submitter

\* The invariant IInv holds in every reachable state, whatever the capacity of
\* ch, the batch size, the confirmations, the verdicts and the answers of the
\* chains.
THEOREM Inductive == Spec => []IInv
<1>1. IInv /\ [Next]_vars => IInv'
  BY HandlerInv, SubmitterInv, GrowInv, CancelInv, StutterInv DEF Next, Exited
<1> QED BY <1>1, InitIInv, PTL DEF Spec

\* Every variable of the pipeline keeps its type; heights never leave uint64.
THEOREM TypeCorrect == Spec => []TypeOK
BY Inductive, PTL DEF IInv

\* The handler and the submitter never block on each other's full channel.
THEOREM NeverBlocked == Spec => []NoMutualBlock
<1>1. IInv => NoMutualBlock
  BY DEF IInv, RoomAfterReset, NoMutualBlock
<1> QED BY <1>1, Inductive, PTL

\* What is on ch is always a run of consecutive heights ending at the handler's.
THEOREM Contiguous == Spec => []ChannelContiguous
BY Inductive, PTL DEF IInv

\* No header is put on ch, or received, before it has its confirmations.
THEOREM Confirmed == Spec => []ConfirmedOnly
BY Inductive, PTL DEF IInv


(* The stream *)

\* Where the stream's place moves, by the handler's place in its loop.
LEMMA StreamStep ==
  ASSUME IInv, [Next]_vars
  PROVE  [Stream!Next]_Stream!vars
<1> DEFINE place == IF closed THEN 0 ELSE Cursor
<1> USE ConfigAssumption DEF Stream!vars, Stream!Next
<1>1. CASE UNCHANGED vars
  BY <1>1 DEF vars, Cursor
<1>2. CASE Grow
  BY <1>2 DEF Grow, handlerVars, Cursor, Stream!Grow
<1>3. CASE Cancel
  BY <1>3 DEF Cancel, handlerVars, Cursor
<1>4. CASE Exited
  BY <1>4 DEF Exited, vars, Cursor
<1>5. CASE Submitter
  <2>1. UNCHANGED <<tip, place, closed>>
    BY <1>5 DEF Submitter, chainVars, handlerVars, Cursor
  <2>2. ch' = ch \/ (ch # <<>> /\ ch' = Tail(ch))
    BY <1>5 DEF Submitter, LoopReceive, BatchReceive, BatchTimeout, SubmitNil,
       SubmitError, SendReset, LeaveSyncLoop, Flush
  <2> QED BY <2>1, <2>2 DEF Stream!Remove
<1>6. CASE Handler
  <2>0. UNCHANGED tip
    BY <1>6 DEF Handler, chainVars
  <2>1. CASE SelectDone \/ WaitCancelled \/ SendCancelled
    <3>1. ch' = ch /\ ~ closed /\ closed'
      BY <2>1 DEF SelectDone, WaitCancelled, SendCancelled, BreakLoop, IInv, HandlerBounds
    <3> QED BY <2>0, <3>1 DEF Stream!Close
  <2>2. CASE SelectReset \/ SelectStaleReset \/ SelectDefault
    <3>1. ch' = ch /\ closed' = closed /\ Cursor' = Cursor
      BY <2>2 DEF SelectReset, SelectStaleReset, SelectDefault, Cursor, IInv, TypeOK
    <3> QED BY <2>0, <3>1
  <2>3. CASE Drain
    <3>1. closed' = closed /\ Cursor' = Cursor
      BY <2>3 DEF Drain, Cursor
    <3>2. ch' = ch \/ (ch # <<>> /\ ch' = Tail(ch))
      BY <2>3 DEF Drain
    <3> QED BY <2>0, <3>1, <3>2 DEF Stream!Remove
  <2>4. CASE RollbackToTarget \/ RollbackMatch
    <3>1. /\ hpc = "rollback" /\ hpc' = "wait" /\ height' = target + 1
          /\ ch' = ch /\ closed' = closed
      BY <2>4 DEF RollbackToTarget, RollbackMatch, ReturnFromRollback
    <3>2. ch = <<>> /\ ~ closed /\ target \in Nat /\ height \in Nat /\ target < height
      BY <2>4 DEF RollbackToTarget, RollbackMatch, IInv, HandlerBounds, TypeOK
    <3>3. Cursor = height /\ Cursor' = target
      BY <3>1, <3>2 DEF Cursor
    <3>4. Stream!Rewind
      BY <2>0, <3>1, <3>2, <3>3 DEF Stream!Rewind
    <3> QED BY <3>4
  <2>5. CASE RollbackMiss \/ RollbackAstray \/ WaitTillHeight \/ FetchHeader \/ FetchError
    <3>1. ch' = ch /\ closed' = closed /\ Cursor' = Cursor
      BY <2>5 DEF RollbackMiss, RollbackAstray, WaitTillHeight, FetchHeader, FetchError,
         handlerVars, Cursor
    <3> QED BY <2>0, <3>1
  <2>6. CASE Send
    <3>1. /\ hpc = "send" /\ hpc' = "select" /\ height' = height
          /\ Len(ch) < Buffer /\ ch' = Append(ch, height) /\ closed' = closed
      BY <2>6 DEF Send
    <3>2. /\ ~ closed /\ height \in Nat /\ height + Confirms <= tip
      BY <3>1 DEF IInv, HandlerBounds, TypeOK
    <3>3. Cursor = height - 1 /\ Cursor' = height
      BY <3>1 DEF Cursor
    <3>4. Stream!Produce
      BY <2>0, <3>1, <3>2, <3>3 DEF Stream!Produce
    <3> QED BY <3>4
  <2> QED BY <1>6, <2>1, <2>2, <2>3, <2>4, <2>5, <2>6 DEF Handler, Rollback
<1> QED BY <1>1, <1>2, <1>3, <1>4, <1>5, <1>6 DEF Next

\* The pipeline implements the stream that HeaderStream promises to a submitter,
\* for every batch size, capacity, number of confirmations and source chain.
THEOREM Implementation == Spec => StreamKept
<1>1. Init => Stream!Init
  BY DEF Init, Fresh, Stream!Init, Cursor
<1>2. IInv /\ [Next]_vars => [Stream!Next]_Stream!vars
  BY StreamStep
<1> QED BY <1>1, <1>2, Inductive, PTL DEF Spec, StreamKept, Stream!Spec
=============================================================================
