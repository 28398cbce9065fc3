--------------------------- MODULE SnapshotProofs ---------------------------
(***************************************************************************)
(* No request of Snapshot is lost and none is answered twice, for any      *)
(* number of callers, with or without a cancellation.                      *)
(***************************************************************************)
EXTENDS Snapshot, SequenceTheorems, TLAPS

Distinct == \A i, k \in DOMAIN senders : senders[i] = senders[k] => i = k

\* What EachWaiterIsKnown says, for every caller.
KnownWaiters ==
  /\ Distinct
  /\ \A c \in Callers : call[c] = "blocked" <=> c \in Waiting \/ c = serving
  /\ serving \notin Waiting

SnapInv == SnapTypeOK /\ KnownWaiters
-----------------------------------------------------------------------------
\* A caller that sends is queued behind those who wait.
LEMMA SendFacts ==
  ASSUME SnapTypeOK, Distinct, NEW c \in Callers, c \notin Waiting, senders' = Append(senders, c)
  PROVE  /\ senders' \in Seq(Callers)
         /\ Waiting' = Waiting \cup {c}
         /\ Distinct'
<1>1. senders \in Seq(Callers)
  BY DEF SnapTypeOK
<1>2. /\ senders' \in Seq(Callers)
      /\ Len(senders) \in Nat
      /\ DOMAIN senders = 1..Len(senders)
      /\ DOMAIN senders' = 1..(Len(senders) + 1)
      /\ \A i \in 1..Len(senders) : senders'[i] = senders[i]
      /\ senders'[Len(senders) + 1] = c
  BY <1>1, AppendProperties
<1>3. Waiting' = Waiting \cup {c}
  BY <1>2 DEF Waiting
<1>4. Distinct'
  BY <1>2 DEF Distinct, Waiting
<1> QED
  BY <1>2, <1>3, <1>4

\* The one the manager receives from is the oldest, and waits in the channel no more.
LEMMA ReceiveFacts ==
  ASSUME SnapTypeOK, Distinct, senders # <<>>, senders' = Tail(senders)
  PROVE  /\ Head(senders) \in Waiting /\ Head(senders) \in Callers
         /\ senders' \in Seq(Callers)
         /\ Waiting' = Waiting \ {Head(senders)}
         /\ Distinct'
<1>1. senders \in Seq(Callers)
  BY DEF SnapTypeOK
<1>2. /\ Len(senders) \in Nat \ {0}
      /\ DOMAIN senders = 1..Len(senders)
      /\ Head(senders) = senders[1] /\ Head(senders) \in Callers
      /\ senders' \in Seq(Callers)
      /\ DOMAIN senders' = 1..(Len(senders) - 1)
      /\ \A i \in 1..(Len(senders) - 1) : senders'[i] = senders[i + 1]
  BY <1>1, HeadTailProperties
<1>3. Head(senders) \in Waiting
  BY <1>2 DEF Waiting
<1>4. Distinct'
  <2> SUFFICES ASSUME NEW i \in 1..(Len(senders) - 1), NEW k \in 1..(Len(senders) - 1),
                      senders'[i] = senders'[k]
               PROVE  i = k
    BY <1>2 DEF Distinct
  <2>1. i + 1 \in DOMAIN senders /\ k + 1 \in DOMAIN senders /\ senders[i + 1] = senders[k + 1]
    BY <1>2
  <2>2. i + 1 = k + 1
    BY <2>1 DEF Distinct
  <2> QED
    BY <2>2
<1>5. Waiting' \subseteq Waiting \ {Head(senders)}
  BY <1>2 DEF Waiting, Distinct
<1>6. Waiting \ {Head(senders)} \subseteq Waiting'
  <2> SUFFICES ASSUME NEW c \in Waiting, c # Head(senders) PROVE c \in Waiting'
    OBVIOUS
  <2>1. PICK i \in 1..Len(senders) : c = senders[i]
    BY <1>2 DEF Waiting
  <2>2. i - 1 \in DOMAIN senders' /\ senders'[i - 1] = c
    BY <1>2, <2>1
  <2> QED
    BY <2>2 DEF Waiting
<1> QED
  BY <1>2, <1>3, <1>4, <1>5, <1>6

\* Nobody waits at first.
LEMMA SnapInitOK ==
  ASSUME SnapInit PROVE SnapInv
<1>1. <<>> \in Seq(Callers) /\ Waiting = {} /\ Distinct
  BY DEF SnapInit, Waiting, Distinct
<1>2. SnapTypeOK
  BY <1>1, ProgramsAssumption DEF SnapInit, SnapTypeOK, CallLabels
<1>3. KnownWaiters
  BY <1>1, CallersAssumption DEF SnapInit, KnownWaiters
<1> QED
  BY <1>2, <1>3 DEF SnapInv

\* Who waits depends on the channel only.
LEMMA SameSenders ==
  ASSUME UNCHANGED senders
  PROVE  Waiting' = Waiting /\ (Distinct => Distinct')
BY DEF Waiting, Distinct

\* A step of a caller leaves the others' requests alone.
LEMMA CallerKeeps ==
  ASSUME SnapInv, NEW c \in Callers, Accept(c) \/ Refuse(c) \/ Send(c) \/ Return(c)
  PROVE  SnapInv'
<1>1. /\ SnapTypeOK /\ KnownWaiters /\ Distinct
      /\ \A d \in Callers : call[d] = "blocked" <=> d \in Waiting \/ d = serving
  BY DEF SnapInv, KnownWaiters
<1>2. CASE Accept(c) \/ Refuse(c) \/ Return(c)
  <2>1. /\ UNCHANGED <<senders, serving>>
        /\ call[c] # "blocked" /\ call'[c] # "blocked"
        /\ \A d \in Callers \ {c} : call'[d] = call[d]
    BY <1>1, <1>2 DEF Accept, Refuse, Return, SnapTypeOK
  <2>2. SnapTypeOK'
    BY <1>1, <1>2 DEF Accept, Refuse, Return, SnapTypeOK, CallLabels
  <2>3. KnownWaiters'
    BY <1>1, <2>1, SameSenders DEF KnownWaiters
  <2> QED
    BY <2>2, <2>3 DEF SnapInv
<1>3. CASE Send(c)
  <2>1. /\ call[c] = "send" /\ c \notin Waiting /\ c # serving
        /\ senders' = Append(senders, c) /\ UNCHANGED serving
        /\ call'[c] = "blocked" /\ \A d \in Callers \ {c} : call'[d] = call[d]
    BY <1>1, <1>3 DEF Send, SnapTypeOK
  <2>2. senders' \in Seq(Callers) /\ Waiting' = Waiting \cup {c} /\ Distinct'
    BY <1>1, <2>1, SendFacts
  <2>3. SnapTypeOK'
    BY <1>1, <1>3, <2>2 DEF Send, SnapTypeOK, CallLabels
  <2>4. KnownWaiters'
    BY <1>1, <2>1, <2>2 DEF KnownWaiters
  <2> QED
    BY <2>3, <2>4 DEF SnapInv
<1> QED
  BY <1>2, <1>3

\* The manager serves the oldest of those who wait, and answers the one it serves.
LEMMA ManagerKeeps ==
  ASSUME SnapInv, ManagerStep
  PROVE  SnapInv'
<1>1. /\ SnapTypeOK /\ KnownWaiters /\ Distinct
      /\ \A d \in Callers : call[d] = "blocked" <=> d \in Waiting \/ d = serving
  BY DEF SnapInv, KnownWaiters
<1>2. CASE Receive
  <2>1. /\ senders # <<>> /\ senders' = Tail(senders)
        /\ serving = NoCaller /\ serving' = Head(senders) /\ UNCHANGED call
    BY <1>2 DEF Receive, AtSelect
  <2>2. /\ Head(senders) \in Waiting /\ Head(senders) \in Callers
        /\ senders' \in Seq(Callers) /\ Waiting' = Waiting \ {Head(senders)} /\ Distinct'
    BY <1>1, <2>1, ReceiveFacts
  <2>3. SnapTypeOK'
    BY <1>1, <1>2, <2>1, <2>2 DEF Receive, SnapTypeOK
  <2>4. KnownWaiters'
    BY <1>1, <2>1, <2>2, CallersAssumption DEF KnownWaiters
  <2> QED
    BY <2>3, <2>4 DEF SnapInv
<1>3. CASE Reply
  <2>1. /\ serving \in Callers /\ serving' = NoCaller /\ UNCHANGED senders
        /\ call'[serving] \in {"image", "error"}
        /\ \A d \in Callers \ {serving} : call'[d] = call[d]
    BY <1>1, <1>3 DEF Reply, SnapTypeOK
  <2>2. SnapTypeOK'
    BY <1>1, <1>3, <2>1 DEF Reply, SnapTypeOK, CallLabels
  <2>3. NoCaller \notin Waiting
    BY <1>1, CallersAssumption DEF Waiting, SnapTypeOK
  <2>4. KnownWaiters'
    BY <1>1, <2>1, <2>3, SameSenders, CallersAssumption DEF KnownWaiters
  <2> QED
    BY <2>2, <2>4 DEF SnapInv
<1>4. CASE Stop \/ TakeZeroJob
  <2>1. UNCHANGED <<senders, serving, call>>
    BY <1>4 DEF Stop, TakeZeroJob
  <2>2. SnapTypeOK'
    BY <1>1, <1>4 DEF Stop, TakeZeroJob, SnapTypeOK
  <2>3. KnownWaiters'
    BY <1>1, <2>1, SameSenders DEF KnownWaiters
  <2> QED
    BY <2>2, <2>3 DEF SnapInv
<1> QED
  BY <1>2, <1>3, <1>4 DEF ManagerStep

\* A cancellation changes no request, nor does a step of somebody else.
LEMMA OthersKeep ==
  ASSUME SnapInv, Cancel \/ UNCHANGED snapVars
  PROVE  SnapInv'
<1>1. SnapTypeOK /\ KnownWaiters
  BY DEF SnapInv
<1>2. UNCHANGED <<senders, serving, call>>
  BY DEF Cancel, snapVars
<1>3. SnapTypeOK'
  BY <1>1 DEF Cancel, snapVars, SnapTypeOK
<1>4. KnownWaiters'
  BY <1>1, <1>2, SameSenders DEF KnownWaiters
<1> QED
  BY <1>3, <1>4 DEF SnapInv

\* No request is lost and none is answered twice: who is blocked in Snapshot
\* is queued once or is the one being served.
THEOREM NoRequestIsLost == SnapSpec => []EachWaiterIsKnown
<1>1. SnapInit => SnapInv
  BY SnapInitOK
<1>2. ASSUME SnapInv, [SnapNext]_snapVars PROVE SnapInv'
  <2>1. CASE ManagerStep
    BY <1>2, <2>1, ManagerKeeps
  <2>2. CASE Cancel \/ UNCHANGED snapVars
    BY <1>2, <2>2, OthersKeep
  <2>3. ASSUME NEW c \in callers, CallerStep(c) PROVE SnapInv'
    <3>1. c \in Callers
      BY <1>2 DEF SnapInv, SnapTypeOK
    <3> QED
      BY <1>2, <2>3, <3>1, CallerKeeps DEF CallerStep
  <2> QED
    BY <1>2, <2>1, <2>2, <2>3 DEF SnapNext
<1>3. SnapInv => EachWaiterIsKnown
  BY CallersAssumption DEF SnapInv, KnownWaiters, Distinct, EachWaiterIsKnown
<1> QED
  BY <1>1, <1>2, <1>3, PTL DEF SnapSpec
=============================================================================
