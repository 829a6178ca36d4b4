--------------------------- MODULE SpinBarrierProofs ---------------------------
(***************************************************************************)
(* SpinBarrier for every finite team: the invariant that makes the barrier   *)
(* correct, and its refinement of Rendezvous (safety).                      *)
(***************************************************************************)
EXTENDS SpinBarrier, FiniteSetTheorems, TLAPS

(* The inductive invariant.  LastArriverAlone is what makes the two plain   *)
(* stores of the last arriver safe; it rests on CountsArrivals, because the *)
(* last arriver learns only from the counter that all others have arrived.  *)
IInv ==
  /\ TypeOK
  /\ PhaseAgreement
  /\ CountsArrivals
  /\ LastArriverAlone
  /\ NoLostWakeup

(* The team size is a positive integer.                                     *)
LEMMA TotalIsPositive == total \in Nat /\ total > 0
  BY ThreadsAssumption, FS_CardinalityType, FS_EmptySet DEF total

(* The counter is never larger than the team.                               *)
LEMMA ArrivedIsFinite ==
  /\ Arrived \subseteq Threads
  /\ IsFiniteSet(Arrived)
  /\ Cardinality(Arrived) \in Nat
  /\ Cardinality(Arrived) <= total
  <1>1. Arrived \subseteq Threads
    BY DEF Arrived, Inside
  <1> QED
    BY <1>1, ThreadsAssumption, FS_Subset, FS_CardinalityType DEF total

(* A thread that has not arrived leaves room in the counter.                *)
LEMMA RoomForArrival ==
  ASSUME NEW t \in Threads, t \notin Arrived
  PROVE  /\ Cardinality(Arrived \cup {t}) = Cardinality(Arrived) + 1
         /\ Cardinality(Arrived) + 1 <= total
         /\ Cardinality(Arrived) + 1 = total => Arrived = Threads \ {t}
  <1>1. Cardinality(Arrived \cup {t}) = Cardinality(Arrived) + 1
    BY ArrivedIsFinite, FS_AddElement
  <1>2. Arrived \cup {t} \subseteq Threads
    BY ArrivedIsFinite
  <1>3. Cardinality(Arrived \cup {t}) <= Cardinality(Threads)
    BY <1>2, ThreadsAssumption, FS_Subset
  <1>4. Cardinality(Arrived \cup {t}) = Cardinality(Threads)
          => Arrived \cup {t} = Threads
    BY <1>2, ThreadsAssumption, FS_Subset
  <1> QED
    BY <1>1, <1>3, <1>4, ArrivedIsFinite DEF total

(* Nobody is in the barrier at first.                                       *)
LEMMA InitInvariant == Init => IInv
  <1> SUFFICES ASSUME Init PROVE IInv
    OBVIOUS
  <1>1. Arrived = {}
    BY DEF Init, Arrived, Inside, Waiting
  <1>2. Cardinality(Arrived) = 0
    BY <1>1, FS_EmptySet
  <1> QED
    BY <1>2, TotalIsPositive
    DEF Init, IInv, TypeOK, PhaseAgreement, CountsArrivals, LastArriverAlone,
        NoLostWakeup, PCs, Waiting

(* A step that leaves the words alone and moves threads only among the      *)
(* labels of one side of the barrier keeps the counter exact.               *)
LEMMA SameArrived ==
  ASSUME TypeOK, CountsArrivals, count' = count, Arrived' = Arrived,
         (\E t \in Threads : bpc'[t] = "flip") <=> (\E t \in Threads : bpc[t] = "flip")
  PROVE  CountsArrivals'
  BY DEF CountsArrivals

(* The step of the last arriver, or of any arriver.                         *)
LEMMA ArriveStep ==
  ASSUME IInv, NEW t \in Threads, Arrive(t)
  PROVE  IInv'
  <1> USE DEF IInv, TypeOK, PCs, Waiting
  <1>1. t \notin Arrived
    BY DEF Arrive, Arrived
  <1>2. ~ \E u \in Threads : bpc[u] \in {"reset", "flip"}
    BY DEF Arrive, LastArriverAlone
  <1>3. count = Cardinality(Arrived)
    BY <1>2 DEF CountsArrivals
  <1>4. my_phase[t] = phase
    BY DEF Arrive, PhaseAgreement
  <1>5. count' \in 0 .. total
    <2>1. count' = Cardinality(Arrived) + 1
      BY <1>3 DEF Arrive
    <2>2. Cardinality(Arrived) + 1 <= total
      BY <1>1, RoomForArrival
    <2> QED
      BY <2>1, <2>2, ArrivedIsFinite, TotalIsPositive
  <1>6. Arrived' = Arrived \cup {t}
    BY <1>4 DEF Arrive, Arrived, Inside, Goto
  <1>7. TypeOK'
    BY <1>5 DEF Arrive, Goto
  <1>8. PhaseAgreement'
    BY DEF Arrive, Goto, PhaseAgreement
  <1>9. CountsArrivals'
    <2>1. ~ \E u \in Threads : bpc'[u] = "flip"
      BY <1>2 DEF Arrive, Goto
    <2> QED
      BY <2>1, <1>1, <1>3, <1>6, RoomForArrival DEF Arrive, CountsArrivals
  <1>10. LastArriverAlone'
    <2> SUFFICES ASSUME NEW u \in Threads, bpc'[u] \in {"reset", "flip"},
                        NEW w \in Threads \ {u}
                 PROVE  bpc'[w] \in Waiting /\ my_phase'[w] = phase'
      BY DEF LastArriverAlone
    <2>1. u = t /\ count + 1 = total
      BY <1>2 DEF Arrive, Goto
    <2>2. w \in Arrived
      BY <2>1, <1>1, <1>3, RoomForArrival
    <2> QED
      BY <2>1, <2>2, <1>2 DEF Arrive, Goto, Arrived, Inside
  <1>11. NoLostWakeup'
    BY DEF Arrive, Goto, NoLostWakeup
  <1> QED
    BY <1>7, <1>8, <1>9, <1>10, <1>11

(* The release: the one step that changes the phase.                        *)
LEMMA FlipPhaseStep ==
  ASSUME IInv, NEW t \in Threads, FlipPhase(t)
  PROVE  IInv' /\ Inside = Threads /\ Inside' = {}
  <1> USE DEF IInv, TypeOK, PCs, Waiting
  <1>1. \A u \in Threads \ {t} : bpc[u] \in Waiting /\ my_phase[u] = phase
    BY DEF FlipPhase, LastArriverAlone
  <1>2. my_phase[t] = phase
    BY DEF FlipPhase, PhaseAgreement
  <1>3. phase' = 1 - phase /\ phase' # phase
    BY <1>2 DEF FlipPhase
  <1>4. Inside = Threads
    BY <1>1 DEF Inside, FlipPhase
  <1>5. Inside' = {}
    BY <1>1, <1>3 DEF Inside, FlipPhase, Goto
  <1>6. TypeOK'
    BY <1>3 DEF FlipPhase, Goto
  <1>7. PhaseAgreement'
    BY <1>1, <1>2, <1>3 DEF FlipPhase, Goto, PhaseAgreement
  <1>8. CountsArrivals'
    <2>1. count' = 0
      BY DEF FlipPhase, CountsArrivals
    <2>2. Arrived' = {}
      BY <1>5 DEF Arrived
    <2>3. Cardinality(Arrived') = 0
      BY <2>2, FS_EmptySet
    <2> QED
      BY <2>1, <2>3 DEF CountsArrivals
  <1>9. LastArriverAlone'
    BY <1>1 DEF FlipPhase, Goto, LastArriverAlone
  <1>10. NoLostWakeup'
    BY DEF FlipPhase, Goto, NoLostWakeup
  <1> QED
    BY <1>4, <1>5, <1>6, <1>7, <1>8, <1>9, <1>10

(* The last arriver's first store.                                          *)
LEMMA ResetCountStep ==
  ASSUME IInv, NEW t \in Threads, ResetCount(t)
  PROVE  IInv' /\ Inside' = Inside
  <1> USE DEF IInv, TypeOK, PCs, Waiting
  <1>1. Inside' = Inside
    BY DEF ResetCount, Goto, Inside
  <1>2. TypeOK'
    BY TotalIsPositive DEF ResetCount, Goto
  <1>3. PhaseAgreement'
    BY DEF ResetCount, Goto, PhaseAgreement
  <1>4. CountsArrivals'
    <2>1. bpc'[t] = "flip" /\ count' = 0
      BY DEF ResetCount, Goto
    <2> QED
      BY <2>1 DEF CountsArrivals
  <1>5. LastArriverAlone'
    BY DEF ResetCount, Goto, LastArriverAlone
  <1>6. NoLostWakeup'
    BY DEF ResetCount, Goto, NoLostWakeup
  <1> QED
    BY <1>1, <1>2, <1>3, <1>4, <1>5, <1>6

(* Entering: the thread takes the current phase and is not counted yet.     *)
LEMMA EnterStep ==
  ASSUME IInv, NEW t \in Threads, Enter(t)
  PROVE  IInv' /\ t \notin Inside /\ Inside' = Inside \cup {t}
  <1> USE DEF IInv, TypeOK, PCs, Waiting
  <1>1. t \notin Inside /\ Inside' = Inside \cup {t}
    BY DEF Enter, Goto, Inside
  <1>2. TypeOK'
    BY DEF Enter, Goto
  <1>3. PhaseAgreement'
    BY DEF Enter, Goto, PhaseAgreement
  <1>4. CountsArrivals'
    <2>1. Arrived' = Arrived
      BY <1>1 DEF Enter, Goto, Arrived
    <2> QED
      BY <2>1, SameArrived DEF Enter, Goto
  <1>5. LastArriverAlone'
    BY DEF Enter, Goto, LastArriverAlone
  <1>6. NoLostWakeup'
    BY DEF Enter, Goto, NoLostWakeup
  <1> QED
    BY <1>1, <1>2, <1>3, <1>4, <1>5, <1>6

(* The wake-up, after the release.                                          *)
LEMMA WakeAllStep ==
  ASSUME IInv, NEW t \in Threads, WakeAll(t)
  PROVE  IInv' /\ Inside' = Inside
  <1> USE DEF IInv, TypeOK, PCs, Waiting
  <1>1. Inside' = Inside
    BY DEF WakeAll, Inside
  <1>2. TypeOK'
    BY DEF WakeAll
  <1>3. PhaseAgreement'
    BY DEF WakeAll, PhaseAgreement
  <1>4. CountsArrivals'
    <2>1. Arrived' = Arrived
      BY <1>1 DEF WakeAll, Arrived, Inside
    <2> QED
      BY <2>1, SameArrived DEF WakeAll
  <1>5. LastArriverAlone'
    BY DEF WakeAll, LastArriverAlone
  <1>6. NoLostWakeup'
    BY DEF WakeAll, NoLostWakeup
  <1> QED
    BY <1>1, <1>2, <1>3, <1>4, <1>5, <1>6

(* The steps of a waiting thread: it moves among the waiting labels, or     *)
(* leaves because the phase has changed.                                    *)
LEMMA WaitingStep ==
  ASSUME IInv, NEW t \in Threads,
         Leave(t) \/ GiveUpSpinning(t) \/ FutexWait(t) \/ Interrupted(t)
  PROVE  IInv' /\ Inside' = Inside
  <1> USE DEF IInv, TypeOK, PCs, Waiting
  <1> USE DEF Leave, GiveUpSpinning, FutexWait, Interrupted, Goto
  <1>1. Inside' = Inside
    BY DEF Inside
  <1>2. TypeOK'
    OBVIOUS
  <1>3. PhaseAgreement'
    BY DEF PhaseAgreement
  <1>4. CountsArrivals'
    <2>1. Arrived' = Arrived
      BY <1>1 DEF Arrived, Inside
    <2> QED
      BY <2>1, SameArrived
  <1>5. LastArriverAlone'
    BY DEF LastArriverAlone
  <1>6. NoLostWakeup'
    BY DEF NoLostWakeup
  <1> QED
    BY <1>1, <1>2, <1>3, <1>4, <1>5, <1>6

(* Every step of the barrier keeps the invariant.                           *)
LEMMA NextInvariant == IInv /\ [Next]_vars => IInv'
  <1> SUFFICES ASSUME IInv, [Next]_vars PROVE IInv'
    OBVIOUS
  <1>1. CASE UNCHANGED vars
    BY <1>1 DEF vars, IInv, TypeOK, PhaseAgreement, CountsArrivals, Arrived,
                Inside, LastArriverAlone, NoLostWakeup
  <1>2. ASSUME NEW t \in Threads, Enter(t) \/ Step(t) \/ Interrupted(t)
        PROVE  IInv'
    BY <1>2, ArriveStep, FlipPhaseStep, ResetCountStep, EnterStep, WakeAllStep,
       WaitingStep DEF Step
  <1> QED
    BY <1>1, <1>2 DEF Next

(* What a caller needs to know of a step inside wait(): either nobody is     *)
(* released or the full team is, and nobody starts a wait().                 *)
LEMMA StepEffect ==
  ASSUME IInv, NEW t \in Threads, Step(t) \/ Interrupted(t)
  PROVE  /\ Inside' = Inside \/ (Inside = Threads /\ Inside' = {})
         /\ \A u \in Threads : bpc'[u] # "out" => bpc[u] # "out"
  <1>1. \A u \in Threads : bpc'[u] # "out" => bpc[u] # "out"
    BY DEF Step, Arrive, ResetCount, FlipPhase, WakeAll, Leave, GiveUpSpinning,
           FutexWait, Interrupted, Goto, IInv, TypeOK
  <1>2. Inside' = Inside \/ (Inside = Threads /\ Inside' = {})
    <2>1. CASE FlipPhase(t)
      BY <2>1, FlipPhaseStep
    <2>2. CASE Arrive(t)
      <3>1. my_phase[t] = phase
        BY <2>2 DEF IInv, PhaseAgreement, Arrive
      <3> QED
        BY <2>2, <3>1 DEF Arrive, Goto, Inside, Waiting, IInv, TypeOK
    <2>3. CASE ~FlipPhase(t) /\ ~Arrive(t)
      BY <2>3, ResetCountStep, WakeAllStep, WaitingStep DEF Step
    <2> QED
      BY <2>1, <2>2, <2>3
  <1> QED
    BY <1>1, <1>2

(* What a caller needs to know of the call of wait().                        *)
LEMMA EnterEffect ==
  ASSUME IInv, NEW t \in Threads, Enter(t)
  PROVE  /\ bpc[t] = "out" /\ bpc'[t] # "out"
         /\ \A u \in Threads \ {t} : bpc'[u] = bpc[u]
         /\ t \notin Inside /\ Inside' = Inside \cup {t}
  <1>1. t \notin Inside /\ Inside' = Inside \cup {t}
    BY EnterStep
  <1> QED
    BY <1>1 DEF Enter, Goto, IInv, TypeOK

(* The whole invariant of the barrier, for a team of any size: in           *)
(* particular count_ counts exactly the arrivals of the current episode.    *)
THEOREM BarrierInvariant == Spec => []IInv
  BY InitInvariant, NextInvariant, PTL DEF Spec

(* bfs_pthread.cc:156,164: no thread sleeps through its release.            *)
THEOREM NoWakeupIsLost == Spec => []NoLostWakeup
  <1>1. IInv => NoLostWakeup
    BY DEF IInv
  <1> QED
    BY <1>1, BarrierInvariant, PTL

(* bfs_pthread.cc:154-155: the reset and the flip race with nobody.         *)
THEOREM LastArriverIsAlone == Spec => []LastArriverAlone
  <1>1. IInv => LastArriverAlone
    BY DEF IInv
  <1> QED
    BY <1>1, BarrierInvariant, PTL

(* Every step of the code is a step of the abstract rendezvous, or none.    *)
LEMMA StepRefines == IInv /\ [Next]_vars => [R!Next]_Inside
  <1> SUFFICES ASSUME IInv, [Next]_vars PROVE [R!Next]_Inside
    OBVIOUS
  <1>1. CASE UNCHANGED vars
    BY <1>1 DEF vars, Inside
  <1>2. ASSUME NEW t \in Threads, Enter(t)
        PROVE  R!Arrive(t)
    BY <1>2, EnterStep DEF R!Arrive
  <1>3. ASSUME NEW t \in Threads, Step(t) \/ Interrupted(t)
        PROVE  R!Release \/ Inside' = Inside
    BY <1>3, StepEffect DEF R!Release
  <1> QED
    BY <1>1, <1>2, <1>3 DEF Next, R!Next

(* bfs_pthread.cc:133-135: N+1 rendezvous semantics.  No thread passes      *)
(* wait() before the whole team has arrived, in every episode.              *)
THEOREM BarrierIsRendezvous == Spec => R!Spec
  <1>1. Init => R!Init
    BY DEF Init, R!Init, Inside, Waiting
  <1> QED
    BY <1>1, StepRefines, BarrierInvariant, PTL DEF Spec, R!Spec

================================================================================
