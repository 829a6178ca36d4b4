------------------------------ MODULE SpinBarrier ------------------------------
(***************************************************************************)
(* The centralized sense-reversing barrier of the pthread BFS: class        *)
(* SpinBarrier of src/src/bfs_pthread.cc, with the futex system calls it    *)
(* blocks on.  One step per access to a shared word.                        *)
(*                                                                          *)
(* The module is the barrier of one team; ThreadPool composes two of them.  *)
(* A thread calls wait() whenever it likes (Enter), so every use of the     *)
(* barrier by a team of total_ threads is a behaviour of Spec.              *)
(***************************************************************************)
EXTENDS Integers, FiniteSets

CONSTANT Threads        \* the participants

ASSUME ThreadsAssumption == IsFiniteSet(Threads) /\ Threads # {}

VARIABLES
  count,        \* count_, the arrivals of this episode
  phase,        \* phase_, the sense, which is also the futex word
  my_phase,     \* the local my_phase of every thread
  bpc           \* where every thread is in wait(); "out" when not in it

vars == <<count, phase, my_phase, bpc>>

total == Cardinality(Threads)       \* total_

(* Past the arrival and before the return, not having seen the new phase.   *)
Waiting == {"poll", "futex", "asleep"}

PCs == {"out", "arrive", "reset", "flip", "wake"} \cup Waiting

Init ==
  /\ count = 0
  /\ phase = 0
  /\ my_phase = [t \in Threads |-> 0]
  /\ bpc = [t \in Threads |-> "out"]

Goto(t, label) == bpc' = [bpc EXCEPT ![t] = label]

(* wait() is called and reads the phase of the episode it takes part in.    *)
Enter(t) ==
  /\ bpc[t] = "out"
  /\ my_phase' = [my_phase EXCEPT ![t] = phase]
  /\ Goto(t, "arrive")
  /\ UNCHANGED <<count, phase>>

(* Faulty variant of Arrive: the team is counted without main.              *)
ArriveOneEarly(t) ==
  /\ bpc[t] = "arrive"
  /\ count' = count + 1
  /\ Goto(t, IF count' = total - 1 THEN "reset" ELSE "poll")
  /\ UNCHANGED <<phase, my_phase>>

(* The atomic add_fetch; the last arriver takes the other branch.           *)
Arrive(t) ==
  /\ bpc[t] = "arrive"
  /\ count' = count + 1
  /\ Goto(t, IF count' = total THEN "reset" ELSE "poll")
  /\ UNCHANGED <<phase, my_phase>>

(* The last arriver clears the counter for the next episode ...             *)
ResetCount(t) ==
  /\ bpc[t] = "reset"
  /\ count' = 0
  /\ Goto(t, "flip")
  /\ UNCHANGED <<phase, my_phase>>

(* ... then publishes the new phase ...                                     *)
FlipPhase(t) ==
  /\ bpc[t] = "flip"
  /\ phase' = 1 - my_phase[t]
  /\ Goto(t, "wake")
  /\ UNCHANGED <<count, my_phase>>

(* Faulty variant of WakeAll: nobody is woken.                              *)
WakeNobody(t) ==
  /\ bpc[t] = "wake"
  /\ Goto(t, "out")
  /\ UNCHANGED <<count, phase, my_phase>>

(* ... and wakes every sleeper, which completes its wait().                 *)
WakeAll(t) ==
  /\ bpc[t] = "wake"
  /\ bpc' = [u \in Threads |-> IF u = t THEN "out"
                               ELSE IF bpc[u] = "asleep" THEN "poll" ELSE bpc[u]]
  /\ UNCHANGED <<count, phase, my_phase>>

(* The while loop sees the new phase and wait() returns.                    *)
Leave(t) ==
  /\ bpc[t] = "poll"
  /\ phase # my_phase[t]
  /\ Goto(t, "out")
  /\ UNCHANGED <<count, phase, my_phase>>

(* The phase is still the old one and the spins are used up.  A spin that   *)
(* is not the last changes nothing: it is a stuttering step.                *)
GiveUpSpinning(t) ==
  /\ bpc[t] = "poll"
  /\ phase = my_phase[t]
  /\ Goto(t, "futex")
  /\ UNCHANGED <<count, phase, my_phase>>

(* Faulty variant of FutexWait: the kernel does not compare the word.       *)
SleepUnchecked(t) ==
  /\ bpc[t] = "futex"
  /\ Goto(t, "asleep")
  /\ UNCHANGED <<count, phase, my_phase>>

(* FUTEX_WAIT compares and sleeps in one step of the kernel; it returns at  *)
(* once when the word has changed.                                          *)
FutexWait(t) ==
  /\ bpc[t] = "futex"
  /\ Goto(t, IF phase = my_phase[t] THEN "asleep" ELSE "poll")
  /\ UNCHANGED <<count, phase, my_phase>>

(* FUTEX_WAIT may also return early, on a signal.  The loop looks again.    *)
Interrupted(t) ==
  /\ bpc[t] = "asleep"
  /\ Goto(t, "poll")
  /\ UNCHANGED <<count, phase, my_phase>>

(* The steps a running thread takes inside wait().                          *)
Step(t) ==
  \/ Arrive(t)
  \/ ResetCount(t)
  \/ FlipPhase(t)
  \/ WakeAll(t)
  \/ Leave(t)
  \/ GiveUpSpinning(t)
  \/ FutexWait(t)

Next == \E t \in Threads : Enter(t) \/ Step(t) \/ Interrupted(t)

Spec == Init /\ [][Next]_vars

(* Every thread inside wait() is scheduled; none is obliged to call it.     *)
FairSpec == Spec /\ \A t \in Threads : WF_vars(Step(t))

--------------------------------------------------------------------------------
(* The threads of the current episode that have not been released: the      *)
(* refinement mapping to Rendezvous.                                        *)
Inside == {t \in Threads :
             \/ bpc[t] \in {"arrive", "reset", "flip"}
             \/ bpc[t] \in Waiting /\ my_phase[t] = phase}

(* Inside, and counted.                                                     *)
Arrived == {t \in Inside : bpc[t] # "arrive"}

TypeOK ==
  /\ count \in 0 .. total
  /\ phase \in {0, 1}
  /\ my_phase \in [Threads -> {0, 1}]
  /\ bpc \in [Threads -> PCs]

(* A thread between its arrival and the release is in the current episode,  *)
(* and the thread about to wake the others is in the previous one: phase_   *)
(* never goes round under a thread that has not left.                       *)
PhaseAgreement ==
  \A t \in Threads :
    /\ bpc[t] \in {"arrive", "reset", "flip"} => my_phase[t] = phase
    /\ bpc[t] = "wake" => my_phase[t] # phase

(* count_ is exactly the number of threads waiting for this episode, except *)
(* between the two stores of the last arriver.                              *)
CountsArrivals ==
  count = IF \E t \in Threads : bpc[t] = "flip" THEN 0 ELSE Cardinality(Arrived)

(* While one thread resets and flips, every other one waits in this episode *)
(* and touches neither word.                                                *)
LastArriverAlone ==
  \A t \in Threads : bpc[t] \in {"reset", "flip"} =>
    \A u \in Threads \ {t} : bpc[u] \in Waiting /\ my_phase[u] = phase

(* No lost wake-up (bfs_pthread.cc:156,164): a thread asleep on a phase     *)
(* that is over is about to be woken.                                       *)
NoLostWakeup ==
  \A t \in Threads : bpc[t] = "asleep" /\ my_phase[t] # phase =>
    \E u \in Threads : bpc[u] = "wake"

(* Every thread that was released returns from wait(), asleep or not.       *)
ReleasedLeave ==
  \A t \in Threads : (bpc[t] \in Waiting /\ t \notin Inside) ~> (bpc[t] = "out")

R == INSTANCE Rendezvous WITH inside <- Inside

(* The comment at bfs_pthread.cc:133-135: N+1 rendezvous semantics.  Nobody *)
(* passes before all have arrived, and a full team does pass.               *)
ImplementsRendezvous == R!FairSpec

================================================================================
