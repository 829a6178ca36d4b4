----------------------------- MODULE SlidingQueue -----------------------------
(***************************************************************************)
(* The double-buffered queue of the frontier algorithms and its              *)
(* thread-local append buffers: classes SlidingQueue and QueueBuffer of      *)
(* src/src/sliding_queue.h.                                                  *)
(*                                                                          *)
(* The queue is one array of shared_size slots that is only ever appended    *)
(* to; a window of it is the current level.  A thread collects items in a    *)
(* buffer of its own and flushes it in two steps: an atomic fetch_and_add    *)
(* on shared_in reserves slots, then the items are copied into them.         *)
(*                                                                          *)
(* shared_in is never moved back while a search runs and nothing checks it   *)
(* against shared_size: callers size the queue for every item and have to    *)
(* push an item at most once between two resets.  DOBFS and BC are callers.  *)
(***************************************************************************)
EXTENDS Integers, Sequences, FiniteSets, SequencesExt

CONSTANTS
  Items,
  Threads,
  local_size,       \* the capacity of a QueueBuffer, 16384 in the code
  Garbage           \* what a slot of the new array holds

VARIABLES
  shared,
  shared_in,
  shared_out_start,
  shared_out_end,
  local_queue,      \* local_queue[0..in) of the buffer of every thread
  copy_start        \* where a thread that is flushing copies to

vars == <<shared, shared_in, shared_out_start, shared_out_end, local_queue, copy_start>>

NotFlushing == -1
shared_size == Cardinality(Items)
Slots == 0 .. shared_size - 1

Init ==
  /\ shared = [i \in Slots |-> Garbage]
  /\ shared_in = 0
  /\ shared_out_start = 0
  /\ shared_out_end = 0
  /\ local_queue = [t \in Threads |-> <<>>]
  /\ copy_start = [t \in Threads |-> NotFlushing]

--------------------------------------------------------------------------------
(* SlidingQueue, used by one thread while no buffer is in use.               *)

(* A search begins with one item: push_back, when the array holds in items   *)
(* and the window ends at out_end, and slide_window ...                      *)
PushAndSlide(in, out_end, x) ==
  /\ shared' = [shared EXCEPT ![in] = x]
  /\ shared_in' = in + 1
  /\ shared_out_start' = out_end
  /\ shared_out_end' = in + 1
  /\ UNCHANGED <<local_queue, copy_start>>

push_back_and_slide(x) == PushAndSlide(shared_in, shared_out_end, x)

(* ... after reset if another search has used the queue.                     *)
reset_push_back_and_slide(x) == PushAndSlide(0, 0, x)

slide_window ==
  /\ shared_out_start' = shared_out_end
  /\ shared_out_end' = shared_in
  /\ UNCHANGED <<shared, shared_in, local_queue, copy_start>>

WindowSlots == shared_out_start .. shared_out_end - 1
Window == {shared[i] : i \in WindowSlots}
size == shared_out_end - shared_out_start
empty == shared_out_start = shared_out_end

--------------------------------------------------------------------------------
(* QueueBuffer, used by many threads at once.                                *)

Full(t) == Len(local_queue[t]) = local_size

LocalPush(t, x) ==
  /\ copy_start[t] = NotFlushing
  /\ ~Full(t)
  /\ local_queue' = [local_queue EXCEPT ![t] = Append(@, x)]
  /\ UNCHANGED <<shared, shared_in, shared_out_start, shared_out_end, copy_start>>

(* Faulty variant of Reserve: shared_in is read and not advanced.            *)
ReserveNothing(t) ==
  /\ copy_start[t] = NotFlushing
  /\ copy_start' = [copy_start EXCEPT ![t] = shared_in]
  /\ UNCHANGED <<shared, shared_in, shared_out_start, shared_out_end, local_queue>>

(* The first half of flush(), called by a push into a full buffer and at the *)
(* end of a region: fetch_and_add.                                           *)
Reserve(t) ==
  /\ copy_start[t] = NotFlushing
  /\ copy_start' = [copy_start EXCEPT ![t] = shared_in]
  /\ shared_in' = shared_in + Len(local_queue[t])
  /\ UNCHANGED <<shared, shared_out_start, shared_out_end, local_queue>>

(* The slots a flushing thread has reserved and not written yet.             *)
Reserved(t) ==
  IF copy_start[t] = NotFlushing THEN {}
  ELSE copy_start[t] .. copy_start[t] + Len(local_queue[t]) - 1

(* The second half: std::copy, and the buffer is empty again.                *)
CopyOut(t) ==
  /\ copy_start[t] # NotFlushing
  /\ shared' = [i \in Slots |-> IF i \in Reserved(t)
                                THEN local_queue[t][i - copy_start[t] + 1]
                                ELSE shared[i]]
  /\ local_queue' = [local_queue EXCEPT ![t] = <<>>]
  /\ copy_start' = [copy_start EXCEPT ![t] = NotFlushing]
  /\ UNCHANGED <<shared_in, shared_out_start, shared_out_end>>

--------------------------------------------------------------------------------
(* The slots whose content has been written since the last reset.            *)
Written == (0 .. shared_in - 1) \ UNION {Reserved(t) : t \in Threads}

Buffered == UNION {ToSet(local_queue[t]) : t \in Threads}

--------------------------------------------------------------------------------
(* sliding_queue.h:45,105-106: the array is never written past its end,      *)
(* although neither push_back nor flush looks at its size.                   *)
NeverOverflows == shared_in <= shared_size

(* sliding_queue.h:105-106: two flushes that overlap in time copy to slots   *)
(* of their own, behind the window that the other threads are reading.       *)
FlushesAreDisjoint ==
  \A t \in Threads :
    /\ Reserved(t) \subseteq shared_out_end .. shared_in - 1
    /\ \A u \in Threads \ {t} : Reserved(t) \cap Reserved(u) = {}

(* Every item that was pushed is in one place only: no buffered item is also *)
(* in the array, none is in two buffers and none fills two slots.            *)
NoItemTwice ==
  /\ \A i, j \in Written : shared[i] = shared[j] => i = j
  /\ \A i \in Written : shared[i] \in Items \ Buffered
  /\ \A t \in Threads : IsInjective(local_queue[t])
  /\ \A t, u \in Threads : t # u => ToSet(local_queue[t]) \cap ToSet(local_queue[u]) = {}

(* What was pushed since the last slide, flushed or not.                     *)
Pending == Buffered \cup {shared[i] : i \in Written \ (0 .. shared_out_end - 1)}

================================================================================
