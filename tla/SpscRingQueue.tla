--------------------------- MODULE SpscRingQueue ---------------------------
(***************************************************************************)
(* The ring buffer between the stages of the cache store                   *)
(* (ucm/shared/infra/template/spsc_ring_queue.h), one step per shared      *)
(* memory access.  The header publishes head_ and tail_ with release       *)
(* stores and reads the other side's index with acquire loads, so a slot   *)
(* written before a store of head_ is visible to whoever loads that value: *)
(* interleaving the accesses models it.                                    *)
(*                                                                         *)
(* Producers is the set of threads that call Push or TryPush.  The queue   *)
(* is written for one; Submit of the load and dump queues calls TryPush on *)
(* the thread of its caller, so there may be more.                         *)
(***************************************************************************)
EXTENDS Integers, Sequences, FiniteSets

CONSTANTS Producers,  \* threads that push
          Values,     \* the elements pushed
          Capacity,   \* capacity_: number of slots
          MaxPush,    \* bound: pushes accepted in a behaviour
          Empty       \* what a slot holds before it is first written

ASSUME CapacityAssumption == Capacity \in Nat /\ Capacity > 1
ASSUME MaxPushAssumption == MaxPush \in Nat

VARIABLES head,    \* head_: next slot to write
          tail,    \* tail_: next slot to read
          buffer,  \* buffer_
          ppc,     \* where each producer is in Push / TryPush
          phead,   \* currentHead of each producer
          pval,    \* the value each producer is pushing
          cpc,     \* where the consumer is in ConsumerLoop / TryPop
          cval,    \* the element moved out of the slot
          stop,    \* the stop flag given to ConsumerLoop
          sent,    \* history: the elements whose push succeeded
          got      \* history: the elements the handler received

vars == <<head, tail, buffer, ppc, phead, pval, cpc, cval, stop, sent, got>>
prod == <<ppc, phead, pval>>
cons == <<cpc, cval>>

Slots == 0 .. Capacity - 1

Mod(n) == n % Capacity

Init ==
  /\ head = 0 /\ tail = 0
  /\ buffer = [s \in Slots |-> Empty]
  /\ ppc = [p \in Producers |-> "idle"]
  /\ phead = [p \in Producers |-> 0]
  /\ pval = [p \in Producers |-> Empty]
  /\ cpc = "loop" /\ cval = Empty
  /\ stop = FALSE
  /\ sent = <<>> /\ got = <<>>

----------------------------------------------------------------------------
(* Producer: Push and TryPush differ in what a full queue does.             *)

InFlight == Cardinality({p \in Producers : ppc[p] # "idle"})

(* Entry: head_ is loaded before tail_.  how tells Push from TryPush.       *)
BeginPush(p, v, how) ==
  /\ ppc[p] = "idle"
  /\ Len(sent) + InFlight < MaxPush
  /\ ppc' = [ppc EXCEPT ![p] = how]
  /\ phead' = [phead EXCEPT ![p] = head]
  /\ pval' = [pval EXCEPT ![p] = v]
  /\ UNCHANGED <<head, tail, buffer, cons, stop, sent, got>>

(* Mutant of Full: the check is forgotten.                                  *)
FullIgnored(p) == FALSE
Full(p) == Mod(phead[p] + 1) = tail

(* TryPush: the load of tail_ finds the queue full and the call fails.      *)
TryPushFails(p) ==
  /\ ppc[p] = "try"
  /\ Full(p)
  /\ ppc' = [ppc EXCEPT ![p] = "idle"]
  /\ UNCHANGED <<head, tail, buffer, phead, pval, cons, stop, sent, got>>

(* Push: the queue is full, yield and start over with a fresh load of head_ *)
PushSpins(p) ==
  /\ ppc[p] = "push"
  /\ Full(p)
  /\ phead' = [phead EXCEPT ![p] = head]
  /\ UNCHANGED <<head, tail, buffer, ppc, pval, cons, stop, sent, got>>

FindsRoom(p) ==
  /\ ppc[p] \in {"push", "try"}
  /\ ~Full(p)
  /\ ppc' = [ppc EXCEPT ![p] = "write"]
  /\ UNCHANGED <<head, tail, buffer, phead, pval, cons, stop, sent, got>>

WriteSlot(p) ==
  /\ ppc[p] = "write"
  /\ buffer' = [buffer EXCEPT ![phead[p]] = pval[p]]
  /\ ppc' = [ppc EXCEPT ![p] = "publish"]
  /\ UNCHANGED <<head, tail, phead, pval, cons, stop, sent, got>>

StoreHead(p) ==
  /\ ppc[p] = "publish"
  /\ head' = Mod(phead[p] + 1)
  /\ sent' = Append(sent, pval[p])
  /\ ppc' = [ppc EXCEPT ![p] = "idle"]
  /\ UNCHANGED <<tail, buffer, phead, pval, cons, stop, got>>

----------------------------------------------------------------------------
(* Consumer: ConsumerLoop around TryPop.                                    *)

(* The stop flag is clear: TryPop is called.                                *)
CallsTryPop ==
  /\ cpc = "loop" /\ ~stop
  /\ cpc' = "pop"
  /\ UNCHANGED <<head, tail, buffer, prod, cval, stop, sent, got>>

(* Mutant of Drained: the last element queued is not seen.                  *)
AlmostDrained == head \in {tail, Mod(tail + 1)}
Drained == head = tail

(* TryPop finds nothing; the consumer yields or sleeps and looks at the     *)
(* flag again.                                                              *)
FindsNothing ==
  /\ cpc = "pop" /\ Drained
  /\ cpc' = "loop"
  /\ UNCHANGED <<head, tail, buffer, prod, cval, stop, sent, got>>

FindsElement ==
  /\ cpc = "pop" /\ ~Drained
  /\ cpc' = "read"
  /\ UNCHANGED <<head, tail, buffer, prod, cval, stop, sent, got>>

(* Mutant of ReadSlot: tail_ is stored before the element is moved out.     *)
ReadSlotLate ==
  /\ cpc = "read"
  /\ tail' = Mod(tail + 1)
  /\ cval' = buffer[tail]
  /\ cpc' = "release"
  /\ UNCHANGED <<head, buffer, prod, stop, sent, got>>

ReadSlot ==
  /\ cpc = "read"
  /\ cval' = buffer[tail]
  /\ cpc' = "release"
  /\ UNCHANGED <<head, tail, buffer, prod, stop, sent, got>>

(* The slot is given back, then the handler is invoked with the element.    *)
StoreTail ==
  /\ cpc = "release"
  /\ tail' = Mod(tail + 1)
  /\ got' = Append(got, cval)
  /\ cpc' = "loop"
  /\ UNCHANGED <<head, buffer, prod, cval, stop, sent>>

(* The owning queue's destructor raises stop; whatever is still queued is   *)
(* left there.                                                              *)
Stop ==
  /\ ~stop
  /\ stop' = TRUE
  /\ UNCHANGED <<head, tail, buffer, prod, cons, sent, got>>

ConsumerExits ==
  /\ cpc = "loop" /\ stop
  /\ cpc' = "exited"
  /\ UNCHANGED <<head, tail, buffer, prod, cval, stop, sent, got>>

----------------------------------------------------------------------------
Producer(p) == \/ \E v \in Values, how \in {"push", "try"} : BeginPush(p, v, how)
               \/ TryPushFails(p) \/ PushSpins(p) \/ FindsRoom(p)
               \/ WriteSlot(p) \/ StoreHead(p)

Consumer == CallsTryPop \/ FindsNothing \/ FindsElement \/ ReadSlot \/ StoreTail \/ ConsumerExits

Next == Consumer \/ Stop \/ \E p \in Producers : Producer(p)

Spec == Init /\ [][Next]_vars

(* Both threads run until they are done: a push that has begun goes on, the *)
(* consumer loop goes on.  Nobody has to begin a push or to raise stop.     *)
Fairness == /\ WF_vars(Consumer)
            /\ \A p \in Producers :
                  WF_vars(TryPushFails(p) \/ FindsRoom(p) \/ WriteSlot(p) \/ StoreHead(p))

FairSpec == Spec /\ Fairness

----------------------------------------------------------------------------
(* Properties                                                               *)

TypeOK ==
  /\ head \in Slots /\ tail \in Slots
  /\ buffer \in [Slots -> Values \cup {Empty}]
  /\ ppc \in [Producers -> {"idle", "push", "try", "write", "publish"}]
  /\ phead \in [Producers -> Slots]
  /\ pval \in [Producers -> Values \cup {Empty}]
  /\ cpc \in {"loop", "pop", "read", "release", "exited"}
  /\ cval \in Values \cup {Empty}
  /\ stop \in BOOLEAN
  /\ sent \in Seq(Values)
  /\ got \in Seq(Values)

(* Every element handed to the handler is the next element whose push       *)
(* succeeded: TryPop never returns a stale slot, drops or repeats one.      *)
FifoOrder ==
  /\ Len(got) <= Len(sent)
  /\ \A i \in 1 .. Len(got) : got[i] = sent[i]

(* Push and TryPop never touch the same slot at the same time: the move in  *)
(* and the move out of buffer_ are plain accesses, so that would be a race. *)
NoSlotRace ==
  \A p \in Producers : (ppc[p] = "write" /\ cpc = "read") => phead[p] # tail

(* With one producer, the indices are the numbers of pushes and pops modulo *)
(* the capacity, the slots between them hold exactly the elements still     *)
(* queued, and a producer past its check of tail_ still has a free slot     *)
(* when it writes.                                                          *)
RingInv ==
  /\ head = Mod(Len(sent)) /\ tail = Mod(Len(got))
  /\ Len(got) <= Len(sent) /\ Len(sent) < Len(got) + Capacity
  /\ \A i \in 1 .. Len(got) : got[i] = sent[i]
  /\ \A i \in Len(got) .. Len(sent) - 1 : buffer[Mod(i)] = sent[i + 1]
  /\ cpc \in {"read", "release"} => Len(got) < Len(sent)
  /\ cpc = "release" => cval = sent[Len(got) + 1]
  /\ \A p \in Producers :
       /\ ppc[p] # "idle" => phead[p] = head /\ pval[p] \in Values
       /\ ppc[p] \in {"write", "publish"} => Len(sent) + 1 < Len(got) + Capacity
       /\ ppc[p] = "publish" => buffer[phead[p]] = pval[p]

(* The queue implements a FIFO of Capacity - 1 elements (one slot stays     *)
(* empty so that full and empty differ).                                    *)
Queued == [i \in 1 .. Len(sent) - Len(got) |-> sent[Len(got) + i]]
Fifo == INSTANCE BoundedFifo WITH fifo <- Queued, Depth <- Capacity - 1
RefinesFifo == Fifo!Spec

(* As long as nobody stops the loop, a push that has begun ends, also one   *)
(* that spins on a full queue, and its element reaches the handler.         *)
EveryPushConsumed ==
  /\ \A p \in Producers : (ppc[p] # "idle") ~> (ppc[p] = "idle" \/ stop)
  /\ \A n \in 1 .. MaxPush : (Len(sent) >= n) ~> (Len(got) >= n \/ stop)
=============================================================================
