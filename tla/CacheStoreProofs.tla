-------------------------- MODULE CacheStoreProofs --------------------------
(***************************************************************************)
(* Proofs about the structure of the cache store (CacheStore): where the   *)
(* Handles are, for every scenario and every fault.  A Handle is a shard   *)
(* with the node it pins; the stages of a process pass it on, and a stage  *)
(* that drops it lowers the count of its node.  The count is right because *)
(* no Handle is at two places, and that is so because the stages of a      *)
(* process keep the shards of a task in order.                             *)
(*                                                                         *)
(* What one process holds is described by operators without state, so that *)
(* the lemmas about one queue operation say nothing of the other processes.*)
(***************************************************************************)
EXTENDS CacheStore, Integers, SequenceTheorems, FiniteSetTheorems, TLAPS

Disps == [t : Tasks \cup {None}, i : Nat, out : ShardTasks \cup {None}]
Xfers == [s : ShardTasks, stage : {"wait", "sync"}]
DumpRecs == [t : Tasks \cup {None}, i : Nat, held : SUBSET ShardTasks,
             skip : SUBSET ShardTasks, stage : {"get", "push"}]
Tables == [Nodes -> [key : Keys \cup {NoKey}, ref : Int, st : States]]
TaskStates == {"new", "run", "drain", "ok", "failed", "timeout"}

Rng(q) == {q[i] : i \in 1 .. Len(q)}

----------------------------------------------------------------------------
(* The load side of one process: dispatcher d, queue r, transfer x and h    *)

OutOf(d) == IF d.out = None THEN {} ELSE {d.out}
InOf(x) == IF x = None THEN {} ELSE {x.s}
LoadSet(d, r, x, h) == Rng(r) \cup h \cup OutOf(d) \cup InOf(x)

Less(A, S) == A \ S
But(A, e) == A \ {e}
With(A, e) == A \cup {e}

(* Whatever S and T have of the same task, S has the earlier shards.        *)
Ahead(S, T) == \A s \in S, u \in T : s.t = u.t => s.i < u.i
Ordered(r) == \A j, k \in 1 .. Len(r) : j < k => Ahead({r[j]}, {r[k]})

(* A shard of a task of kind T that process p submitted.                    *)
ShardOf(K, p, T, s) ==
  /\ s \in ShardTasks /\ s.t \in T /\ ProcOf[s.t] = p
  /\ s.i \in 1 .. Len(K[s.t]) /\ s.last = (s.i = Len(K[s.t]))

DispShape(K, p, d) ==
  /\ d \in Disps
  /\ d.t # None => d.t \in Loads /\ ProcOf[d.t] = p /\ d.i \in 1 .. Len(K[d.t])
  /\ d.t = None => d = IdleDisp
  /\ d.out # None => d.out.t = d.t /\ d.out.i = d.i

LoadShape(K, p, d, r, x, h) ==
  /\ DispShape(K, p, d)
  /\ r \in Seq(ShardTasks) /\ x \in Xfers \cup {None} /\ h \in SUBSET ShardTasks
  /\ \A s \in LoadSet(d, r, x, h) : ShardOf(K, p, Loads, s)
  /\ Ahead(Rng(r) \cup h \cup InOf(x), {d})
  /\ Ahead(h, InOf(x)) /\ Ahead(h \cup InOf(x), Rng(r)) /\ Ordered(r)
  /\ x # None => (x.stage = "sync" => x.s.last)

----------------------------------------------------------------------------
(* The dump side: dump thread m, queue q, dumper w and the backend dumps b  *)

LateOf(q, w) == Rng(q) \cup ({w} \ {None})
LateSet(q, w, b) == UNION {b[t].held : t \in LateOf(q, w)}
DumpSet(m, q, w, b) == m.held \cup m.skip \cup LateSet(q, w, b)

MakerShape(K, p, m) ==
  /\ m \in DumpRecs
  /\ m.t = None => m = IdleDump
  /\ m.t # None => m.t \in Dumps /\ ProcOf[m.t] = p /\ m.i \in Nat \ {0}
  /\ \A s \in m.held : ShardOf(K, p, Dumps, s) /\ s.t = m.t /\ s.i < m.i
  /\ \A s \in m.skip : ShardOf(K, p, Dumps, s) /\ s.t = m.t /\ s.i = m.i
  /\ m.skip # {} => m.stage = "get" /\ m.i <= Len(K[m.t])
  /\ m.stage = "push" => m.t # None /\ m.i > Len(K[m.t])

LateShape(K, p, q, w, b) ==
  /\ q \in Seq(Tasks) /\ w \in Tasks \cup {None}
  /\ \A j, k \in 1 .. Len(q) : q[j] = q[k] => j = k
  /\ w \notin Rng(q)
  /\ \A t \in LateOf(q, w) : t \in Dumps /\ ProcOf[t] = p
                             /\ \A s \in b[t].held : ShardOf(K, p, Dumps, s) /\ s.t = t

DumpShape(K, p, m, q, w, b) ==
  /\ MakerShape(K, p, m) /\ LateShape(K, p, q, w, b)
  /\ m.t \notin LateOf(q, w)
  /\ m.stage = "push" => b[m.t].held = m.held

----------------------------------------------------------------------------
(* Lemmas about queues                                                      *)

LEMMA RngAppend ==
  ASSUME NEW S, NEW q \in Seq(S), NEW e \in S
  PROVE  /\ Append(q, e) \in Seq(S) /\ Rng(Append(q, e)) = Rng(q) \cup {e}
         /\ Len(Append(q, e)) = Len(q) + 1 /\ Append(q, e)[Len(q) + 1] = e
         /\ \A j \in 1 .. Len(q) : Append(q, e)[j] = q[j]
<1>1. /\ Append(q, e) \in Seq(S) /\ Len(Append(q, e)) = Len(q) + 1
      /\ Append(q, e)[Len(q) + 1] = e /\ \A j \in 1 .. Len(q) : Append(q, e)[j] = q[j]
  BY AppendProperties
<1>2. Len(q) \in Nat
  BY LenProperties
<1>3. Rng(Append(q, e)) = Rng(q) \cup {e}
  <2>1. ASSUME NEW y \in Rng(Append(q, e))  PROVE y \in Rng(q) \cup {e}
    <3>1. PICK j \in 1 .. Len(q) + 1 : y = Append(q, e)[j]
      BY <1>1 DEF Rng
    <3>2. CASE j = Len(q) + 1
      BY <3>1, <3>2, <1>1
    <3>3. CASE j \in 1 .. Len(q)
      BY <3>1, <3>3, <1>1 DEF Rng
    <3> QED BY <3>2, <3>3, <1>2
  <2>2. ASSUME NEW y \in Rng(q)  PROVE y \in Rng(Append(q, e))
    <3>1. PICK j \in 1 .. Len(q) : y = q[j]
      BY DEF Rng
    <3>2. j \in 1 .. Len(q) + 1 /\ y = Append(q, e)[j]
      BY <3>1, <1>1, <1>2
    <3> QED BY <3>2, <1>1 DEF Rng
  <2>3. e \in Rng(Append(q, e))
    <3>1. Len(q) + 1 \in 1 .. Len(q) + 1
      BY <1>2
    <3> QED BY <3>1, <1>1 DEF Rng
  <2> QED BY <2>1, <2>2, <2>3
<1> QED BY <1>1, <1>3

LEMMA RngTail ==
  ASSUME NEW S, NEW q \in Seq(S), q # <<>>
  PROVE  /\ Head(q) \in S /\ Tail(q) \in Seq(S) /\ Rng(q) = {Head(q)} \cup Rng(Tail(q))
         /\ Len(q) \in Nat \ {0} /\ Len(Tail(q)) = Len(q) - 1 /\ Head(q) = q[1]
         /\ \A j \in 1 .. Len(q) - 1 : Tail(q)[j] = q[j + 1]
<1>1. /\ Head(q) \in S /\ Tail(q) \in Seq(S) /\ Head(q) = q[1]
      /\ Len(q) \in Nat \ {0} /\ Len(Tail(q)) = Len(q) - 1
      /\ \A j \in 1 .. Len(q) - 1 : Tail(q)[j] = q[j + 1]
  BY HeadTailProperties, EmptySeq, LenProperties
<1>2. ASSUME NEW y \in Rng(q)  PROVE y \in {Head(q)} \cup Rng(Tail(q))
  <2>1. PICK j \in 1 .. Len(q) : y = q[j]
    BY DEF Rng
  <2>2. CASE j = 1
    BY <2>1, <2>2, <1>1
  <2>3. CASE j # 1
    <3>1. j - 1 \in 1 .. Len(q) - 1 /\ (j - 1) + 1 = j
      BY <2>3, <1>1
    <3>2. y = Tail(q)[j - 1]
      BY <2>1, <3>1, <1>1
    <3> QED BY <3>1, <3>2, <1>1 DEF Rng
  <2> QED BY <2>2, <2>3
<1>3. ASSUME NEW y \in Rng(Tail(q))  PROVE y \in Rng(q)
  <2>1. PICK j \in 1 .. Len(q) - 1 : y = Tail(q)[j]
    BY <1>1 DEF Rng
  <2>2. j + 1 \in 1 .. Len(q) /\ y = q[j + 1]
    BY <2>1, <1>1
  <2> QED BY <2>2 DEF Rng
<1>4. Head(q) \in Rng(q)
  <2>1. 1 \in 1 .. Len(q)
    BY <1>1
  <2> QED BY <2>1, <1>1 DEF Rng
<1> QED BY <1>1, <1>2, <1>3, <1>4

(* A queue without repetitions stays one.                                   *)
Distinct(q) == \A j, k \in 1 .. Len(q) : q[j] = q[k] => j = k

LEMMA DistinctAppend ==
  ASSUME NEW S, NEW q \in Seq(S), NEW e \in S, Distinct(q), e \notin Rng(q)
  PROVE  Distinct(Append(q, e))
<1>1. Len(q) \in Nat
  BY LenProperties
<1> QED BY <1>1, RngAppend DEF Distinct, Rng

LEMMA DistinctTail ==
  ASSUME NEW S, NEW q \in Seq(S), q # <<>>, Distinct(q)
  PROVE  Distinct(Tail(q)) /\ Head(q) \notin Rng(Tail(q))
<1>1. Distinct(Tail(q))
  <2> SUFFICES ASSUME NEW j \in 1 .. Len(Tail(q)), NEW k \in 1 .. Len(Tail(q)), Tail(q)[j] = Tail(q)[k]
               PROVE  j = k
    BY DEF Distinct
  <2>1. /\ j \in 1 .. Len(q) - 1 /\ k \in 1 .. Len(q) - 1 /\ q[j + 1] = q[k + 1]
        /\ j + 1 \in 1 .. Len(q) /\ k + 1 \in 1 .. Len(q)
    BY RngTail
  <2>2. j + 1 = k + 1
    BY <2>1 DEF Distinct
  <2> QED BY <2>1, <2>2
<1>2. ASSUME Head(q) \in Rng(Tail(q))  PROVE FALSE
  <2>1. PICK j \in 1 .. Len(Tail(q)) : Head(q) = Tail(q)[j]
    BY <1>2 DEF Rng
  <2>2. j + 1 \in 1 .. Len(q) /\ 1 \in 1 .. Len(q) /\ q[1] = q[j + 1] /\ j \in Nat /\ j + 1 # 1
    BY <2>1, RngTail
  <2> QED BY <2>2 DEF Distinct
<1> QED BY <1>1, <1>2

LEMMA OrderedAppend ==
  ASSUME NEW S, NEW q \in Seq(S), NEW e \in S, Ordered(q), Ahead(Rng(q), {e})
  PROVE  Ordered(Append(q, e))
<1>1. Len(q) \in Nat
  BY LenProperties
<1> SUFFICES ASSUME NEW j \in 1 .. Len(q) + 1, NEW k \in 1 .. Len(q) + 1, j < k
             PROVE  Ahead({Append(q, e)[j]}, {Append(q, e)[k]})
  BY RngAppend DEF Ordered
<1>2. j \in 1 .. Len(q) /\ Append(q, e)[j] = q[j]
  BY <1>1, RngAppend
<1>3. CASE k = Len(q) + 1
  BY <1>2, <1>3, RngAppend DEF Ahead, Rng
<1>4. CASE k \in 1 .. Len(q)
  BY <1>2, <1>4, RngAppend DEF Ordered
<1>5. k = Len(q) + 1 \/ k \in 1 .. Len(q)
  BY <1>1
<1> QED BY <1>3, <1>4, <1>5

LEMMA OrderedTail ==
  ASSUME NEW S, NEW q \in Seq(S), q # <<>>, Ordered(q)
  PROVE  Ordered(Tail(q)) /\ Ahead({Head(q)}, Rng(Tail(q)))
<1>1. Ordered(Tail(q))
  <2> SUFFICES ASSUME NEW j \in 1 .. Len(Tail(q)), NEW k \in 1 .. Len(Tail(q)), j < k
               PROVE  Ahead({Tail(q)[j]}, {Tail(q)[k]})
    BY DEF Ordered
  <2>1. /\ Tail(q)[j] = q[j + 1] /\ Tail(q)[k] = q[k + 1]
        /\ j + 1 \in 1 .. Len(q) /\ k + 1 \in 1 .. Len(q) /\ j + 1 < k + 1
    BY RngTail
  <2> QED BY <2>1 DEF Ordered
<1>2. Ahead({Head(q)}, Rng(Tail(q)))
  <2> SUFFICES ASSUME NEW u \in Rng(Tail(q))  PROVE Ahead({Head(q)}, {u})
    BY DEF Ahead
  <2>1. PICK j \in 1 .. Len(Tail(q)) : u = Tail(q)[j]
    BY DEF Rng
  <2>2. j + 1 \in 1 .. Len(q) /\ 1 \in 1 .. Len(q) /\ u = q[j + 1] /\ Head(q) = q[1] /\ 1 < j + 1
    BY <2>1, RngTail
  <2> QED BY <2>2 DEF Ordered
<1> QED BY <1>1, <1>2

----------------------------------------------------------------------------
(* What each stage does to the load side of its process                     *)

LEMMA NoneIsNothing ==
  None \notin Tasks /\ None \notin ShardTasks /\ None \notin Xfers /\ None \notin Nodes
BY StoreAssumption DEF Xfers

(* The dispatcher starts a task none of whose shards is around.             *)
LEMMA LoadStart ==
  ASSUME NEW K, NEW p, NEW r, NEW x, NEW h, LoadShape(K, p, IdleDisp, r, x, h),
         NEW t \in Loads, ProcOf[t] = p, 1 \in 1 .. Len(K[t]),
         \A s \in LoadSet(IdleDisp, r, x, h) : s.t # t
  PROVE  LET d == [IdleDisp EXCEPT !.t = t]
         IN  LoadShape(K, p, d, r, x, h) /\ LoadSet(d, r, x, h) = LoadSet(IdleDisp, r, x, h)
<1> DEFINE d == [IdleDisp EXCEPT !.t = t]
<1>1. d = [t |-> t, i |-> 1, out |-> None] /\ t # None
  BY NoneIsNothing DEF IdleDisp, Tasks
<1>2. DispShape(K, p, d)
  BY <1>1 DEF DispShape, Disps, Tasks
<1>3. LoadSet(d, r, x, h) = LoadSet(IdleDisp, r, x, h)
  BY <1>1 DEF LoadSet, OutOf, IdleDisp
<1>4. Ahead(Rng(r) \cup h \cup InOf(x), {d})
  BY <1>1 DEF LoadSet, Ahead
<1> QED BY <1>2, <1>3, <1>4 DEF LoadShape

(* It gives up its task.                                                    *)
LEMMA LoadIdle ==
  ASSUME NEW K, NEW p, NEW d, NEW r, NEW x, NEW h, LoadShape(K, p, d, r, x, h), d.out = None
  PROVE  LoadShape(K, p, IdleDisp, r, x, h) /\ LoadSet(IdleDisp, r, x, h) = LoadSet(d, r, x, h)
<1>1. DispShape(K, p, IdleDisp)
  BY DEF DispShape, IdleDisp, Disps
<1>2. LoadSet(IdleDisp, r, x, h) = LoadSet(d, r, x, h)
  BY DEF LoadSet, OutOf, IdleDisp
<1>3. Ahead(Rng(r) \cup h \cup InOf(x), {IdleDisp})
  <2>1. \A s \in Rng(r) \cup h \cup InOf(x) : s.t \in Tasks
    BY DEF LoadShape, LoadSet, ShardOf, Tasks
  <2> QED BY <2>1, NoneIsNothing DEF Ahead, IdleDisp
<1> QED BY <1>1, <1>2, <1>3 DEF LoadShape

(* It gets a node for the next shard.                                       *)
LEMMA LoadGet ==
  ASSUME NEW K, NEW p, NEW d, NEW r, NEW x, NEW h, LoadShape(K, p, d, r, x, h),
         d.t # None, d.out = None,
         NEW s \in ShardTasks, s.t = d.t, s.i = d.i, s.last = (s.i = Len(K[s.t]))
  PROVE  LET e == [d EXCEPT !.out = s]
         IN  /\ LoadShape(K, p, e, r, x, h)
             /\ s \notin LoadSet(d, r, x, h) /\ LoadSet(e, r, x, h) = LoadSet(d, r, x, h) \cup {s}
<1> DEFINE e == [d EXCEPT !.out = s]
<1>1. d \in Disps /\ d.t \in Loads /\ ProcOf[d.t] = p /\ d.i \in 1 .. Len(K[d.t])
  BY DEF LoadShape, DispShape
<1>2. e \in Disps /\ e.t = d.t /\ e.i = d.i /\ e.out = s /\ s # None
  BY <1>1, NoneIsNothing DEF Disps
<1>3. DispShape(K, p, e)
  BY <1>1, <1>2 DEF DispShape
<1>4. ShardOf(K, p, Loads, s)
  BY <1>1 DEF ShardOf
<1>5. LoadSet(e, r, x, h) = LoadSet(d, r, x, h) \cup {s}
  BY <1>2 DEF LoadSet, OutOf
<1>6. Ahead(Rng(r) \cup h \cup InOf(x), {e})
  BY <1>2 DEF LoadShape, Ahead
<1>7. s \notin LoadSet(d, r, x, h)
  <2>1. LoadSet(d, r, x, h) = Rng(r) \cup h \cup InOf(x)
    BY DEF LoadSet, OutOf
  <2>2. s.i \in Nat /\ ~(s.i < d.i)
    BY DEF ShardTasks
  <2> QED BY <2>1, <2>2 DEF LoadShape, Ahead
<1>8. LoadShape(K, p, e, r, x, h)
  BY <1>3, <1>4, <1>5, <1>6 DEF LoadShape
<1> QED BY <1>5, <1>7, <1>8

LEMMA DispFields ==
  ASSUME NEW d \in Disps
  PROVE  /\ [d EXCEPT !.i = @ + 1, !.out = None] \in Disps
         /\ [d EXCEPT !.i = @ + 1, !.out = None].t = d.t
         /\ [d EXCEPT !.i = @ + 1, !.out = None].i = d.i + 1
         /\ [d EXCEPT !.i = @ + 1, !.out = None].out = None
<1> DEFINE B == ShardTasks \cup {None}
           A == Tasks \cup {None}
<1>1. None \in B /\ d \in [t : A, i : Nat, out : B] /\ Disps = [t : A, i : Nat, out : B]
  BY DEF Disps
<1>2. PICK y \in Nat : y = d.i + 1
  BY <1>1
<1>3. [d EXCEPT !.i = @ + 1, !.out = None] = [d EXCEPT !.i = y, !.out = None]
  BY <1>2
<1> HIDE DEF A, B
<1>4. [d EXCEPT !.i = y, !.out = None] \in Disps
  BY <1>1
<1>5. /\ [d EXCEPT !.i = y, !.out = None].t = d.t
      /\ [d EXCEPT !.i = y, !.out = None].i = y
      /\ [d EXCEPT !.i = y, !.out = None].out = None
  BY <1>1
<1> QED BY <1>2, <1>3, <1>4, <1>5

(* It hands the shard on and turns to the next one, if there is one.        *)
AfterPush(d) == IF d.out.last THEN IdleDisp ELSE [d EXCEPT !.i = @ + 1, !.out = None]
LEMMA LoadPush ==
  ASSUME NEW K, NEW p, NEW d, NEW r, NEW x, NEW h, LoadShape(K, p, d, r, x, h), d.out # None
  PROVE  /\ LoadShape(K, p, AfterPush(d), Append(r, d.out), x, h)
         /\ LoadSet(AfterPush(d), Append(r, d.out), x, h) = LoadSet(d, r, x, h)
         /\ AfterPush(d).t \in {d.t, None}
<1> DEFINE s == d.out
           e == IF s.last THEN IdleDisp ELSE [d EXCEPT !.i = @ + 1, !.out = None]
           q == Append(r, s)
<1>0. d \in Disps /\ s.t = d.t /\ s.i = d.i /\ r \in Seq(ShardTasks)
  BY DEF LoadShape, DispShape
<1>1. ShardOf(K, p, Loads, s)
  BY DEF LoadShape, LoadSet, OutOf
<1>2. d.t # None /\ d.t \in Loads /\ ProcOf[d.t] = p /\ d.i \in 1 .. Len(K[d.t])
  BY <1>0, <1>1, NoneIsNothing DEF ShardOf, Tasks, LoadShape, DispShape
<1>3. q \in Seq(ShardTasks) /\ Rng(q) = Rng(r) \cup {s}
  BY <1>0, <1>1, RngAppend DEF ShardOf
<1>4. e.out = None /\ OutOf(d) = {s} /\ OutOf(e) = {}
  BY <1>0 DEF IdleDisp, OutOf, Disps
<1>5. LoadSet(e, q, x, h) = LoadSet(d, r, x, h)
  BY <1>3, <1>4 DEF LoadSet
<1>6. \A u \in Rng(q) \cup h \cup InOf(x) : ShardOf(K, p, Loads, u)
  BY <1>3, <1>1 DEF LoadShape, LoadSet
<1>7. Ahead(Rng(r) \cup h \cup InOf(x), {s})
  BY <1>0 DEF LoadShape, Ahead
<1>8. DispShape(K, p, e) /\ Ahead(Rng(q) \cup h \cup InOf(x), {e})
  <2>1. CASE s.last
    <3>1. DispShape(K, p, IdleDisp)
      BY DEF DispShape, IdleDisp, Disps
    <3>2. \A u \in Rng(q) \cup h \cup InOf(x) : u.t \in Tasks
      BY <1>6 DEF ShardOf, Tasks
    <3> QED BY <2>1, <3>1, <3>2, NoneIsNothing DEF Ahead, IdleDisp
  <2>2. CASE ~s.last
    <3>0. e = [d EXCEPT !.i = @ + 1, !.out = None]
      BY <2>2
    <3>1. e \in Disps /\ e.t = d.t /\ e.i = d.i + 1
      <4>1. [d EXCEPT !.i = @ + 1, !.out = None] \in Disps
        BY <1>0, DispFields
      <4>2. /\ [d EXCEPT !.i = @ + 1, !.out = None].t = d.t
            /\ [d EXCEPT !.i = @ + 1, !.out = None].i = d.i + 1
        BY <1>0, DispFields
      <4> HIDE DEF e
      <4> QED BY <3>0, <4>1, <4>2
    <3>2. d.i # Len(K[d.t])
      BY <2>2, <1>0, <1>1 DEF ShardOf
    <3>3. d.i + 1 \in 1 .. Len(K[d.t])
      BY <3>2, <1>2
    <3>4. DispShape(K, p, e)
      BY <3>1, <3>3, <1>2, <1>4 DEF DispShape
    <3>5. \A u \in Rng(q) \cup h \cup InOf(x) : u.i \in Nat /\ (u.t = d.t => u.i <= d.i)
      <4> SUFFICES ASSUME NEW u \in Rng(q) \cup h \cup InOf(x)
                   PROVE  u.i \in Nat /\ (u.t = d.t => u.i <= d.i)
        OBVIOUS
      <4>1. u.i \in Nat
        BY <1>6 DEF ShardOf, ShardTasks
      <4>2. u = s \/ u \in Rng(r) \cup h \cup InOf(x)
        BY <1>3
      <4>3. u.t = d.t => u = s \/ u.i < d.i
        BY <4>2, <1>7, <1>0 DEF Ahead
      <4> QED BY <4>1, <4>3, <1>0, <1>2
    <3> QED BY <3>1, <3>4, <3>5, <1>2 DEF Ahead
  <2> QED BY <2>1, <2>2
<1>9. Ahead(h \cup InOf(x), Rng(q)) /\ Ordered(q)
  <2>1. Ahead(h \cup InOf(x), Rng(q))
    BY <1>3, <1>7 DEF LoadShape, Ahead
  <2>2. Ahead(Rng(r), {s}) /\ Ordered(r) /\ s \in ShardTasks
    BY <1>7, <1>1 DEF LoadShape, Ahead, ShardOf
  <2> QED BY <2>1, <2>2, <1>0, OrderedAppend
<1>10. e = AfterPush(d) /\ e.t \in {d.t, None}
  BY <1>0, DispFields DEF AfterPush, IdleDisp
<1>11. LoadShape(K, p, e, q, x, h)
  <2> HIDE DEF e, q
  <2> QED BY <1>3, <1>5, <1>8, <1>9 DEF LoadShape
<1> HIDE DEF e
<1> QED BY <1>5, <1>10, <1>11

(* The transfer thread takes the next shard.                                *)
LEMMA LoadTake ==
  ASSUME NEW K, NEW p, NEW d, NEW r, NEW h, LoadShape(K, p, d, r, None, h), r # <<>>
  PROVE  LET x == [s |-> Head(r), stage |-> "wait"]
         IN  /\ LoadShape(K, p, d, Tail(r), x, h)
             /\ LoadSet(d, Tail(r), x, h) = LoadSet(d, r, None, h)
<1> DEFINE s == Head(r)
           x == [s |-> s, stage |-> "wait"]
<1>1. r \in Seq(ShardTasks) /\ Ordered(r)
  BY DEF LoadShape
<1>2. s \in ShardTasks /\ Tail(r) \in Seq(ShardTasks) /\ Rng(r) = {s} \cup Rng(Tail(r))
  BY <1>1, RngTail
<1>3. Ordered(Tail(r)) /\ Ahead({s}, Rng(Tail(r)))
  BY <1>1, OrderedTail
<1>4. x \in Xfers /\ x # None /\ InOf(x) = {s} /\ InOf(None) = {} /\ x.stage # "sync"
  BY <1>2, NoneIsNothing DEF Xfers, InOf
<1>5. LoadSet(d, Tail(r), x, h) = LoadSet(d, r, None, h)
  BY <1>2, <1>4 DEF LoadSet
<1>6. Ahead(Rng(Tail(r)) \cup h \cup InOf(x), {d})
  BY <1>2, <1>4 DEF LoadShape, Ahead
<1>7. Ahead(h, InOf(x)) /\ Ahead(h \cup InOf(x), Rng(Tail(r)))
  BY <1>2, <1>3, <1>4 DEF LoadShape, Ahead
<1> QED BY <1>2, <1>3, <1>4, <1>5, <1>6, <1>7 DEF LoadShape

(* It drops the next shard.                                                 *)
LEMMA LoadSkip ==
  ASSUME NEW K, NEW p, NEW d, NEW r, NEW h, LoadShape(K, p, d, r, None, h), r # <<>>
  PROVE  /\ LoadShape(K, p, d, Tail(r), None, h) /\ Head(r) \in LoadSet(d, r, None, h)
         /\ LoadSet(d, Tail(r), None, h) = But(LoadSet(d, r, None, h), Head(r))
<1> DEFINE s == Head(r)
<1>1. r \in Seq(ShardTasks) /\ Ordered(r)
  BY DEF LoadShape
<1>2. s \in ShardTasks /\ Tail(r) \in Seq(ShardTasks) /\ Rng(r) = {s} \cup Rng(Tail(r))
  BY <1>1, RngTail
<1>3. Ordered(Tail(r)) /\ Ahead({s}, Rng(Tail(r)))
  BY <1>1, OrderedTail
<1>4. s.i \in Nat /\ ~(s.i < s.i)
  BY <1>2 DEF ShardTasks
<1>5. s \notin Rng(Tail(r)) /\ s \notin h
  BY <1>2, <1>3, <1>4 DEF Ahead, LoadShape
<1>6. s \notin OutOf(d)
  <2>1. d.out # None => d.out.t = d.t /\ d.out.i = d.i
    BY DEF LoadShape, DispShape
  <2>2. s.t = d.t => s.i < d.i
    BY <1>2 DEF LoadShape, Ahead
  <2> QED BY <2>1, <2>2, <1>4 DEF OutOf
<1>7. LoadSet(d, Tail(r), None, h) = LoadSet(d, r, None, h) \ {s}
  BY <1>2, <1>5, <1>6 DEF LoadSet, InOf
<1>8. LoadShape(K, p, d, Tail(r), None, h)
  BY <1>2, <1>3, <1>7 DEF LoadShape, Ahead
<1> QED BY <1>2, <1>7, <1>8 DEF LoadSet, But

(* It clears holder_.                                                       *)
LEMMA LoadClear ==
  ASSUME NEW K, NEW p, NEW d, NEW r, NEW x, NEW h, LoadShape(K, p, d, r, x, h)
  PROVE  /\ LoadShape(K, p, d, r, x, {}) /\ h \in SUBSET LoadSet(d, r, x, h)
         /\ LoadSet(d, r, x, {}) = Less(LoadSet(d, r, x, h), h)
<1>1. \A s \in h : s.i \in Nat /\ ~(s.i < s.i)
  BY DEF LoadShape, ShardTasks
<1>2. \A s \in h : s \notin Rng(r) /\ s \notin InOf(x)
  BY <1>1 DEF LoadShape, Ahead
<1>3. \A s \in h : s \notin OutOf(d)
  <2>1. d.out # None => d.out.t = d.t /\ d.out.i = d.i
    BY DEF LoadShape, DispShape
  <2>2. \A s \in h : s.t = d.t => s.i < d.i
    BY DEF LoadShape, Ahead
  <2> QED BY <2>1, <2>2, <1>1 DEF OutOf
<1>4. LoadSet(d, r, x, {}) = LoadSet(d, r, x, h) \ h
  BY <1>2, <1>3 DEF LoadSet
<1>5. LoadShape(K, p, d, r, x, {})
  BY <1>4 DEF LoadShape, Ahead
<1> QED BY <1>4, <1>5 DEF LoadSet, Less

(* It is done with its shard: the shard goes to holder_ or is dropped.      *)
LEMMA LoadLeave ==
  ASSUME NEW K, NEW p, NEW d, NEW r, NEW x, NEW h, LoadShape(K, p, d, r, x, h), x # None
  PROVE  /\ x \in Xfers /\ x.s \in LoadSet(d, r, x, h)
         /\ LoadShape(K, p, d, r, None, With(h, x.s))
         /\ LoadSet(d, r, None, With(h, x.s)) = LoadSet(d, r, x, h)
         /\ LoadShape(K, p, d, r, None, h)
         /\ LoadSet(d, r, None, h) = But(LoadSet(d, r, x, h), x.s)
<1> DEFINE s == x.s
<1>1. x \in Xfers /\ s \in ShardTasks /\ InOf(x) = {s} /\ InOf(None) = {}
  BY DEF LoadShape, Xfers, InOf
<1>2. LoadSet(d, r, None, h \cup {s}) = LoadSet(d, r, x, h)
  BY <1>1 DEF LoadSet
<1>3. LoadShape(K, p, d, r, None, h \cup {s})
  BY <1>1, <1>2 DEF LoadShape, Ahead
<1>4. s.i \in Nat /\ ~(s.i < s.i)
  BY <1>1 DEF ShardTasks
<1>5. s \notin Rng(r) /\ s \notin h
  BY <1>1, <1>4 DEF LoadShape, Ahead
<1>6. s \notin OutOf(d)
  <2>1. d.out # None => d.out.t = d.t /\ d.out.i = d.i
    BY DEF LoadShape, DispShape
  <2>2. s.t = d.t => s.i < d.i
    BY <1>1 DEF LoadShape, Ahead
  <2> QED BY <2>1, <2>2, <1>4 DEF OutOf
<1>7. LoadSet(d, r, None, h) = LoadSet(d, r, x, h) \ {s}
  BY <1>1, <1>5, <1>6 DEF LoadSet
<1>8. LoadShape(K, p, d, r, None, h)
  BY <1>1, <1>7 DEF LoadShape, Ahead
<1> QED BY <1>1, <1>2, <1>3, <1>7, <1>8 DEF LoadSet, But, With

(* It goes on to Synchronize with the last shard of a task.                 *)
LEMMA LoadSync ==
  ASSUME NEW K, NEW p, NEW d, NEW r, NEW x, NEW h, LoadShape(K, p, d, r, x, h), x # None, x.s.last
  PROVE  LET y == [x EXCEPT !.stage = "sync"]
         IN  LoadShape(K, p, d, r, y, h) /\ LoadSet(d, r, y, h) = LoadSet(d, r, x, h)
<1> DEFINE y == [x EXCEPT !.stage = "sync"]
<1>1. x \in Xfers
  BY DEF LoadShape
<1>2. y \in Xfers /\ y.s = x.s /\ y # None /\ InOf(y) = InOf(x)
  BY <1>1, NoneIsNothing DEF Xfers, InOf
<1>3. LoadSet(d, r, y, h) = LoadSet(d, r, x, h)
  BY <1>2 DEF LoadSet
<1> QED BY <1>2, <1>3 DEF LoadShape

----------------------------------------------------------------------------
(* What each stage does to the dump side of its process                     *)

(* The next shard of a dump can be told from all that the process holds.    *)
LEMMA NextIsNew ==
  ASSUME NEW K, NEW p, NEW m, NEW q, NEW w, NEW b, DumpShape(K, p, m, q, w, b),
         NEW s \in ShardTasks, s.t = m.t, s.i = m.i
  PROVE  s \notin m.held /\ s \notin LateSet(q, w, b)
<1>1. s.i \in Nat /\ ~(s.i < s.i)
  BY DEF ShardTasks
<1>2. s \notin m.held
  BY <1>1 DEF DumpShape, MakerShape
<1>3. s \notin LateSet(q, w, b)
  BY DEF LateSet, DumpShape, LateShape
<1> QED BY <1>2, <1>3

LEMMA HeldIsApart ==
  ASSUME NEW K, NEW p, NEW m, NEW q, NEW w, NEW b, DumpShape(K, p, m, q, w, b)
  PROVE  m.held \cap LateSet(q, w, b) = {} /\ m.skip \cap (m.held \cup LateSet(q, w, b)) = {}
<1>1. \A s \in m.held \cup m.skip : s.t = m.t
  BY DEF DumpShape, MakerShape
<1>2. \A s \in LateSet(q, w, b) : s.t # m.t
  BY DEF LateSet, DumpShape, LateShape
<1>3. \A s \in m.skip : s \notin m.held
  BY NextIsNew DEF DumpShape, MakerShape, ShardOf
<1> QED BY <1>1, <1>2, <1>3

LEMMA DumpStart ==
  ASSUME NEW K, NEW p, NEW q, NEW w, NEW b, DumpShape(K, p, IdleDump, q, w, b),
         NEW t \in Dumps, ProcOf[t] = p, t \notin LateOf(q, w)
  PROVE  LET n == [IdleDump EXCEPT !.t = t]
         IN  DumpShape(K, p, n, q, w, b) /\ DumpSet(n, q, w, b) = DumpSet(IdleDump, q, w, b)
<1> DEFINE n == [IdleDump EXCEPT !.t = t]
<1>1. n = [t |-> t, i |-> 1, held |-> {}, skip |-> {}, stage |-> "get"] /\ t # None
  BY NoneIsNothing DEF IdleDump, Tasks
<1>2. MakerShape(K, p, n)
  BY <1>1 DEF MakerShape, DumpRecs, Tasks
<1> QED BY <1>1, <1>2 DEF DumpShape, DumpSet, IdleDump

(* What the dump thread makes of its record: it skips a shard, is done with *)
(* it, or holds it.                                                         *)
Skipping(m, s) == [m EXCEPT !.skip = {s}]
Skipped(m) == [m EXCEPT !.skip = {}, !.i = @ + 1]
Holding(m, s) == [m EXCEPT !.i = @ + 1, !.held = @ \cup {s}]

LEMMA DumpBusy ==
  ASSUME NEW K, NEW p, NEW m, NEW q, NEW w, NEW b, DumpShape(K, p, m, q, w, b),
         m.t # None, m.skip = {}, m.i <= Len(K[m.t]),
         NEW s, ShardOf(K, p, Dumps, s), s.t = m.t, s.i = m.i
  PROVE  LET n == Skipping(m, s)
         IN  /\ DumpShape(K, p, n, q, w, b)
             /\ s \notin DumpSet(m, q, w, b) /\ DumpSet(n, q, w, b) = With(DumpSet(m, q, w, b), s)
<1> DEFINE n == [m EXCEPT !.skip = {s}]
<1>1. m \in DumpRecs /\ s \in ShardTasks
  BY DEF DumpShape, MakerShape, ShardOf
<1>2. n \in DumpRecs /\ n.t = m.t /\ n.i = m.i /\ n.held = m.held /\ n.skip = {s} /\ n.stage = m.stage
  BY <1>1 DEF DumpRecs
<1>3. m.stage = "get"
  <2>1. m.t \in Dumps /\ m.i \in Nat /\ m.stage \in {"get", "push"}
    BY <1>1 DEF DumpShape, MakerShape, DumpRecs
  <2>2. m.i = s.i /\ s.i \in 1 .. Len(K[m.t])
    BY DEF ShardOf
  <2> QED BY <2>1, <2>2 DEF DumpShape, MakerShape
<1> HIDE DEF n
<1>4. MakerShape(K, p, n)
  BY <1>2, <1>3, NoneIsNothing DEF DumpShape, MakerShape
<1>5. DumpShape(K, p, n, q, w, b)
  BY <1>2, <1>4 DEF DumpShape
<1> QED BY <1>1, <1>2, <1>5, NextIsNew DEF DumpSet, n, Skipping, With

LEMMA DumpAdvance ==
  ASSUME NEW m \in DumpRecs, NEW S \in SUBSET ShardTasks
  PROVE  /\ LET n == [m EXCEPT !.skip = {}, !.i = @ + 1]
            IN  /\ n \in DumpRecs /\ n.t = m.t /\ n.i = m.i + 1 /\ n.held = m.held
                /\ n.skip = {} /\ n.stage = m.stage
         /\ LET n == [m EXCEPT !.i = @ + 1, !.held = @ \cup S]
            IN  /\ n \in DumpRecs /\ n.t = m.t /\ n.i = m.i + 1 /\ n.held = m.held \cup S
                /\ n.skip = m.skip /\ n.stage = m.stage
<1> DEFINE H == SUBSET ShardTasks
           A == Tasks \cup {None}
<1>1. /\ {} \in H /\ DumpRecs = [t : A, i : Nat, held : H, skip : H, stage : {"get", "push"}]
      /\ m \in [t : A, i : Nat, held : H, skip : H, stage : {"get", "push"}]
  BY DEF DumpRecs
<1>2. PICK y \in Nat : y = m.i + 1
  BY <1>1
<1>3. PICK G \in H : G = m.held \cup S
  BY <1>1
<1>4. /\ [m EXCEPT !.skip = {}, !.i = @ + 1] = [m EXCEPT !.skip = {}, !.i = y]
      /\ [m EXCEPT !.i = @ + 1, !.held = @ \cup S] = [m EXCEPT !.i = y, !.held = G]
  BY <1>2, <1>3
<1> HIDE DEF A, H
<1>5. [m EXCEPT !.skip = {}, !.i = y] \in DumpRecs /\ [m EXCEPT !.i = y, !.held = G] \in DumpRecs
  BY <1>1
<1>6. LET n == [m EXCEPT !.skip = {}, !.i = y]
      IN  n.t = m.t /\ n.i = y /\ n.held = m.held /\ n.skip = {} /\ n.stage = m.stage
  BY <1>1
<1>7. LET n == [m EXCEPT !.i = y, !.held = G]
      IN  n.t = m.t /\ n.i = y /\ n.held = G /\ n.skip = m.skip /\ n.stage = m.stage
  BY <1>1
<1> QED BY <1>2, <1>3, <1>4, <1>5, <1>6, <1>7

LEMMA DumpSkip ==
  ASSUME NEW K, NEW p, NEW m, NEW q, NEW w, NEW b, DumpShape(K, p, m, q, w, b),
         NEW n, n = Skipped(m), NEW S, S = m.skip, S # {}
  PROVE  /\ DumpShape(K, p, n, q, w, b) /\ S \in SUBSET DumpSet(m, q, w, b)
<1>1. m \in DumpRecs
  BY DEF DumpShape, MakerShape
<1>2. n \in DumpRecs /\ n.t = m.t /\ n.i = m.i + 1 /\ n.held = m.held /\ n.skip = {} /\ n.stage = m.stage
  BY <1>1, DumpAdvance DEF Skipped
<1>3. m.t # None /\ m.stage = "get"
  BY DEF DumpShape, MakerShape, IdleDump
<1>4. \A s \in m.held : s.i \in Nat /\ m.i \in Nat /\ (s.i < m.i => s.i < m.i + 1)
  BY <1>1 DEF DumpRecs, ShardTasks
<1>5. m.i \in Nat \ {0} => m.i + 1 \in Nat \ {0}
  OBVIOUS
<1>6. MakerShape(K, p, n)
  BY <1>2, <1>3, <1>4, <1>5 DEF DumpShape, MakerShape
<1>7. DumpShape(K, p, n, q, w, b)
  BY <1>2, <1>3, <1>6 DEF DumpShape
<1> QED BY <1>7 DEF DumpSet

LEMMA DumpSkipSet ==
  ASSUME NEW K, NEW p, NEW m, NEW q, NEW w, NEW b, DumpShape(K, p, m, q, w, b),
         NEW n, n = Skipped(m), NEW S, S = m.skip, S # {}
  PROVE  DumpSet(n, q, w, b) = Less(DumpSet(m, q, w, b), S)
<1>1. m \in DumpRecs
  BY DEF DumpShape, MakerShape
<1>2. n.held = m.held /\ n.skip = {}
  BY <1>1, DumpAdvance DEF Skipped
<1> QED BY <1>2, HeldIsApart DEF DumpSet, Less

LEMMA DumpHold ==
  ASSUME NEW K, NEW p, NEW m, NEW q, NEW w, NEW b, DumpShape(K, p, m, q, w, b),
         m.t # None, m.skip = {}, NEW s, ShardOf(K, p, Dumps, s), s.t = m.t, s.i = m.i
  PROVE  LET n == Holding(m, s)
         IN  /\ DumpShape(K, p, n, q, w, b) /\ m.stage = "get"
             /\ s \notin DumpSet(m, q, w, b) /\ DumpSet(n, q, w, b) = With(DumpSet(m, q, w, b), s)
<1> DEFINE n == [m EXCEPT !.i = @ + 1, !.held = @ \cup {s}]
<1>1. m \in DumpRecs /\ s \in ShardTasks /\ {s} \in SUBSET ShardTasks
  BY DEF DumpShape, MakerShape, ShardOf
<1>2. /\ n \in DumpRecs /\ n.t = m.t /\ n.i = m.i + 1 /\ n.held = m.held \cup {s}
      /\ n.skip = {} /\ n.stage = m.stage
  BY <1>1, DumpAdvance
<1>3. m.stage = "get"
  <2>1. m.t \in Dumps /\ m.i \in Nat /\ m.stage \in {"get", "push"}
    BY <1>1 DEF DumpShape, MakerShape, DumpRecs
  <2>2. m.i = s.i /\ s.i \in 1 .. Len(K[m.t])
    BY DEF ShardOf
  <2> QED BY <2>1, <2>2 DEF DumpShape, MakerShape
<1>4. \A u \in m.held \cup {s} : u.i < m.i + 1
  <2> SUFFICES ASSUME NEW u \in m.held \cup {s}  PROVE u.i < m.i + 1
    OBVIOUS
  <2>1. m.i \in Nat /\ (u \in m.held => u.i \in Nat /\ u.i < m.i)
    BY <1>1 DEF DumpRecs, ShardTasks, DumpShape, MakerShape
  <2> QED BY <2>1
<1>5. m.i \in Nat \ {0} => m.i + 1 \in Nat \ {0}
  OBVIOUS
<1> HIDE DEF n
<1>6. MakerShape(K, p, n)
  BY <1>2, <1>3, <1>4, <1>5 DEF DumpShape, MakerShape
<1>7. DumpShape(K, p, n, q, w, b)
  BY <1>2, <1>3, <1>6 DEF DumpShape
<1>8. s \notin DumpSet(m, q, w, b) /\ DumpSet(n, q, w, b) = DumpSet(m, q, w, b) \cup {s}
  BY <1>1, <1>2, NextIsNew DEF DumpSet
<1> QED BY <1>3, <1>7, <1>8 DEF n, Holding, With

(* DumpOneTask ends: what it held is dropped.                               *)
LEMMA DumpEnds ==
  ASSUME NEW K, NEW p, NEW m, NEW q, NEW w, NEW b, DumpShape(K, p, m, q, w, b), m.skip = {}
  PROVE  /\ DumpShape(K, p, IdleDump, q, w, b) /\ m.held \in SUBSET DumpSet(m, q, w, b)
         /\ DumpSet(IdleDump, q, w, b) = Less(DumpSet(m, q, w, b), m.held)
<1>1. MakerShape(K, p, IdleDump)
  BY DEF MakerShape, IdleDump, DumpRecs
<1>2. IdleDump.t \notin LateOf(q, w)
  BY NoneIsNothing DEF DumpShape, LateShape, IdleDump, Tasks
<1>3. DumpShape(K, p, IdleDump, q, w, b)
  BY <1>1, <1>2 DEF DumpShape, IdleDump
<1>4. DumpSet(IdleDump, q, w, b) = DumpSet(m, q, w, b) \ m.held
  BY HeldIsApart DEF DumpSet, IdleDump
<1> QED BY <1>3, <1>4 DEF DumpSet, Less

(* Backend dumps of other tasks, and changes of their state only, leave the *)
(* shape of a process alone.                                                *)
LEMMA DumpElsewhere ==
  ASSUME NEW K, NEW p, NEW m, NEW q, NEW w, NEW b, DumpShape(K, p, m, q, w, b),
         NEW c, \A t \in LateOf(q, w) \cup {m.t} : t # None => c[t].held = b[t].held
  PROVE  DumpShape(K, p, m, q, w, c) /\ DumpSet(m, q, w, c) = DumpSet(m, q, w, b)
<1>1. \A t \in LateOf(q, w) : t # None
  BY NoneIsNothing DEF DumpShape, LateShape, Tasks
<1>2. \A t \in LateOf(q, w) : c[t].held = b[t].held
  BY <1>1
<1>3. DumpShape(K, p, m, q, w, c)
  <2>1. LateShape(K, p, q, w, c)
    BY <1>2 DEF DumpShape, LateShape
  <2>2. m.stage = "push" => c[m.t].held = m.held
    BY DEF DumpShape, MakerShape
  <2> QED BY <2>1, <2>2 DEF DumpShape
<1>4. LateSet(q, w, c) = LateSet(q, w, b)
  BY <1>2 DEF LateSet
<1> QED BY <1>3, <1>4 DEF DumpSet

(* The backend dump of the task is started.                                 *)
LEMMA DumpSubmitted ==
  ASSUME NEW K, NEW p, NEW m, NEW q, NEW w, NEW b, DumpShape(K, p, m, q, w, b),
         m.t # None, m.skip = {}, m.i > Len(K[m.t]),
         NEW c, c[m.t].held = m.held, \A t \in LateOf(q, w) : c[t].held = b[t].held
  PROVE  LET n == [m EXCEPT !.stage = "push"]
         IN  DumpShape(K, p, n, q, w, c) /\ DumpSet(n, q, w, c) = DumpSet(m, q, w, b)
<1> DEFINE n == [m EXCEPT !.stage = "push"]
<1>1. m \in DumpRecs
  BY DEF DumpShape, MakerShape
<1>2. n \in DumpRecs /\ n.t = m.t /\ n.i = m.i /\ n.held = m.held /\ n.skip = m.skip /\ n.stage = "push"
  BY <1>1 DEF DumpRecs
<1> HIDE DEF n
<1>3. MakerShape(K, p, n)
  BY <1>2 DEF DumpShape, MakerShape
<1>4. LateShape(K, p, q, w, c) /\ LateSet(q, w, c) = LateSet(q, w, b)
  BY DEF DumpShape, LateShape, LateSet
<1>5. DumpShape(K, p, n, q, w, c)
  BY <1>2, <1>3, <1>4 DEF DumpShape
<1> QED BY <1>2, <1>4, <1>5 DEF DumpSet, n

(* The dump thread hands the task on.                                       *)
LEMMA DumpPushed ==
  ASSUME NEW K, NEW p, NEW m, NEW q, NEW w, NEW b, DumpShape(K, p, m, q, w, b), m.stage = "push"
  PROVE  LET r == Append(q, m.t)
         IN  DumpShape(K, p, IdleDump, r, w, b) /\ DumpSet(IdleDump, r, w, b) = DumpSet(m, q, w, b)
<1> DEFINE r == Append(q, m.t)
<1>1. /\ q \in Seq(Tasks) /\ m.t \in Dumps /\ m.t \in Tasks /\ m.t # None /\ ProcOf[m.t] = p
      /\ Distinct(q) /\ m.t \notin Rng(q) /\ m.t # w
  BY DEF DumpShape, MakerShape, LateShape, Distinct, Tasks, LateOf
<1>2. r \in Seq(Tasks) /\ Rng(r) = Rng(q) \cup {m.t} /\ Distinct(r)
  BY <1>1, RngAppend, DistinctAppend
<1>3. LateOf(r, w) = LateOf(q, w) \cup {m.t}
  BY <1>2 DEF LateOf
<1>4. m.skip = {} /\ b[m.t].held = m.held
  BY DEF DumpShape, MakerShape
<1>5. LateShape(K, p, r, w, b)
  <2>1. \A s \in b[m.t].held : ShardOf(K, p, Dumps, s) /\ s.t = m.t
    BY <1>4 DEF DumpShape, MakerShape
  <2>2. w \notin Rng(r)
    BY <1>1, <1>2 DEF DumpShape, LateShape
  <2> HIDE DEF r
  <2> QED BY <1>1, <1>2, <1>3, <2>1, <2>2 DEF DumpShape, LateShape, Distinct
<1>6. MakerShape(K, p, IdleDump)
  BY DEF MakerShape, IdleDump, DumpRecs
<1>7. IdleDump.t \notin LateOf(r, w)
  BY <1>5, NoneIsNothing DEF LateShape, IdleDump, Tasks
<1>8. DumpShape(K, p, IdleDump, r, w, b)
  BY <1>5, <1>6, <1>7 DEF DumpShape, IdleDump
<1>9. LateSet(r, w, b) = LateSet(q, w, b) \cup m.held
  BY <1>3, <1>4 DEF LateSet
<1> QED BY <1>4, <1>8, <1>9 DEF DumpSet, IdleDump

(* The dumper takes the next backend dump.                                  *)
LEMMA DumperTook ==
  ASSUME NEW K, NEW p, NEW m, NEW q, NEW b, DumpShape(K, p, m, q, None, b), q # <<>>
  PROVE  /\ DumpShape(K, p, m, Tail(q), Head(q), b)
         /\ DumpSet(m, Tail(q), Head(q), b) = DumpSet(m, q, None, b)
         /\ LateOf(Tail(q), Head(q)) = LateOf(q, None)
<1>1. q \in Seq(Tasks) /\ Distinct(q)
  BY DEF DumpShape, LateShape, Distinct
<1>2. Head(q) \in Tasks /\ Tail(q) \in Seq(Tasks) /\ Rng(q) = {Head(q)} \cup Rng(Tail(q))
  BY <1>1, RngTail
<1>3. Distinct(Tail(q)) /\ Head(q) \notin Rng(Tail(q))
  BY <1>1, DistinctTail
<1>4. LateOf(Tail(q), Head(q)) = LateOf(q, None)
  BY <1>2, NoneIsNothing DEF LateOf
<1>5. LateShape(K, p, Tail(q), Head(q), b) /\ LateSet(Tail(q), Head(q), b) = LateSet(q, None, b)
  BY <1>2, <1>3, <1>4 DEF DumpShape, LateShape, LateSet, Distinct
<1> QED BY <1>4, <1>5 DEF DumpShape, DumpSet

(* It drops the Handles of a backend dump that ended.                       *)
LEMMA DumperDone ==
  ASSUME NEW K, NEW p, NEW m, NEW q, NEW w, NEW b, DumpShape(K, p, m, q, w, b), w # None
  PROVE  /\ DumpShape(K, p, m, q, None, b) /\ b[w].held \in SUBSET DumpSet(m, q, w, b)
         /\ DumpSet(m, q, None, b) = Less(DumpSet(m, q, w, b), b[w].held)
         /\ LateOf(q, None) \in SUBSET LateOf(q, w)
<1>1. LateOf(q, w) = Rng(q) \cup {w} /\ LateOf(q, None) = Rng(q) /\ w \notin Rng(q)
  BY DEF LateOf, DumpShape, LateShape
<1>2. LateSet(q, w, b) = LateSet(q, None, b) \cup b[w].held
  BY <1>1 DEF LateSet
<1>3. b[w].held \cap LateSet(q, None, b) = {} /\ b[w].held \cap (m.held \cup m.skip) = {}
  <2>1. \A s \in b[w].held : s.t = w
    BY <1>1 DEF DumpShape, LateShape
  <2>2. \A s \in LateSet(q, None, b) : s.t # w
    BY <1>1 DEF DumpShape, LateShape, LateSet
  <2>3. \A s \in m.held \cup m.skip : s.t # w
    BY <1>1 DEF DumpShape, MakerShape
  <2> QED BY <2>1, <2>2, <2>3
<1>4. DumpSet(m, q, None, b) = DumpSet(m, q, w, b) \ b[w].held
  BY <1>2, <1>3 DEF DumpSet
<1>5. LateShape(K, p, q, None, b)
  <2>1. None \notin Rng(q)
    BY <1>1, NoneIsNothing DEF DumpShape, LateShape, Tasks
  <2> QED BY <1>1, <2>1 DEF DumpShape, LateShape
<1> QED BY <1>1, <1>2, <1>4, <1>5 DEF DumpShape, DumpSet, Less

----------------------------------------------------------------------------
(* Counting Handles                                                         *)

Pins(S, n) == {s \in S : s.node = n}
Counted(tb, L) == \A n \in Nodes : tb[n].ref = Cardinality(Pins(L, n))

LEMMA CountAdd ==
  ASSUME NEW L, IsFiniteSet(L), NEW s, s \notin L, NEW tb \in Tables, Counted(tb, L), NEW tc,
         \A n \in Nodes : tc[n].ref = IF n = s.node THEN tb[n].ref + 1 ELSE tb[n].ref
  PROVE  Counted(tc, L \cup {s}) /\ IsFiniteSet(L \cup {s})
<1>1. IsFiniteSet(L \cup {s})
  BY FS_AddElement
<1> SUFFICES ASSUME NEW n \in Nodes  PROVE tc[n].ref = Cardinality(Pins(L \cup {s}, n))
  BY <1>1 DEF Counted
<1>2. IsFiniteSet(Pins(L, n)) /\ tb[n].ref = Cardinality(Pins(L, n))
  BY FS_Subset DEF Counted, Pins
<1>3. CASE n = s.node
  <2>1. Pins(L \cup {s}, n) = Pins(L, n) \cup {s}
    BY <1>3 DEF Pins
  <2>2. Cardinality(Pins(L, n) \cup {s}) = Cardinality(Pins(L, n)) + 1
    BY <1>2, FS_AddElement DEF Pins
  <2> QED BY <1>2, <1>3, <2>1, <2>2
<1>4. CASE n # s.node
  <2>1. Pins(L \cup {s}, n) = Pins(L, n)
    BY <1>4 DEF Pins
  <2> QED BY <1>2, <1>4, <2>1
<1> QED BY <1>3, <1>4

LEMMA CountDrop ==
  ASSUME NEW L, IsFiniteSet(L), NEW S \in SUBSET L, NEW tb \in Tables, Counted(tb, L), NEW tc,
         \A n \in Nodes : tc[n].ref = tb[n].ref - Cardinality(Pins(S, n))
  PROVE  Counted(tc, L \ S) /\ IsFiniteSet(L \ S)
<1>1. IsFiniteSet(L \ S)
  BY FS_Subset
<1> SUFFICES ASSUME NEW n \in Nodes  PROVE tc[n].ref = Cardinality(Pins(L \ S, n))
  BY <1>1 DEF Counted
<1> DEFINE A == Pins(L, n)
           B == Pins(S, n)
<1>2. IsFiniteSet(A) /\ tb[n].ref = Cardinality(A)
  BY FS_Subset DEF Counted, Pins
<1>3. Pins(L \ S, n) = A \ B /\ A \cap B = B
  BY DEF Pins
<1>4. Cardinality(A \ B) = Cardinality(A) - Cardinality(A \cap B)
  BY <1>2, FS_Difference
<1> QED BY <1>2, <1>3, <1>4

(* The Cardinalities that ReleaseAll subtracts are numbers.                 *)
LEMMA ReleaseCounts ==
  ASSUME NEW S, IsFiniteSet(S)
  PROVE  /\ \A n \in Nodes : Cardinality(Pins(S, n)) \in Nat
         /\ \A u : S = {u} => \A n \in Nodes : Cardinality(Pins(S, n)) = IF n = u.node THEN 1 ELSE 0
<1>1. ASSUME NEW n \in Nodes  PROVE Cardinality(Pins(S, n)) \in Nat
  <2>1. IsFiniteSet(Pins(S, n))
    BY FS_Subset DEF Pins
  <2> QED BY <2>1, FS_CardinalityType
<1>2. ASSUME NEW u, S = {u}, NEW n \in Nodes
      PROVE  Cardinality(Pins(S, n)) = IF n = u.node THEN 1 ELSE 0
  <2>1. CASE n = u.node
    <3>1. Pins(S, n) = {u}
      BY <1>2, <2>1 DEF Pins
    <3> QED BY <3>1, <2>1, FS_Singleton
  <2>2. CASE n # u.node
    <3>1. Pins(S, n) = {}
      BY <1>2, <2>2 DEF Pins
    <3> QED BY <3>1, <2>2, FS_EmptySet
  <2> QED BY <2>1, <2>2
<1> QED BY <1>1, <1>2

----------------------------------------------------------------------------
(* The updates of the node table                                            *)

(* tc is tb but for the counts.                                             *)
SameBut(tc, tb) == tc \in Tables /\ \A n \in Nodes : tc[n].key = tb[n].key /\ tc[n].st = tb[n].st

LEMMA ReleaseAllSets ==
  ASSUME NEW tb \in Tables, NEW S, IsFiniteSet(S)
  PROVE  /\ SameBut(ReleaseAll(tb, S), tb)
         /\ \A n \in Nodes : ReleaseAll(tb, S)[n].ref = tb[n].ref - Cardinality(Pins(S, n))
<1> SUFFICES ASSUME NEW n \in Nodes
             PROVE  LET w == [tb[n] EXCEPT !.ref = @ - Cardinality(Pins(S, n))]
                    IN  /\ w \in [key : Keys \cup {NoKey}, ref : Int, st : States]
                        /\ w.key = tb[n].key /\ w.st = tb[n].st
                        /\ w.ref = tb[n].ref - Cardinality(Pins(S, n))
  BY Zenon DEF ReleaseAll, SameBut, Tables, Pins
<1>1. Cardinality(Pins(S, n)) \in Nat
  BY ReleaseCounts
<1>2. PICK c \in Nat : c = Cardinality(Pins(S, n))
  BY <1>1
<1>3. tb[n] \in [key : Keys \cup {NoKey}, ref : Int, st : States]
  BY DEF Tables
<1>4. PICK y \in Int : y = tb[n].ref - c
  BY <1>3
<1>5. [tb[n] EXCEPT !.ref = y] \in [key : Keys \cup {NoKey}, ref : Int, st : States]
  BY <1>3
<1>6. LET w == [tb[n] EXCEPT !.ref = y] IN w.key = tb[n].key /\ w.st = tb[n].st /\ w.ref = y
  BY <1>3
<1> QED BY <1>2, <1>4, <1>5, <1>6

LEMMA ReleaseOne ==
  ASSUME NEW tb \in Tables, NEW m \in Nodes
  PROVE  /\ SameBut(Release(tb, m), tb)
         /\ \A n \in Nodes : Release(tb, m)[n].ref = IF n = m THEN tb[n].ref - 1 ELSE tb[n].ref
<1>1. /\ Release(tb, m) \in Tables
      /\ \A n \in Nodes : LET w == Release(tb, m)[n]
                          IN  /\ w.key = tb[n].key /\ w.st = tb[n].st
                              /\ w.ref = IF n = m THEN tb[n].ref - 1 ELSE tb[n].ref
  BY DEF Release, Tables
<1> QED BY <1>1 DEF SameBut

LEMMA ReleaseSets ==
  ASSUME NEW tb \in Tables, NEW s, s.node \in Nodes
  PROVE  /\ SameBut(Release(tb, s.node), tb)
         /\ \A n \in Nodes : Release(tb, s.node)[n].ref = tb[n].ref - Cardinality(Pins({s}, n))
<1>1. \A n \in Nodes : Cardinality(Pins({s}, n)) = IF n = s.node THEN 1 ELSE 0
  BY ReleaseCounts, FS_Singleton
<1>2. \A n \in Nodes : tb[n].ref \in Int
  BY DEF Tables
<1>3. \A n \in Nodes : Release(tb, s.node)[n].ref = IF n = s.node THEN tb[n].ref - 1 ELSE tb[n].ref
  BY ReleaseOne
<1>4. SameBut(Release(tb, s.node), tb)
  BY ReleaseOne
<1> QED BY <1>1, <1>2, <1>3, <1>4

LEMMA MarkSets ==
  ASSUME NEW tb \in Tables, NEW n \in Nodes, NEW x \in {"READY", "FAILED"}
  PROVE  /\ Mark(tb, n, x) \in Tables
         /\ \A m \in Nodes : LET w == Mark(tb, n, x)[m]
                             IN  /\ w.key = tb[m].key /\ w.ref = tb[m].ref
                                 /\ w.st = IF m = n /\ tb[m].st = "LOADING" THEN x ELSE tb[m].st
<1>1. PICK y \in States : y = IF tb[n].st = "LOADING" THEN x ELSE tb[n].st
  BY DEF Tables, States
<1>2. Mark(tb, n, x) = [tb EXCEPT ![n].st = y]
  BY <1>1 DEF Mark
<1> QED BY <1>1, <1>2 DEF Tables

LEMMA MarkAllSets ==
  ASSUME NEW tb \in Tables, NEW S
  PROVE  /\ MarkAll(tb, S) \in Tables
         /\ \A m \in Nodes : LET w == MarkAll(tb, S)[m]
                             IN  /\ w.key = tb[m].key /\ w.ref = tb[m].ref
                                 /\ w.st = IF (\E s \in S : s.node = m) /\ tb[m].st = "LOADING"
                                           THEN "READY" ELSE tb[m].st
<1>1. \A m \in Nodes : /\ Mark(tb, m, "READY")[m] \in [key : Keys \cup {NoKey}, ref : Int, st : States]
                       /\ tb[m] \in [key : Keys \cup {NoKey}, ref : Int, st : States]
  BY MarkSets DEF Tables
<1>2. \A m \in Nodes : MarkAll(tb, S)[m] = IF \E s \in S : s.node = m THEN Mark(tb, m, "READY")[m] ELSE tb[m]
  BY DEF MarkAll
<1>3. MarkAll(tb, S) \in Tables
  BY <1>1 DEF MarkAll, Tables
<1>4. ASSUME NEW m \in Nodes
      PROVE  LET w == MarkAll(tb, S)[m]
             IN  /\ w.key = tb[m].key /\ w.ref = tb[m].ref
                 /\ w.st = IF (\E s \in S : s.node = m) /\ tb[m].st = "LOADING"
                           THEN "READY" ELSE tb[m].st
  <2>1. LET w == Mark(tb, m, "READY")[m]
        IN  w.key = tb[m].key /\ w.ref = tb[m].ref /\ w.st = IF tb[m].st = "LOADING" THEN "READY" ELSE tb[m].st
    BY MarkSets
  <2>2. CASE \E s \in S : s.node = m
    BY <1>2, <2>1, <2>2
  <2>3. CASE ~\E s \in S : s.node = m
    BY <1>2, <2>3
  <2> QED BY <2>2, <2>3
<1> QED BY <1>3, <1>4

LEMMA HitSets ==
  ASSUME NEW tb \in Tables, NEW n \in Nodes, NEW b
  PROVE  /\ Hit(tb, n, b) \in Tables
         /\ \A m \in Nodes : LET w == Hit(tb, n, b)[m]
                             IN  /\ w.key = tb[m].key
                                 /\ w.ref = IF m = n THEN tb[m].ref + 1 ELSE tb[m].ref
                                 /\ w.st = IF m = n THEN HitState(tb[n], b) ELSE tb[m].st
<1>0. tb[n] \in [key : Keys \cup {NoKey}, ref : Int, st : States]
  BY DEF Tables
<1>1. PICK s \in States : s = HitState(tb[n], b)
  BY <1>0 DEF HitState, States
<1>2. PICK r \in Int : r = tb[n].ref + 1
  BY <1>0
<1>3. Hit(tb, n, b) = [tb EXCEPT ![n].ref = r, ![n].st = s]
  BY <1>1, <1>2 DEF Hit
<1> DEFINE W == Hit(tb, n, b)
           w == [tb[n] EXCEPT !.ref = r, !.st = s]
<1>4. w \in [key : Keys \cup {NoKey}, ref : Int, st : States]
  BY <1>0
<1>5. w.key = tb[n].key /\ w.ref = r /\ w.st = s
  BY <1>0
<1>6. W = [m \in Nodes |-> IF m = n THEN w ELSE tb[m]]
  BY <1>3 DEF Tables
<1> HIDE DEF W, w
<1>7. QED
  BY <1>1, <1>2, <1>4, <1>5, <1>6 DEF W, Tables

LEMMA ClaimSets ==
  ASSUME NEW tb \in Tables, NEW n \in Nodes, NEW k \in Keys
  PROVE  /\ Claim(tb, n, k) \in Tables
         /\ \A m \in Nodes : LET w == Claim(tb, n, k)[m]
                             IN  /\ w.key = IF m = n THEN k ELSE tb[m].key
                                 /\ w.ref = IF m = n THEN tb[m].ref + 1 ELSE tb[m].ref
                                 /\ w.st = IF m = n THEN "LOADING" ELSE tb[m].st
<1>0. tb[n] \in [key : Keys \cup {NoKey}, ref : Int, st : States] /\ "LOADING" \in States
  BY DEF Tables, States
<1>2. PICK r \in Int : r = tb[n].ref + 1
  BY <1>0
<1>3. Claim(tb, n, k) = [tb EXCEPT ![n].ref = r, ![n].key = k, ![n].st = "LOADING"]
  BY <1>2 DEF Claim
<1> DEFINE W == Claim(tb, n, k)
           w == [tb[n] EXCEPT !.ref = r, !.key = k, !.st = "LOADING"]
<1>4. w \in [key : Keys \cup {NoKey}, ref : Int, st : States]
  BY <1>0
<1>5. w.key = k /\ w.ref = r /\ w.st = "LOADING"
  BY <1>0
<1>6. W = [m \in Nodes |-> IF m = n THEN w ELSE tb[m]]
  BY <1>3 DEF Tables
<1> HIDE DEF W, w
<1>7. QED
  BY <1>2, <1>4, <1>5, <1>6 DEF W, Tables

(* A node that Get gives out: it is bound to the key, counted once more and *)
(* nothing else changes; it is new only if no node had the key.             *)
Got(tb, k, b, r) ==
  /\ r.node \in Nodes /\ r.own \in BOOLEAN /\ r.own = (tb[r.node].ref = 0) /\ r.tab \in Tables
  /\ \A m \in Nodes : r.tab[m].ref = IF m = r.node THEN tb[m].ref + 1 ELSE tb[m].ref
  /\ \A m \in Nodes : m # r.node => r.tab[m].key = tb[m].key /\ r.tab[m].st = tb[m].st
  /\ r.tab[r.node].key = k
  /\ \/ tb[r.node].key = k /\ r.tab[r.node].st = HitState(tb[r.node], b)
     \/ (\A m \in Nodes : tb[m].key # k) /\ r.own /\ r.tab[r.node].st = "LOADING"

LEMMA GetGives ==
  ASSUME tab \in Tables, sc \in Scenarios, NEW k \in Keys, NEW b \in BOOLEAN, NEW r \in Get(k, b)
  PROVE  Got(tab, k, Bypass /\ b, r)
<1> DEFINE hits == {n \in Nodes : tab[n].key = k}
           free == {n \in sc.nodes : tab[n].ref = 0} \ (IF b THEN {} ELSE ReservedNodes)
<1>1. CASE hits # {}
  <2>1. PICK n \in hits : r = [tab |-> Hit(tab, n, Bypass /\ b), node |-> n, own |-> IsOwner(tab[n])]
    BY <1>1 DEF Get
  <2>2. r.node = n /\ n \in Nodes /\ r.tab = Hit(tab, n, Bypass /\ b) /\ r.own = (tab[n].ref = 0) /\ tab[n].key = k
    BY <2>1 DEF IsOwner
  <2> QED BY <2>2, HitSets DEF Got
<1>2. CASE hits = {}
  <2>1. PICK n \in free : r = [tab |-> Claim(tab, n, k), node |-> n, own |-> TRUE]
    BY <1>2 DEF Get
  <2>2. r.node = n /\ n \in Nodes /\ r.tab = Claim(tab, n, k) /\ r.own = TRUE /\ tab[n].ref = 0
    BY <2>1, StoreAssumption
  <2>3. \A m \in Nodes : tab[m].key # k
    BY <1>2
  <2>4. r.own \in BOOLEAN /\ r.own /\ r.own = (tab[r.node].ref = 0)
    BY <2>2
  <2>5. /\ r.node \in Nodes /\ r.tab \in Tables
        /\ \A m \in Nodes : /\ r.tab[m].ref = IF m = r.node THEN tab[m].ref + 1 ELSE tab[m].ref
                            /\ m # r.node => r.tab[m].key = tab[m].key /\ r.tab[m].st = tab[m].st
        /\ r.tab[r.node].key = k /\ r.tab[r.node].st = "LOADING"
    <3> DEFINE W == Claim(tab, n, k)
    <3>1. /\ W \in Tables
          /\ \A m \in Nodes : /\ W[m].key = IF m = n THEN k ELSE tab[m].key
                              /\ W[m].ref = IF m = n THEN tab[m].ref + 1 ELSE tab[m].ref
                              /\ W[m].st = IF m = n THEN "LOADING" ELSE tab[m].st
      BY <2>2, ClaimSets
    <3>2. r.tab = W /\ r.node = n /\ n \in Nodes
      BY <2>2
    <3> HIDE DEF W
    <3> QED BY <3>1, <3>2
  <2> QED BY <2>3, <2>4, <2>5 DEF Got
<1> QED BY <1>1, <1>2

----------------------------------------------------------------------------
(* The invariant                                                            *)

Live == UNION {LiveShards(p) : p \in Procs}
LoadsOf(p) == LoadSet(disp[p], running[p], xfer[p], holder[p])
DumpsOf(p) == DumpSet(dump[p], dumping[p], dumper[p], bdump)

(* The tasks that some stage of a process works on.                         *)
Touched(p) == ({disp[p].t, dump[p].t} \ {None}) \cup LateOf(dumping[p], dumper[p]) \cup {s.t : s \in LoadsOf(p)}

LoadType ==
  /\ disp \in [Procs -> Disps] /\ running \in [Procs -> Seq(ShardTasks)]
  /\ xfer \in [Procs -> Xfers \cup {None}] /\ holder \in [Procs -> SUBSET ShardTasks]
DumpType ==
  /\ dump \in [Procs -> DumpRecs] /\ dumping \in [Procs -> Seq(Tasks)]
  /\ dumper \in [Procs -> Tasks \cup {None}]
  /\ bdump \in [Tasks -> [st : {"none", "run", "ok", "fail"}, held : SUBSET ShardTasks]]
ApiType ==
  /\ sc \in Scenarios /\ st \in [Tasks -> TaskStates]
  /\ failureSet \in SUBSET Tasks /\ done \in SUBSET Tasks
  /\ waiting \in [{"load", "dump"} -> [Procs -> Seq(Tasks)]]

Loading == \A p \in Procs : LoadShape(KeysOf, p, disp[p], running[p], xfer[p], holder[p])
Dumping == \A p \in Procs : DumpShape(KeysOf, p, dump[p], dumping[p], dumper[p], bdump)

(* A task waits once, in the queue of its process and kind, and no stage    *)
(* has it yet.                                                              *)
Line(K, q, p, w, stt, T) ==
  /\ w \in Seq(Tasks) /\ Distinct(w)
  /\ \A t \in Rng(w) : t \in Tasks /\ QueueOf(t) = q /\ ProcOf[t] = p /\ stt[t] # "new" /\ K[t] # <<>> /\ t \notin T
Waits == \A p \in Procs : \A q \in {"load", "dump"} : Line(KeysOf, q, p, waiting[q][p], st, Touched(p))
Started == \A p \in Procs : \A t \in Touched(p) : st[t] # "new"

Places == ApiType /\ LoadType /\ DumpType /\ Loading /\ Dumping /\ Waits /\ Started
Counts == tab \in Tables /\ IsFiniteSet(Live) /\ Counted(tab, Live)

LEMMA LiveIs == \A p : LiveShards(p) = LoadsOf(p) \cup DumpsOf(p)
BY DEF LiveShards, LoadsOf, DumpsOf, LoadSet, DumpSet, LateSet, LateOf, OutOf, InOf, Rng

LEMMA WhoseShards ==
  ASSUME Loading, Dumping, NEW p \in Procs
  PROVE  /\ \A s \in LoadsOf(p) : s \in ShardTasks /\ s.t \in Loads /\ ProcOf[s.t] = p
         /\ \A s \in DumpsOf(p) : s \in ShardTasks /\ s.t \in Dumps /\ ProcOf[s.t] = p
<1>1. \A s \in LoadsOf(p) : ShardOf(KeysOf, p, Loads, s)
  BY DEF Loading, LoadShape, LoadsOf
<1>2. \A s \in DumpsOf(p) : ShardOf(KeysOf, p, Dumps, s)
  BY DEF Dumping, DumpShape, MakerShape, LateShape, DumpsOf, DumpSet, LateSet
<1> QED BY <1>1, <1>2 DEF ShardOf

(* Only process p moves: the effect on all Handles is the effect on its.    *)
OthersStay(p) == \A q \in Procs \ {p} : LiveShards(q)' = LiveShards(q)

LEMMA LiveKeeps ==
  ASSUME NEW p \in Procs, OthersStay(p), LiveShards(p)' = LiveShards(p)
  PROVE  Live' = Live
<1>1. \A q \in Procs : LiveShards(q)' = LiveShards(q)
  BY DEF OthersStay
<1> QED BY <1>1, Zenon DEF Live

LEMMA LiveAdds ==
  ASSUME Loading, Dumping, NEW p \in Procs, OthersStay(p), NEW s,
         ProcOf[s.t] = p, s \notin LiveShards(p), LiveShards(p)' = LiveShards(p) \cup {s}
  PROVE  s \notin Live /\ Live' = Live \cup {s}
<1>1. \A q \in Procs : \A u \in LiveShards(q) : ProcOf[u.t] = q
  BY LiveIs, WhoseShards
<1>2. s \notin Live
  BY <1>1 DEF Live
<1>3. Live' = UNION {LiveShards(q)' : q \in Procs}
  BY DEF Live
<1>4. ASSUME NEW u \in Live'  PROVE u \in Live \cup {s}
  BY <1>3 DEF OthersStay, Live
<1>5. ASSUME NEW u \in Live \cup {s}  PROVE u \in Live'
  <2>1. CASE u = s
    BY <2>1, <1>3
  <2>2. CASE u \in Live
    <3>1. PICK q \in Procs : u \in LiveShards(q)
      BY <2>2 DEF Live
    <3>2. u \in LiveShards(q)'
      BY <3>1 DEF OthersStay
    <3> QED BY <3>2, <1>3
  <2> QED BY <2>1, <2>2
<1> QED BY <1>2, <1>4, <1>5

LEMMA LiveDrops ==
  ASSUME Loading, Dumping, NEW p \in Procs, OthersStay(p), NEW S \in SUBSET LiveShards(p),
         LiveShards(p)' = LiveShards(p) \ S
  PROVE  S \in SUBSET Live /\ Live' = Live \ S
<1>1. \A q \in Procs : \A u \in LiveShards(q) : ProcOf[u.t] = q
  BY LiveIs, WhoseShards
<1>2. S \in SUBSET Live
  BY DEF Live
<1>3. Live' = UNION {LiveShards(q)' : q \in Procs}
  BY DEF Live
<1>4. ASSUME NEW u \in Live'  PROVE u \in Live \ S
  <2>1. PICK q \in Procs : u \in LiveShards(q)'
    BY <1>3
  <2>2. u \in LiveShards(q) /\ (q = p => u \notin S)
    BY <2>1 DEF OthersStay
  <2>3. q # p => u \notin S
    BY <2>2, <1>1
  <2> QED BY <2>2, <2>3 DEF Live
<1>5. ASSUME NEW u \in Live \ S  PROVE u \in Live'
  <2>1. PICK q \in Procs : u \in LiveShards(q)
    BY DEF Live
  <2>2. u \in LiveShards(q)'
    BY <2>1 DEF OthersStay
  <2> QED BY <2>2, <1>3
<1> QED BY <1>2, <1>4, <1>5

----------------------------------------------------------------------------
(* A step of the load side of one process                                   *)

LoadsMove(p, d, r, x, h) ==
  /\ disp' = Step(disp, p, d) /\ running' = Step(running, p, r)
  /\ xfer' = Step(xfer, p, x) /\ holder' = Step(holder, p, h)
  /\ dump' = dump /\ dumping' = dumping /\ dumper' = dumper /\ bdump' = bdump /\ sc' = sc

(* A variable that a step leaves alone.                                     *)
LEMMA Stays ==
  ASSUME LoadType, DumpType, NEW p \in Procs
  PROVE  /\ disp = Step(disp, p, disp[p]) /\ running = Step(running, p, running[p])
         /\ xfer = Step(xfer, p, xfer[p]) /\ holder = Step(holder, p, holder[p])
         /\ dump = Step(dump, p, dump[p]) /\ dumping = Step(dumping, p, dumping[p])
         /\ dumper = Step(dumper, p, dumper[p])
<1>1. disp = Step(disp, p, disp[p]) /\ running = Step(running, p, running[p])
  BY DEF LoadType, Step
<1>2. xfer = Step(xfer, p, xfer[p]) /\ holder = Step(holder, p, holder[p])
  BY DEF LoadType, Step
<1>3. dump = Step(dump, p, dump[p]) /\ dumping = Step(dumping, p, dumping[p])
  BY DEF DumpType, Step
<1>4. dumper = Step(dumper, p, dumper[p])
  BY DEF DumpType, Step
<1> QED BY <1>1, <1>2, <1>3, <1>4

LEMMA LoadMoves ==
  ASSUME LoadType, DumpType, Loading, Dumping, NEW p \in Procs, NEW d, NEW r, NEW x, NEW h,
         LoadsMove(p, d, r, x, h), LoadShape(KeysOf, p, d, r, x, h)
  PROVE  /\ LoadType' /\ DumpType' /\ Loading' /\ Dumping' /\ OthersStay(p)
         /\ LiveShards(p)' = LoadSet(d, r, x, h) \cup DumpsOf(p)
         /\ \A q \in Procs : q # p => Touched(q)' = Touched(q)
         /\ Touched(p)' = ({d.t, dump[p].t} \ {None}) \cup LateOf(dumping[p], dumper[p])
                            \cup {s.t : s \in LoadSet(d, r, x, h)}
<1>1. d \in Disps /\ r \in Seq(ShardTasks) /\ x \in Xfers \cup {None} /\ h \in SUBSET ShardTasks
  BY DEF LoadShape, DispShape
<1>2. LoadType' /\ DumpType'
  BY <1>1 DEF LoadType, DumpType, LoadsMove, Step
<1>3. /\ disp'[p] = d /\ running'[p] = r /\ xfer'[p] = x /\ holder'[p] = h
      /\ \A q \in Procs : q # p => disp'[q] = disp[q] /\ running'[q] = running[q]
                                   /\ xfer'[q] = xfer[q] /\ holder'[q] = holder[q]
  BY DEF LoadType, LoadsMove, Step
<1>4. dump' = dump /\ dumping' = dumping /\ dumper' = dumper /\ bdump' = bdump /\ KeysOf' = KeysOf
  BY DEF LoadsMove, KeysOf
<1>5. Loading'
  BY <1>3, <1>4 DEF Loading
<1>6. Dumping'
  BY <1>4 DEF Dumping
<1>7. /\ \A q \in Procs : DumpsOf(q)' = DumpsOf(q)
      /\ \A q \in Procs : q # p => LoadsOf(q)' = LoadsOf(q)
      /\ LoadsOf(p)' = LoadSet(d, r, x, h)
  BY <1>3, <1>4 DEF DumpsOf, LoadsOf
<1>8. \A q : LiveShards(q)' = LoadsOf(q)' \cup DumpsOf(q)'
  BY DEF LiveShards, LoadsOf, DumpsOf, LoadSet, DumpSet, LateSet, LateOf, OutOf, InOf, Rng
<1>9. OthersStay(p) /\ LiveShards(p)' = LoadSet(d, r, x, h) \cup DumpsOf(p)
  BY <1>7, <1>8, LiveIs DEF OthersStay
<1>10. /\ \A q \in Procs : q # p => Touched(q)' = Touched(q)
       /\ Touched(p)' = ({d.t, dump[p].t} \ {None}) \cup LateOf(dumping[p], dumper[p])
                            \cup {s.t : s \in LoadSet(d, r, x, h)}
  BY <1>3, <1>4, <1>7 DEF Touched
<1> QED BY <1>2, <1>5, <1>6, <1>9, <1>10

(* The three things it may do: pass Handles on, take one, drop some.        *)
LEMMA LoadKeeps ==
  ASSUME LoadType, DumpType, Loading, Dumping, NEW p \in Procs, NEW d, NEW r, NEW x, NEW h,
         LoadsMove(p, d, r, x, h), LoadShape(KeysOf, p, d, r, x, h),
         LoadSet(d, r, x, h) = LoadsOf(p)
  PROVE  /\ LoadType' /\ DumpType' /\ Loading' /\ Dumping' /\ Live' = Live
         /\ \A q \in Procs : q # p => Touched(q)' \in SUBSET Touched(q)
         /\ Touched(p)' \in SUBSET (Touched(p) \cup ({d.t} \ {None}))
<1>a. /\ LiveShards(p)' = LoadSet(d, r, x, h) \cup DumpsOf(p)
      /\ Touched(p)' = ({d.t, dump[p].t} \ {None}) \cup LateOf(dumping[p], dumper[p])
                            \cup {u.t : u \in LoadSet(d, r, x, h)}
  BY LoadMoves
<1>b. /\ LiveShards(p) = LoadsOf(p) \cup DumpsOf(p)
      /\ Touched(p) = ({disp[p].t, dump[p].t} \ {None}) \cup LateOf(dumping[p], dumper[p])
                            \cup {u.t : u \in LoadsOf(p)}
  BY LiveIs DEF Touched
<1>1. LiveShards(p)' = LiveShards(p)
  BY <1>a, <1>b
<1>2. OthersStay(p)
  BY LoadMoves
<1>3. Live' = Live
  BY <1>1, <1>2, LiveKeeps
<1>4. Touched(p)' \in SUBSET (Touched(p) \cup ({d.t} \ {None}))
  BY <1>a, <1>b
<1> QED BY <1>3, <1>4, LoadMoves

LEMMA LoadAdds ==
  ASSUME LoadType, DumpType, Loading, Dumping, NEW p \in Procs, NEW d, NEW r, NEW x, NEW h,
         LoadsMove(p, d, r, x, h), LoadShape(KeysOf, p, d, r, x, h),
         NEW s, s.t \in Loads, ProcOf[s.t] = p, s.t = d.t, d.t = disp[p].t, s \notin LoadsOf(p),
         LoadSet(d, r, x, h) = LoadsOf(p) \cup {s}
  PROVE  /\ LoadType' /\ DumpType' /\ Loading' /\ Dumping' /\ s \notin Live /\ Live' = Live \cup {s}
         /\ \A q \in Procs : Touched(q)' \in SUBSET Touched(q)
<1>a. /\ LiveShards(p)' = LoadSet(d, r, x, h) \cup DumpsOf(p)
      /\ Touched(p)' = ({d.t, dump[p].t} \ {None}) \cup LateOf(dumping[p], dumper[p])
                            \cup {u.t : u \in LoadSet(d, r, x, h)}
  BY LoadMoves
<1>b. /\ LiveShards(p) = LoadsOf(p) \cup DumpsOf(p)
      /\ Touched(p) = ({disp[p].t, dump[p].t} \ {None}) \cup LateOf(dumping[p], dumper[p])
                            \cup {u.t : u \in LoadsOf(p)}
  BY LiveIs DEF Touched
<1>1. s \notin DumpsOf(p)
  BY WhoseShards, StoreAssumption
<1>2. LiveShards(p)' = LiveShards(p) \cup {s} /\ s \notin LiveShards(p)
  BY <1>1, <1>a, <1>b
<1>3. OthersStay(p)
  BY LoadMoves
<1>4. s \notin Live /\ Live' = Live \cup {s}
  BY <1>2, <1>3, LiveAdds
<1>5. d.t # None
  BY NoneIsNothing DEF Tasks
<1>6. Touched(p)' \in SUBSET Touched(p)
  BY <1>5, <1>a, <1>b
<1> QED BY <1>4, <1>6, LoadMoves

LEMMA LoadDrops ==
  ASSUME LoadType, DumpType, Loading, Dumping, NEW p \in Procs, NEW d, NEW r, NEW x, NEW h,
         LoadsMove(p, d, r, x, h), LoadShape(KeysOf, p, d, r, x, h), d.t \in {disp[p].t, None},
         NEW S \in SUBSET LoadsOf(p), LoadSet(d, r, x, h) = LoadsOf(p) \ S
  PROVE  /\ LoadType' /\ DumpType' /\ Loading' /\ Dumping' /\ S \in SUBSET Live /\ Live' = Live \ S
         /\ \A q \in Procs : Touched(q)' \in SUBSET Touched(q)
<1>a. /\ LiveShards(p)' = LoadSet(d, r, x, h) \cup DumpsOf(p)
      /\ Touched(p)' = ({d.t, dump[p].t} \ {None}) \cup LateOf(dumping[p], dumper[p])
                            \cup {u.t : u \in LoadSet(d, r, x, h)}
  BY LoadMoves
<1>b. /\ LiveShards(p) = LoadsOf(p) \cup DumpsOf(p)
      /\ Touched(p) = ({disp[p].t, dump[p].t} \ {None}) \cup LateOf(dumping[p], dumper[p])
                            \cup {u.t : u \in LoadsOf(p)}
  BY LiveIs DEF Touched
<1>1. S \cap DumpsOf(p) = {}
  BY WhoseShards, StoreAssumption
<1>2. LiveShards(p)' = LiveShards(p) \ S /\ S \in SUBSET LiveShards(p)
  BY <1>1, <1>a, <1>b
<1>3. OthersStay(p)
  BY LoadMoves
<1>4. S \in SUBSET Live /\ Live' = Live \ S
  BY <1>2, <1>3, LiveDrops
<1>5. Touched(p)' \in SUBSET Touched(p)
  BY <1>a, <1>b
<1> QED BY <1>4, <1>5, LoadMoves

----------------------------------------------------------------------------
(* A step of the dump side of one process, which may start a backend dump   *)

DumpsMove(p, m, q, w) ==
  /\ dump' = Step(dump, p, m) /\ dumping' = Step(dumping, p, q) /\ dumper' = Step(dumper, p, w)
  /\ bdump' \in [Tasks -> [st : {"none", "run", "ok", "fail"}, held : SUBSET ShardTasks]]
  /\ \A t \in Tasks : ProcOf[t] # p => bdump'[t].held = bdump[t].held
  /\ disp' = disp /\ running' = running /\ xfer' = xfer /\ holder' = holder /\ sc' = sc

LEMMA DumpMoves ==
  ASSUME LoadType, DumpType, Loading, Dumping, NEW p \in Procs, NEW m, NEW q, NEW w,
         DumpsMove(p, m, q, w), DumpShape(KeysOf, p, m, q, w, bdump')
  PROVE  /\ LoadType' /\ DumpType' /\ Loading' /\ Dumping' /\ OthersStay(p)
         /\ LiveShards(p)' = LoadsOf(p) \cup DumpSet(m, q, w, bdump')
         /\ \A o \in Procs : o # p => Touched(o)' = Touched(o)
         /\ Touched(p)' = ({disp[p].t, m.t} \ {None}) \cup LateOf(q, w) \cup {s.t : s \in LoadsOf(p)}
<1>1. m \in DumpRecs /\ q \in Seq(Tasks) /\ w \in Tasks \cup {None}
  BY DEF DumpShape, MakerShape, LateShape
<1>2. LoadType' /\ DumpType'
  BY <1>1 DEF LoadType, DumpType, DumpsMove, Step
<1>3. /\ dump'[p] = m /\ dumping'[p] = q /\ dumper'[p] = w
      /\ \A o \in Procs : o # p => dump'[o] = dump[o] /\ dumping'[o] = dumping[o] /\ dumper'[o] = dumper[o]
  BY DEF DumpType, DumpsMove, Step
<1>4. disp' = disp /\ running' = running /\ xfer' = xfer /\ holder' = holder /\ KeysOf' = KeysOf
  BY DEF DumpsMove, KeysOf
<1>5. Loading'
  BY <1>4 DEF Loading
<1>6. ASSUME NEW o \in Procs, o # p
      PROVE  /\ DumpShape(KeysOf, o, dump[o], dumping[o], dumper[o], bdump')
             /\ DumpSet(dump[o], dumping[o], dumper[o], bdump') = DumpsOf(o)
  <2>1. DumpShape(KeysOf, o, dump[o], dumping[o], dumper[o], bdump)
    BY DEF Dumping
  <2>2. \A t \in LateOf(dumping[o], dumper[o]) \cup {dump[o].t} :
           t # None => t \in Tasks /\ ProcOf[t] = o
    BY <2>1 DEF DumpShape, LateShape, MakerShape, Tasks
  <2>3. \A t \in LateOf(dumping[o], dumper[o]) \cup {dump[o].t} :
           t # None => bdump'[t].held = bdump[t].held
    BY <1>6, <2>2 DEF DumpsMove
  <2> QED BY <2>1, <2>3, DumpElsewhere DEF DumpsOf
<1>7. Dumping'
  BY <1>3, <1>4, <1>6 DEF Dumping
<1>8. /\ \A o \in Procs : LoadsOf(o)' = LoadsOf(o)
      /\ \A o \in Procs : o # p => DumpsOf(o)' = DumpsOf(o)
      /\ DumpsOf(p)' = DumpSet(m, q, w, bdump')
  BY <1>3, <1>4, <1>6 DEF DumpsOf, LoadsOf
<1>9. \A o : LiveShards(o)' = LoadsOf(o)' \cup DumpsOf(o)'
  BY DEF LiveShards, LoadsOf, DumpsOf, LoadSet, DumpSet, LateSet, LateOf, OutOf, InOf, Rng
<1>10. OthersStay(p) /\ LiveShards(p)' = LoadsOf(p) \cup DumpSet(m, q, w, bdump')
  BY <1>8, <1>9, LiveIs DEF OthersStay
<1>11. /\ \A o \in Procs : o # p => Touched(o)' = Touched(o)
       /\ Touched(p)' = ({disp[p].t, m.t} \ {None}) \cup LateOf(q, w) \cup {s.t : s \in LoadsOf(p)}
  BY <1>3, <1>4, <1>8 DEF Touched
<1> QED BY <1>2, <1>5, <1>7, <1>10, <1>11

LEMMA DumpKeeps ==
  ASSUME LoadType, DumpType, Loading, Dumping, NEW p \in Procs, NEW m, NEW q, NEW w,
         DumpsMove(p, m, q, w), DumpShape(KeysOf, p, m, q, w, bdump'),
         LateOf(q, w) \in SUBSET (LateOf(dumping[p], dumper[p]) \cup {dump[p].t}),
         DumpSet(m, q, w, bdump') = DumpsOf(p)
  PROVE  /\ LoadType' /\ DumpType' /\ Loading' /\ Dumping' /\ Live' = Live
         /\ \A o \in Procs : o # p => Touched(o)' \in SUBSET Touched(o)
         /\ Touched(p)' \in SUBSET (Touched(p) \cup ({m.t} \ {None}))
<1>a. /\ LiveShards(p)' = LoadsOf(p) \cup DumpSet(m, q, w, bdump')
      /\ Touched(p)' = ({disp[p].t, m.t} \ {None}) \cup LateOf(q, w) \cup {s.t : s \in LoadsOf(p)}
  BY DumpMoves
<1>b. /\ LiveShards(p) = LoadsOf(p) \cup DumpsOf(p)
      /\ Touched(p) = ({disp[p].t, dump[p].t} \ {None}) \cup LateOf(dumping[p], dumper[p])
                         \cup {s.t : s \in LoadsOf(p)}
  BY LiveIs DEF Touched
<1>c. None \notin LateOf(q, w)
  BY NoneIsNothing DEF DumpShape, LateShape, Tasks
<1>1. LiveShards(p)' = LiveShards(p)
  BY <1>a, <1>b
<1>2. OthersStay(p)
  BY DumpMoves
<1>3. Live' = Live
  BY <1>1, <1>2, LiveKeeps
<1>4. Touched(p)' \in SUBSET (Touched(p) \cup ({m.t} \ {None}))
  BY <1>a, <1>b, <1>c
<1> QED BY <1>3, <1>4, DumpMoves

LEMMA DumpAdds ==
  ASSUME LoadType, DumpType, Loading, Dumping, NEW p \in Procs, NEW m, NEW q, NEW w,
         DumpsMove(p, m, q, w), DumpShape(KeysOf, p, m, q, w, bdump'), m.t = dump[p].t,
         LateOf(q, w) = LateOf(dumping[p], dumper[p]),
         NEW s, s.t \in Dumps, ProcOf[s.t] = p, s \notin DumpsOf(p),
         DumpSet(m, q, w, bdump') = DumpsOf(p) \cup {s}
  PROVE  /\ LoadType' /\ DumpType' /\ Loading' /\ Dumping' /\ s \notin Live /\ Live' = Live \cup {s}
         /\ \A o \in Procs : Touched(o)' \in SUBSET Touched(o)
<1>a. /\ LiveShards(p)' = LoadsOf(p) \cup DumpSet(m, q, w, bdump')
      /\ Touched(p)' = ({disp[p].t, m.t} \ {None}) \cup LateOf(q, w) \cup {u.t : u \in LoadsOf(p)}
  BY DumpMoves
<1>b. /\ LiveShards(p) = LoadsOf(p) \cup DumpsOf(p)
      /\ Touched(p) = ({disp[p].t, dump[p].t} \ {None}) \cup LateOf(dumping[p], dumper[p])
                         \cup {u.t : u \in LoadsOf(p)}
  BY LiveIs DEF Touched
<1>1. s \notin LoadsOf(p)
  BY WhoseShards, StoreAssumption
<1>2. LiveShards(p)' = LiveShards(p) \cup {s} /\ s \notin LiveShards(p)
  BY <1>1, <1>a, <1>b
<1>3. OthersStay(p)
  BY DumpMoves
<1>4. s \notin Live /\ Live' = Live \cup {s}
  BY <1>2, <1>3, LiveAdds
<1>5. Touched(p)' \in SUBSET Touched(p)
  BY <1>a, <1>b
<1> QED BY <1>4, <1>5, DumpMoves

LEMMA DumpDrops ==
  ASSUME LoadType, DumpType, Loading, Dumping, NEW p \in Procs, NEW m, NEW q, NEW w,
         DumpsMove(p, m, q, w), DumpShape(KeysOf, p, m, q, w, bdump'), m.t \in {dump[p].t, None},
         LateOf(q, w) \in SUBSET LateOf(dumping[p], dumper[p]),
         NEW S \in SUBSET DumpsOf(p), DumpSet(m, q, w, bdump') = DumpsOf(p) \ S
  PROVE  /\ LoadType' /\ DumpType' /\ Loading' /\ Dumping' /\ S \in SUBSET Live /\ Live' = Live \ S
         /\ \A o \in Procs : Touched(o)' \in SUBSET Touched(o)
<1>a. /\ LiveShards(p)' = LoadsOf(p) \cup DumpSet(m, q, w, bdump')
      /\ Touched(p)' = ({disp[p].t, m.t} \ {None}) \cup LateOf(q, w) \cup {u.t : u \in LoadsOf(p)}
  BY DumpMoves
<1>b. /\ LiveShards(p) = LoadsOf(p) \cup DumpsOf(p)
      /\ Touched(p) = ({disp[p].t, dump[p].t} \ {None}) \cup LateOf(dumping[p], dumper[p])
                         \cup {u.t : u \in LoadsOf(p)}
  BY LiveIs DEF Touched
<1>1. S \cap LoadsOf(p) = {}
  BY WhoseShards, StoreAssumption
<1>2. LiveShards(p)' = LiveShards(p) \ S /\ S \in SUBSET LiveShards(p)
  BY <1>1, <1>a, <1>b
<1>3. OthersStay(p)
  BY DumpMoves
<1>4. S \in SUBSET Live /\ Live' = Live \ S
  BY <1>2, <1>3, LiveDrops
<1>5. Touched(p)' \in SUBSET Touched(p)
  BY <1>a, <1>b
<1> QED BY <1>4, <1>5, DumpMoves

(* A step of the caller, the backend or a copy: no Handle moves.            *)
LEMMA NobodyMoves ==
  ASSUME LoadType, DumpType, Loading, Dumping,
         disp' = disp, running' = running, xfer' = xfer, holder' = holder, sc' = sc,
         dump' = dump, dumping' = dumping, dumper' = dumper,
         bdump' \in [Tasks -> [st : {"none", "run", "ok", "fail"}, held : SUBSET ShardTasks]],
         \A t \in Tasks : bdump'[t].held = bdump[t].held
  PROVE  /\ LoadType' /\ DumpType' /\ Loading' /\ Dumping' /\ Live' = Live
         /\ \A o \in Procs : Touched(o)' \in SUBSET Touched(o)
<1>1. LoadType' /\ DumpType'
  BY DEF LoadType, DumpType
<1>2. KeysOf' = KeysOf
  BY DEF KeysOf
<1>3. Loading'
  BY <1>2 DEF Loading
<1>4. ASSUME NEW o \in Procs
      PROVE  /\ DumpShape(KeysOf, o, dump[o], dumping[o], dumper[o], bdump')
             /\ DumpSet(dump[o], dumping[o], dumper[o], bdump') = DumpsOf(o)
  <2>1. DumpShape(KeysOf, o, dump[o], dumping[o], dumper[o], bdump)
    BY DEF Dumping
  <2>2. \A t \in LateOf(dumping[o], dumper[o]) \cup {dump[o].t} : t # None => t \in Tasks
    BY <2>1 DEF DumpShape, LateShape, MakerShape, Tasks
  <2> QED BY <2>1, <2>2, DumpElsewhere DEF DumpsOf
<1>5. Dumping'
  BY <1>2, <1>4 DEF Dumping
<1>6. \A o \in Procs : LoadsOf(o)' = LoadsOf(o) /\ DumpsOf(o)' = DumpsOf(o)
  BY <1>4 DEF DumpsOf, LoadsOf
<1>7. \A o : LiveShards(o)' = LoadsOf(o)' \cup DumpsOf(o)'
  BY DEF LiveShards, LoadsOf, DumpsOf, LoadSet, DumpSet, LateSet, LateOf, OutOf, InOf, Rng
<1>8. \A o \in Procs : LiveShards(o)' = LiveShards(o)
  BY <1>6, <1>7, LiveIs
<1>9. Live' = Live
  BY <1>8, Zenon DEF Live
<1>10. \A o \in Procs : Touched(o)' = Touched(o)
  BY <1>6 DEF Touched
<1> QED BY <1>1, <1>3, <1>5, <1>9, <1>10

----------------------------------------------------------------------------
(* The queues of waiting tasks                                              *)

LEMMA WaitsKeep ==
  ASSUME Waits, Started, waiting' = waiting, sc' = sc,
         \A t \in Tasks : st'[t] = "new" => st[t] = "new",
         \A o \in Procs : Touched(o)' \in SUBSET Touched(o),
         \A o \in Procs : Touched(o) \in SUBSET Tasks
  PROVE  Waits' /\ Started'
<1>1. KeysOf' = KeysOf
  BY DEF KeysOf
<1>2. Waits'
  BY <1>1 DEF Waits, Line
<1>3. Started'
  BY DEF Started
<1> QED BY <1>2, <1>3

LEMMA WaitsTake ==
  ASSUME Waits, Started, sc' = sc, st' = st, ApiType, NEW p \in Procs, NEW q \in {"load", "dump"},
         waiting[q][p] # <<>>, waiting' = [waiting EXCEPT ![q][p] = Tail(@)],
         \A o \in Procs : o # p => Touched(o)' \in SUBSET Touched(o),
         Touched(p)' \in SUBSET (Touched(p) \cup {Head(waiting[q][p])})
  PROVE  /\ Waits' /\ Started' /\ waiting' \in [{"load", "dump"} -> [Procs -> Seq(Tasks)]]
         /\ LET t == Head(waiting[q][p])
            IN  /\ t \in Tasks /\ QueueOf(t) = q /\ ProcOf[t] = p /\ KeysOf[t] # <<>>
                /\ t \notin Touched(p)
<1> DEFINE w == waiting[q][p]
           t == Head(w)
<1>0. KeysOf' = KeysOf
  BY DEF KeysOf
<1>1. w \in Seq(Tasks) /\ Distinct(w) /\ Line(KeysOf, q, p, w, st, Touched(p))
  BY DEF Waits, Line
<1>2. Tail(w) \in Seq(Tasks) /\ Rng(w) = {t} \cup Rng(Tail(w))
  BY <1>1, RngTail
<1>3. Distinct(Tail(w)) /\ t \notin Rng(Tail(w))
  BY <1>1, DistinctTail
<1>4. t \in Tasks /\ QueueOf(t) = q /\ ProcOf[t] = p /\ KeysOf[t] # <<>> /\ t \notin Touched(p) /\ st[t] # "new"
  BY <1>1, <1>2 DEF Line
<1>5. /\ waiting' \in [{"load", "dump"} -> [Procs -> Seq(Tasks)]] /\ waiting'[q][p] = Tail(w)
      /\ \A r \in {"load", "dump"}, o \in Procs : r # q \/ o # p => waiting'[r][o] = waiting[r][o]
  BY <1>2 DEF ApiType
<1>6. ASSUME NEW o \in Procs, NEW r \in {"load", "dump"}
      PROVE  Line(KeysOf', r, o, waiting'[r][o], st', Touched(o)')
  <2>1. CASE r = q /\ o = p
    <3>1. \A u \in Rng(Tail(w)) : u \notin Touched(p)'
      BY <1>1, <1>2, <1>3 DEF Line
    <3> QED BY <1>0, <1>1, <1>2, <1>3, <1>5, <2>1, <3>1 DEF Line
  <2>2. CASE r # q /\ o = p
    <3>1. Line(KeysOf, r, p, waiting[r][p], st, Touched(p))
      BY DEF Waits
    <3>2. \A u \in Rng(waiting[r][p]) : u \notin Touched(p)'
      BY <3>1, <1>4, <2>2 DEF Line
    <3> QED BY <1>0, <1>5, <2>2, <3>1, <3>2 DEF Line
  <2>3. CASE o # p
    <3>1. Line(KeysOf, r, o, waiting[r][o], st, Touched(o))
      BY DEF Waits
    <3> QED BY <1>0, <1>5, <2>3, <3>1 DEF Line
  <2> QED BY <2>1, <2>2, <2>3
<1>7. Waits'
  BY <1>6 DEF Waits
<1>8. Started'
  BY <1>4 DEF Started
<1> QED BY <1>4, <1>5, <1>7, <1>8

LEMMA TouchedTasks ==
  ASSUME Loading, Dumping, NEW p \in Procs
  PROVE  Touched(p) \in SUBSET Tasks /\ \A t \in Touched(p) : ProcOf[t] = p
<1>1. disp[p].t # None => disp[p].t \in Tasks /\ ProcOf[disp[p].t] = p
  BY DEF Loading, LoadShape, DispShape, Tasks
<1>2. dump[p].t # None => dump[p].t \in Tasks /\ ProcOf[dump[p].t] = p
  BY DEF Dumping, DumpShape, MakerShape, Tasks
<1>3. \A t \in LateOf(dumping[p], dumper[p]) : t \in Tasks /\ ProcOf[t] = p
  BY DEF Dumping, DumpShape, LateShape, Tasks
<1>4. \A s \in LoadsOf(p) : s.t \in Tasks /\ ProcOf[s.t] = p
  BY WhoseShards DEF Tasks
<1> QED BY <1>1, <1>2, <1>3, <1>4 DEF Touched

Structure == Places /\ Counts

(* The caller                                                               *)
LEMMA SubmitKeeps ==
  ASSUME Structure, NEW t \in Tasks, Submit(t), sc' = sc
  PROVE  Structure'
<1> DEFINE q == QueueOf(t)
           p == ProcOf[t]
           w == waiting[q][p]
<1>1. q \in {"load", "dump"} /\ p \in Procs /\ ApiType
  BY StoreAssumption DEF QueueOf, Structure, Places
<1>2. /\ LoadType' /\ DumpType' /\ Loading' /\ Dumping' /\ Live' = Live
      /\ \A o \in Procs : Touched(o)' \in SUBSET Touched(o)
  BY NobodyMoves DEF Submit, Structure, Places, loadVars, dumpVars, backend, DumpType
<1>3. Counts'
  BY <1>2 DEF Structure, Counts, Submit, buffer
<1>4. /\ st[t] = "new" /\ KeysOf[t] # <<>> /\ st' = [st EXCEPT ![t] = "run"]
      /\ st' \in [Tasks -> TaskStates] /\ st'[t] # "new"
      /\ \A u \in Tasks : st'[u] = "new" => st[u] = "new"
  BY <1>1 DEF Submit, Step, ApiType, TaskStates
<1>5. KeysOf' = KeysOf
  BY DEF KeysOf
<1>6. \A o \in Procs : Touched(o) \in SUBSET Tasks
  BY TouchedTasks DEF Structure, Places
<1>7. CASE Len(w) < WaitingDepth
  <2>1. waiting' = [waiting EXCEPT ![q][p] = Append(@, t)] /\ failureSet' = failureSet /\ done' = done
    BY <1>7 DEF Submit
  <2>2. Line(KeysOf, q, p, w, st, Touched(p))
    BY <1>1 DEF Structure, Places, Waits
  <2>3. w \in Seq(Tasks) /\ Distinct(w) /\ t \notin Rng(w)
    BY <2>2, <1>4 DEF Line
  <2>4. Append(w, t) \in Seq(Tasks) /\ Distinct(Append(w, t)) /\ Rng(Append(w, t)) = Rng(w) \cup {t}
    BY <2>3, RngAppend, DistinctAppend
  <2>5. /\ waiting' \in [{"load", "dump"} -> [Procs -> Seq(Tasks)]] /\ waiting'[q][p] = Append(w, t)
        /\ \A r \in {"load", "dump"}, o \in Procs : r # q \/ o # p => waiting'[r][o] = waiting[r][o]
    BY <2>1, <2>4, <1>1 DEF ApiType
  <2>6. ApiType'
    BY <2>1, <2>5, <1>1, <1>4 DEF ApiType
  <2>7. t \notin Touched(p)
    BY <1>1, <1>4 DEF Structure, Places, Started
  <2>8. ASSUME NEW o \in Procs, NEW r \in {"load", "dump"}
        PROVE  Line(KeysOf', r, o, waiting'[r][o], st', Touched(o)')
    <3>0. Touched(o)' \in SUBSET Touched(o)
      BY <1>2
    <3>1. CASE r = q /\ o = p
      <4>1. \A u \in Rng(w) \cup {t} : /\ u \in Tasks /\ QueueOf(u) = q /\ ProcOf[u] = p
                                       /\ st'[u] # "new" /\ KeysOf[u] # <<>> /\ u \notin Touched(p)
        BY <2>2, <2>7, <1>4 DEF Line
      <4> QED BY <3>0, <3>1, <4>1, <2>4, <2>5, <1>5 DEF Line
    <3>2. CASE r # q \/ o # p
      <4>1. Line(KeysOf, r, o, waiting[r][o], st, Touched(o))
        BY DEF Structure, Places, Waits
      <4> QED BY <3>0, <3>2, <4>1, <2>5, <1>4, <1>5 DEF Line
    <3> QED BY <3>1, <3>2
  <2>9. Waits'
    BY <2>8 DEF Waits
  <2>10. Started'
    <3>1. \A o \in Procs : \A u \in Touched(o) : u \in Tasks /\ st[u] # "new"
      BY <1>6 DEF Structure, Places, Started
    <3> QED BY <3>1, <1>2, <1>4 DEF Started
  <2> QED BY <2>6, <2>9, <2>10, <1>2, <1>3 DEF Structure, Places
<1>8. CASE ~(Len(w) < WaitingDepth)
  <2>1. failureSet' = failureSet \cup {t} /\ done' = done \cup {t} /\ waiting' = waiting
    BY <1>8 DEF Submit, Fails, Done
  <2>2. ApiType'
    BY <2>1, <1>1, <1>4 DEF ApiType
  <2>3. Waits' /\ Started'
    BY <2>1, <1>2, <1>4, <1>6, WaitsKeep DEF Structure, Places
  <2> QED BY <2>2, <2>3, <1>2, <1>3 DEF Structure, Places
<1> QED BY <1>7, <1>8

LEMMA WaitKeeps ==
  ASSUME Structure, NEW t \in Tasks, WaitReturns(t) \/ WaitExpires(t), sc' = sc
  PROVE  Structure'
<1>1. /\ LoadType' /\ DumpType' /\ Loading' /\ Dumping' /\ Live' = Live
      /\ \A o \in Procs : Touched(o)' \in SUBSET Touched(o)
  BY NobodyMoves DEF WaitReturns, WaitExpires, Structure, Places, loadVars, dumpVars, backend, DumpType
<1>2. Counts'
  BY <1>1 DEF Structure, Counts, WaitReturns, WaitExpires, buffer
<1>3. /\ waiting' = waiting /\ st \in [Tasks -> TaskStates]
      /\ \E x \in {"ok", "failed", "timeout", "drain"} : st' = [st EXCEPT ![t] = x]
      /\ done' = done /\ failureSet' \in SUBSET Tasks
  BY DEF WaitReturns, WaitExpires, Structure, Places, ApiType, Step, Fails
<1>4. ApiType'
  BY <1>3 DEF ApiType, Structure, Places, TaskStates
<1>5. \A u \in Tasks : st'[u] = "new" => st[u] = "new"
  BY <1>3
<1>6. \A o \in Procs : Touched(o) \in SUBSET Tasks
  BY TouchedTasks DEF Structure, Places
<1>7. Waits' /\ Started'
  BY <1>1, <1>3, <1>5, <1>6, WaitsKeep DEF Structure, Places
<1> QED BY <1>1, <1>2, <1>4, <1>7 DEF Structure, Places

----------------------------------------------------------------------------
(* How a step of a stage ends: where tasks are, and what the nodes count    *)

LEMMA PlacesKeep ==
  ASSUME Places, LoadType', DumpType', Loading', Dumping',
         \A o \in Procs : Touched(o)' \in SUBSET Touched(o),
         waiting' = waiting, st' = st, sc' = sc, failureSet' \in SUBSET Tasks, done' \in SUBSET Tasks
  PROVE  Places'
<1>1. ApiType'
  BY DEF Places, ApiType
<1>2. \A o \in Procs : Touched(o) \in SUBSET Tasks
  BY TouchedTasks DEF Places
<1>3. Waits' /\ Started'
  BY <1>2, WaitsKeep DEF Places
<1> QED BY <1>1, <1>3 DEF Places

LEMMA CountsKeep ==
  ASSUME Counts, Live' = Live, tab' \in Tables, \A n \in Nodes : tab'[n].ref = tab[n].ref
  PROVE  Counts'
<1>1. Counted(tab', Live)
  BY DEF Counts, Counted
<1> QED BY <1>1 DEF Counts

LEMMA CountsAdd ==
  ASSUME Counts, NEW s, s \notin Live, Live' = Live \cup {s}, tab' \in Tables,
         \A n \in Nodes : tab'[n].ref = IF n = s.node THEN tab[n].ref + 1 ELSE tab[n].ref
  PROVE  Counts'
<1>1. Counted(tab', Live \cup {s}) /\ IsFiniteSet(Live \cup {s})
  BY CountAdd DEF Counts
<1> QED BY <1>1 DEF Counts

LEMMA CountsDrop ==
  ASSUME Counts, NEW S \in SUBSET Live, Live' = Live \ S, tab' \in Tables,
         \A n \in Nodes : tab'[n].ref = tab[n].ref - Cardinality(Pins(S, n))
  PROVE  Counts'
<1>1. Counted(tab', Live \ S) /\ IsFiniteSet(Live \ S)
  BY CountDrop DEF Counts
<1> QED BY <1>1 DEF Counts

(* Handles of a set of shards are dropped from a table with the old counts. *)
LEMMA CountsReleaseAll ==
  ASSUME Counts, NEW S \in SUBSET Live, Live' = Live \ S, NEW tb \in Tables,
         \A n \in Nodes : tb[n].ref = tab[n].ref, tab' = ReleaseAll(tb, S)
  PROVE  Counts'
<1>1. IsFiniteSet(S)
  BY FS_Subset DEF Counts
<1>2. SameBut(tab', tb) /\ \A n \in Nodes : tab'[n].ref = tb[n].ref - Cardinality(Pins(S, n))
  BY <1>1, ReleaseAllSets
<1> QED BY <1>2, CountsDrop DEF SameBut

LEMMA CountsRelease ==
  ASSUME Counts, NEW s \in Live, s.node \in Nodes, Live' = Live \ {s}, NEW tb \in Tables,
         \A n \in Nodes : tb[n].ref = tab[n].ref, tab' = Release(tb, s.node)
  PROVE  Counts'
<1>1. SameBut(tab', tb) /\ \A n \in Nodes : tab'[n].ref = tb[n].ref - Cardinality(Pins({s}, n))
  BY ReleaseSets
<1>2. {s} \in SUBSET Live
  OBVIOUS
<1> QED BY <1>1, <1>2, CountsDrop DEF SameBut

LEMMA InPlaces ==
  ASSUME Structure
  PROVE  /\ Places /\ Counts /\ ApiType /\ LoadType /\ DumpType /\ Loading /\ Dumping
         /\ tab \in Tables /\ sc \in Scenarios /\ failureSet \in SUBSET Tasks /\ done \in SUBSET Tasks
         /\ \A t \in Tasks : KeysOf[t] \in Seq(Keys) /\ Len(KeysOf[t]) \in Nat /\ Len(KeysOf[t]) <= MaxShards
<1>1. sc \in Scenarios
  BY DEF Structure, Places, ApiType
<1>2. \A t \in Tasks : KeysOf[t] \in Seq(Keys) /\ Len(KeysOf[t]) <= MaxShards
  BY <1>1, StoreAssumption DEF KeysOf
<1>3. \A t \in Tasks : Len(KeysOf[t]) \in Nat
  BY <1>2, LenProperties
<1> QED BY <1>1, <1>2, <1>3 DEF Structure, Places, Counts, ApiType

LEMMA KeyInKeys ==
  ASSUME Structure, NEW t \in Tasks, NEW i \in 1 .. Len(KeysOf[t])
  PROVE  KeysOf[t][i] \in Keys /\ i \in 1 .. MaxShards
<1>1. KeysOf[t] \in Seq(Keys) /\ Len(KeysOf[t]) \in Nat /\ Len(KeysOf[t]) <= MaxShards /\ MaxShards \in Nat
  BY InPlaces, StoreAssumption
<1>2. KeysOf[t][i] \in Keys
  BY <1>1, ElementOfSeq
<1> QED BY <1>1, <1>2

----------------------------------------------------------------------------
(* The load dispatcher                                                      *)

LEMMA DispatchTakeKeeps ==
  ASSUME Structure, NEW p \in Procs, DispatchTake(p), sc' = sc
  PROVE  Structure'
<1> DEFINE t == Head(waiting["load"][p])
           d == [IdleDisp EXCEPT !.t = t]
<1>1. /\ disp[p] = IdleDisp /\ waiting["load"][p] # <<>> /\ st' = st /\ tab' = tab
      /\ waiting' = [waiting EXCEPT !["load"][p] = Tail(@)] /\ failureSet' = failureSet
      /\ running' = running /\ xfer' = xfer /\ holder' = holder
      /\ dump' = dump /\ dumping' = dumping /\ dumper' = dumper /\ bdump' = bdump
  BY DEF DispatchTake, buffer, dumpVars, backend
<1>2. Line(KeysOf, "load", p, waiting["load"][p], st, Touched(p))
  BY DEF Structure, Places, Waits
<1>3. t \in Rng(waiting["load"][p])
  BY <1>1, <1>2, RngTail DEF Line
<1>4. t \in Tasks /\ t \in Loads /\ ProcOf[t] = p /\ KeysOf[t] # <<>> /\ t \notin Touched(p)
  BY <1>2, <1>3 DEF Line, QueueOf
<1>5. CASE t \in failureSet
  <2>1. disp' = disp /\ done' = done \cup {t}
    BY <1>5 DEF DispatchTake, Done
  <2>2. /\ LoadType' /\ DumpType' /\ Loading' /\ Dumping' /\ Live' = Live
        /\ \A o \in Procs : Touched(o)' \in SUBSET Touched(o)
    BY <1>1, <2>1, NobodyMoves, InPlaces DEF DumpType
  <2>3. Waits' /\ Started' /\ waiting' \in [{"load", "dump"} -> [Procs -> Seq(Tasks)]]
    BY <1>1, <2>2, WaitsTake DEF Structure, Places
  <2>4. ApiType'
    BY <1>1, <1>4, <2>1, <2>3 DEF ApiType, Structure, Places
  <2>5. Counts'
    BY <1>1, <2>2, CountsKeep, InPlaces
  <2> QED BY <2>2, <2>3, <2>4, <2>5 DEF Structure, Places
<1>6. CASE t \notin failureSet
  <2>1. disp' = Step(disp, p, d) /\ done' = done
    BY <1>6 DEF DispatchTake
  <2>2. LoadsMove(p, d, running[p], xfer[p], holder[p])
    <3> HIDE DEF d
    <3> QED BY <1>1, <2>1, Stays, InPlaces DEF LoadsMove
  <2>3. LoadShape(KeysOf, p, IdleDisp, running[p], xfer[p], holder[p])
    BY <1>1, InPlaces DEF Loading
  <2>4. \A s \in LoadSet(IdleDisp, running[p], xfer[p], holder[p]) : s.t # t
    BY <1>1, <1>4 DEF Touched, LoadsOf
  <2>5. 1 \in 1 .. Len(KeysOf[t])
    BY <1>4, InPlaces, EmptySeq
  <2>6. /\ LoadShape(KeysOf, p, d, running[p], xfer[p], holder[p])
        /\ LoadSet(d, running[p], xfer[p], holder[p]) = LoadsOf(p)
    BY <1>1, <1>4, <2>3, <2>4, <2>5, LoadStart DEF LoadsOf
  <2>7. d.t = t
    BY DEF IdleDisp
  <2> HIDE DEF d
  <2>8. /\ LoadType' /\ DumpType' /\ Loading' /\ Dumping' /\ Live' = Live
        /\ \A o \in Procs : o # p => Touched(o)' \in SUBSET Touched(o)
        /\ Touched(p)' \in SUBSET (Touched(p) \cup ({d.t} \ {None}))
    BY <2>2, <2>6, LoadKeeps, InPlaces
  <2>9. Touched(p)' \in SUBSET (Touched(p) \cup {t})
    BY <2>7, <2>8
  <2>10. Waits' /\ Started' /\ waiting' \in [{"load", "dump"} -> [Procs -> Seq(Tasks)]]
    BY <1>1, <2>8, <2>9, WaitsTake DEF Structure, Places
  <2>11. ApiType'
    BY <1>1, <2>1, <2>10 DEF ApiType, Structure, Places
  <2>12. Counts'
    BY <1>1, <2>8, CountsKeep, InPlaces
  <2> QED BY <2>8, <2>10, <2>11, <2>12 DEF Structure, Places
<1> QED BY <1>5, <1>6

LEMMA DispatchGetKeeps ==
  ASSUME Structure, NEW p \in Procs, DispatchGet(p), sc' = sc
  PROVE  Structure'
<1> DEFINE d == disp[p]
           k == KeysOf[d.t][d.i]
<1>1. /\ d.t # None /\ d.out = None /\ running' = running /\ xfer' = xfer /\ holder' = holder
      /\ dump' = dump /\ dumping' = dumping /\ dumper' = dumper /\ bdump' = bdump
      /\ waiting' = waiting /\ st' = st /\ failureSet' = failureSet /\ done' = done
  BY DEF DispatchGet, dumpVars, api
<1>2. PICK r \in Get(k, TRUE) :
         tab' = r.tab /\ disp' = [disp EXCEPT ![p].out = ShardTask(d.t, d.i, r.node, NeedsLoad(r))]
  BY DEF DispatchGet
<1>3. LoadShape(KeysOf, p, d, running[p], xfer[p], holder[p])
  BY InPlaces DEF Loading
<1>4. d.t \in Loads /\ d.t \in Tasks /\ ProcOf[d.t] = p /\ d.i \in 1 .. Len(KeysOf[d.t])
  BY <1>1, <1>3 DEF LoadShape, DispShape, Tasks
<1>5. k \in Keys /\ d.i \in 1 .. MaxShards
  BY <1>4, KeyInKeys
<1>6. Got(tab, k, Bypass /\ TRUE, r)
  BY <1>5, GetGives, InPlaces
<1> DEFINE s == ShardTask(d.t, d.i, r.node, NeedsLoad(r))
           e == [d EXCEPT !.out = s]
<1>7. /\ s \in ShardTasks /\ s.t = d.t /\ s.i = d.i /\ s.node = r.node
      /\ s.last = (s.i = Len(KeysOf[s.t]))
  BY <1>4, <1>5, <1>6 DEF ShardTask, ShardTasks, Got, NeedsLoad
<1>a. disp' = [disp EXCEPT ![p].out = s]
  BY <1>2
<1> HIDE DEF s
<1>8. disp' = Step(disp, p, e)
  BY <1>a DEF Step
<1>9. LoadsMove(p, e, running[p], xfer[p], holder[p])
  <2> HIDE DEF e
  <2> QED BY <1>1, <1>8, Stays, InPlaces DEF LoadsMove
<1>10. /\ LoadShape(KeysOf, p, e, running[p], xfer[p], holder[p]) /\ s \notin LoadsOf(p)
       /\ LoadSet(e, running[p], xfer[p], holder[p]) = LoadsOf(p) \cup {s}
  BY <1>1, <1>3, <1>7, LoadGet DEF LoadsOf
<1>11. e.t = disp[p].t
  BY <1>3 DEF LoadShape, DispShape, Disps
<1> HIDE DEF e
<1>12. /\ LoadType' /\ DumpType' /\ Loading' /\ Dumping' /\ s \notin Live /\ Live' = Live \cup {s}
       /\ \A q \in Procs : Touched(q)' \in SUBSET Touched(q)
  BY <1>4, <1>7, <1>9, <1>10, <1>11, LoadAdds, InPlaces
<1>13. Places'
  BY <1>1, <1>12, PlacesKeep, InPlaces
<1>14. Counts'
  BY <1>2, <1>6, <1>7, <1>12, CountsAdd, InPlaces DEF Got
<1> QED BY <1>13, <1>14 DEF Structure

LEMMA DispatchRejectedKeeps ==
  ASSUME Structure, NEW p \in Procs, DispatchRejected(p), sc' = sc
  PROVE  Structure'
<1> DEFINE d == disp[p]
           k == KeysOf[d.t][d.i]
<1>1. /\ d.t # None /\ d.out = None /\ running' = running /\ xfer' = xfer /\ holder' = holder
      /\ dump' = dump /\ dumping' = dumping /\ dumper' = dumper /\ bdump' = bdump
      /\ disp' = Step(disp, p, IdleDisp) /\ waiting' = waiting /\ st' = st
      /\ failureSet' = failureSet \cup {d.t} /\ done' = done \cup {d.t}
  BY DEF DispatchRejected, dumpVars, backend, Fails, Done
<1>2. PICK r \in Get(k, TRUE) : tab' = Release(Mark(r.tab, r.node, "FAILED"), r.node)
  BY DEF DispatchRejected
<1>3. LoadShape(KeysOf, p, d, running[p], xfer[p], holder[p])
  BY InPlaces DEF Loading
<1>4. d.t \in Loads /\ d.t \in Tasks /\ ProcOf[d.t] = p /\ d.i \in 1 .. Len(KeysOf[d.t])
  BY <1>1, <1>3 DEF LoadShape, DispShape, Tasks
<1>5. k \in Keys
  BY <1>4, KeyInKeys
<1>6. Got(tab, k, Bypass /\ TRUE, r)
  BY <1>5, GetGives, InPlaces
<1>7. LoadsMove(p, IdleDisp, running[p], xfer[p], holder[p])
  BY <1>1, Stays, InPlaces DEF LoadsMove
<1>8. /\ LoadShape(KeysOf, p, IdleDisp, running[p], xfer[p], holder[p])
      /\ LoadSet(IdleDisp, running[p], xfer[p], holder[p]) = LoadsOf(p)
  BY <1>1, <1>3, LoadIdle DEF LoadsOf
<1>9. IdleDisp.t = None
  BY DEF IdleDisp
<1>10. /\ LoadType' /\ DumpType' /\ Loading' /\ Dumping' /\ Live' = Live
       /\ \A q \in Procs : q # p => Touched(q)' \in SUBSET Touched(q)
       /\ Touched(p)' \in SUBSET (Touched(p) \cup ({IdleDisp.t} \ {None}))
  BY <1>7, <1>8, LoadKeeps, InPlaces
<1>11. \A q \in Procs : Touched(q)' \in SUBSET Touched(q)
  BY <1>9, <1>10
<1>12. failureSet' \in SUBSET Tasks /\ done' \in SUBSET Tasks
  BY <1>1, <1>4, InPlaces
<1>13. Places'
  BY <1>1, <1>10, <1>11, <1>12, PlacesKeep, InPlaces
<1>14. tab' \in Tables /\ \A n \in Nodes : tab'[n].ref = tab[n].ref
  <2>1. r.tab \in Tables /\ r.node \in Nodes
    BY <1>6 DEF Got
  <2> DEFINE M == Mark(r.tab, r.node, "FAILED")
  <2>2. M \in Tables /\ \A n \in Nodes : M[n].ref = r.tab[n].ref
    BY <2>1, MarkSets
  <2> HIDE DEF M
  <2>3. tab' \in Tables /\ \A n \in Nodes : tab'[n].ref = IF n = r.node THEN M[n].ref - 1 ELSE M[n].ref
    BY <1>2, <2>1, <2>2, ReleaseOne DEF SameBut, M
  <2>4. \A n \in Nodes : tab[n].ref \in Int
    BY InPlaces DEF Tables
  <2> QED BY <1>6, <2>2, <2>3, <2>4 DEF Got
<1>15. Counts'
  BY <1>10, <1>14, CountsKeep, InPlaces
<1> QED BY <1>13, <1>15 DEF Structure

LEMMA DispatchPushKeeps ==
  ASSUME Structure, NEW p \in Procs, DispatchPush(p), sc' = sc
  PROVE  Structure'
<1> DEFINE d == disp[p]
           r == Append(running[p], d.out)
           e == AfterPush(d)
<1>1. /\ d.out # None /\ running' = Step(running, p, r) /\ disp' = Step(disp, p, e)
      /\ xfer' = xfer /\ holder' = holder
      /\ dump' = dump /\ dumping' = dumping /\ dumper' = dumper /\ bdump' = bdump
      /\ waiting' = waiting /\ st' = st /\ failureSet' = failureSet /\ done' = done /\ tab' = tab
  BY DEF DispatchPush, AfterPush, dumpVars, backend, api, buffer
<1>2. LoadShape(KeysOf, p, d, running[p], xfer[p], holder[p])
  BY InPlaces DEF Loading
<1>3. /\ LoadShape(KeysOf, p, e, r, xfer[p], holder[p])
      /\ LoadSet(e, r, xfer[p], holder[p]) = LoadsOf(p) /\ e.t \in {disp[p].t, None}
  BY <1>1, <1>2, LoadPush DEF LoadsOf
<1> HIDE DEF e, r
<1>5. LoadsMove(p, e, r, xfer[p], holder[p])
  BY <1>1, Stays, InPlaces DEF LoadsMove
<1>6. /\ LoadType' /\ DumpType' /\ Loading' /\ Dumping' /\ Live' = Live
      /\ \A q \in Procs : q # p => Touched(q)' \in SUBSET Touched(q)
      /\ Touched(p)' \in SUBSET (Touched(p) \cup ({e.t} \ {None}))
  BY <1>3, <1>5, LoadKeeps, InPlaces
<1>7. \A q \in Procs : Touched(q)' \in SUBSET Touched(q)
  BY <1>3, <1>6 DEF Touched
<1>8. Places'
  BY <1>1, <1>6, <1>7, PlacesKeep, InPlaces
<1>9. Counts'
  BY <1>1, <1>6, CountsKeep, InPlaces
<1> QED BY <1>8, <1>9 DEF Structure

----------------------------------------------------------------------------
(* The transfer thread                                                      *)

(* What a step of the transfer thread leaves alone.                         *)
OnlyTransfer(p, r, x, h) ==
  /\ running' = Step(running, p, r) /\ xfer' = Step(xfer, p, x) /\ holder' = Step(holder, p, h)
  /\ disp' = disp /\ dump' = dump /\ dumping' = dumping /\ dumper' = dumper /\ bdump' = bdump
  /\ waiting' = waiting /\ st' = st /\ sc' = sc
  /\ failureSet' \in SUBSET Tasks /\ done' \in SUBSET Tasks

LEMMA TransferKeeps ==
  ASSUME Structure, NEW p \in Procs, NEW r, NEW x, NEW h, OnlyTransfer(p, r, x, h),
         LoadShape(KeysOf, p, disp[p], r, x, h), LoadSet(disp[p], r, x, h) = LoadsOf(p)
  PROVE  Places' /\ Live' = Live
<1>1. LoadsMove(p, disp[p], r, x, h)
  BY Stays, InPlaces DEF LoadsMove, OnlyTransfer
<1>2. /\ LoadType' /\ DumpType' /\ Loading' /\ Dumping' /\ Live' = Live
      /\ \A q \in Procs : q # p => Touched(q)' \in SUBSET Touched(q)
      /\ Touched(p)' \in SUBSET (Touched(p) \cup ({disp[p].t} \ {None}))
  BY <1>1, LoadKeeps, InPlaces
<1>3. \A q \in Procs : Touched(q)' \in SUBSET Touched(q)
  BY <1>2 DEF Touched
<1> QED BY <1>2, <1>3, PlacesKeep, InPlaces DEF OnlyTransfer

LEMMA TransferDrops ==
  ASSUME Structure, NEW p \in Procs, NEW r, NEW x, NEW h, OnlyTransfer(p, r, x, h),
         LoadShape(KeysOf, p, disp[p], r, x, h), NEW S \in SUBSET LoadsOf(p),
         LoadSet(disp[p], r, x, h) = LoadsOf(p) \ S
  PROVE  Places' /\ S \in SUBSET Live /\ Live' = Live \ S
<1>1. LoadsMove(p, disp[p], r, x, h)
  BY Stays, InPlaces DEF LoadsMove, OnlyTransfer
<1>2. /\ LoadType' /\ DumpType' /\ Loading' /\ Dumping' /\ S \in SUBSET Live /\ Live' = Live \ S
      /\ \A q \in Procs : Touched(q)' \in SUBSET Touched(q)
  BY <1>1, LoadDrops, InPlaces
<1> QED BY <1>2, PlacesKeep, InPlaces DEF OnlyTransfer

LEMMA TransferTakeKeeps ==
  ASSUME Structure, NEW p \in Procs, TransferTake(p), sc' = sc
  PROVE  Structure'
<1> DEFINE x == [s |-> Head(running[p]), stage |-> "wait"]
<1>1. xfer[p] = None /\ running[p] # <<>> /\ tab' = tab
  BY DEF TransferTake, buffer
<1>2. LoadShape(KeysOf, p, disp[p], running[p], None, holder[p])
  BY <1>1, InPlaces DEF Loading
<1>3. OnlyTransfer(p, Tail(running[p]), x, holder[p])
  <2>1. xfer' = Step(xfer, p, x) /\ running' = Step(running, p, Tail(running[p]))
    BY DEF TransferTake
  <2> HIDE DEF x
  <2> QED BY <2>1, Stays, InPlaces DEF TransferTake, OnlyTransfer, dumpVars, backend, api
<1>4. /\ LoadShape(KeysOf, p, disp[p], Tail(running[p]), x, holder[p])
      /\ LoadSet(disp[p], Tail(running[p]), x, holder[p]) = LoadsOf(p)
  BY <1>1, <1>2, LoadTake DEF LoadsOf
<1> HIDE DEF x
<1>5. Places' /\ Live' = Live
  BY <1>3, <1>4, TransferKeeps
<1>6. Counts'
  BY <1>1, <1>5, CountsKeep, InPlaces
<1> QED BY <1>5, <1>6 DEF Structure

LEMMA TransferSkipKeeps ==
  ASSUME Structure, NEW p \in Procs, TransferSkip(p), sc' = sc
  PROVE  Structure'
<1> DEFINE s == Head(running[p])
           r == Tail(running[p])
           h == IF s.last THEN {} ELSE holder[p]
           S == Dropped(p, s)
<1>1. xfer[p] = None /\ running[p] # <<>> /\ tab' = ReleaseAll(tab, S)
  BY DEF TransferSkip
<1>2. LoadShape(KeysOf, p, disp[p], running[p], None, holder[p])
  BY <1>1, InPlaces DEF Loading
<1>3. /\ LoadShape(KeysOf, p, disp[p], r, None, holder[p]) /\ s \in LoadsOf(p)
      /\ LoadSet(disp[p], r, None, holder[p]) = LoadsOf(p) \ {s}
  <2>1. LoadsOf(p) = LoadSet(disp[p], running[p], None, holder[p])
    BY <1>1 DEF LoadsOf
  <2>2. /\ LoadShape(KeysOf, p, disp[p], r, None, holder[p])
        /\ s \in LoadSet(disp[p], running[p], None, holder[p])
        /\ LoadSet(disp[p], r, None, holder[p]) = But(LoadSet(disp[p], running[p], None, holder[p]), s)
    BY <1>1, <1>2, LoadSkip
  <2> QED BY <2>1, <2>2 DEF But
<1>4. /\ LoadShape(KeysOf, p, disp[p], r, None, {}) /\ holder[p] \in SUBSET (LoadsOf(p) \ {s})
      /\ LoadSet(disp[p], r, None, {}) = (LoadsOf(p) \ {s}) \ holder[p]
  BY <1>3, LoadClear DEF Less
<1>5. /\ LoadShape(KeysOf, p, disp[p], r, None, h) /\ S \in SUBSET LoadsOf(p)
      /\ LoadSet(disp[p], r, None, h) = LoadsOf(p) \ S
  <2>1. CASE s.last
    BY <1>3, <1>4, <2>1 DEF Dropped
  <2>2. CASE ~s.last
    BY <1>3, <2>2 DEF Dropped
  <2> QED BY <2>1, <2>2
<1>6. s.t \in Tasks
  BY <1>3, WhoseShards, InPlaces DEF Tasks
<1>7. OnlyTransfer(p, r, None, h)
  <2>1. /\ running' = Step(running, p, r) /\ holder' = Step(holder, p, h)
        /\ xfer' = Step(xfer, p, None) /\ done' \in SUBSET Tasks
    BY <1>1, <1>6, Stays, InPlaces DEF TransferSkip, Done
  <2> HIDE DEF r, h
  <2> QED BY <2>1, InPlaces DEF TransferSkip, OnlyTransfer, dumpVars, backend
<1> HIDE DEF r, h, S
<1>8. Places' /\ S \in SUBSET Live /\ Live' = Live \ S
  BY <1>5, <1>7, TransferDrops
<1>9. Counts'
  BY <1>1, <1>8, CountsReleaseAll, InPlaces
<1> QED BY <1>8, <1>9 DEF Structure

LEMMA SettleSets ==
  ASSUME NEW tb \in Tables, NEW s, s.node \in Nodes, NEW x \in {"READY", "FAILED"}
  PROVE  /\ Settle(tb, s, x) \in Tables
         /\ \A n \in Nodes : /\ Settle(tb, s, x)[n].ref = tb[n].ref
                             /\ Settle(tb, s, x)[n].key = tb[n].key
                             /\ Settle(tb, s, x)[n].st =
                                  IF s.own /\ n = s.node /\ tb[n].st = "LOADING" THEN x ELSE tb[n].st
<1>1. CASE s.own
  <2>1. Settle(tb, s, x) = Mark(tb, s.node, x)
    BY <1>1 DEF Settle
  <2> DEFINE W == Mark(tb, s.node, x)
  <2>2. /\ W \in Tables
        /\ \A n \in Nodes : /\ W[n].key = tb[n].key /\ W[n].ref = tb[n].ref
                            /\ W[n].st = IF n = s.node /\ tb[n].st = "LOADING" THEN x ELSE tb[n].st
    BY MarkSets
  <2> HIDE DEF W
  <2> QED BY <1>1, <2>1, <2>2 DEF W
<1>2. CASE ~s.own
  BY <1>2 DEF Settle
<1> QED BY <1>1, <1>2

(* The shard the transfer thread works on.                                  *)
LEMMA AtTransfer ==
  ASSUME Structure, NEW p \in Procs, xfer[p] # None
  PROVE  /\ LoadShape(KeysOf, p, disp[p], running[p], xfer[p], holder[p])
         /\ xfer[p].s \in LoadsOf(p) /\ xfer[p].s \in ShardTasks /\ xfer[p].s.t \in Tasks
         /\ xfer[p].s.node \in Nodes
<1>1. LoadShape(KeysOf, p, disp[p], running[p], xfer[p], holder[p])
  BY InPlaces DEF Loading
<1>2. xfer[p].s \in LoadsOf(p)
  BY <1>1, LoadLeave DEF LoadsOf
<1>3. xfer[p].s \in ShardTasks
  BY <1>2, WhoseShards, InPlaces
<1> QED BY <1>1, <1>2, <1>3 DEF ShardTasks

LEMMA TransferCopyKeeps ==
  ASSUME Structure, NEW p \in Procs, TransferCopy(p), sc' = sc
  PROVE  Structure'
<1> DEFINE s == xfer[p].s
<1>1. xfer[p] # None /\ tab' = Settle(tab, s, "READY")
  BY DEF TransferCopy
<1>2. /\ LoadShape(KeysOf, p, disp[p], running[p], xfer[p], holder[p])
      /\ s \in LoadsOf(p) /\ s \in ShardTasks /\ s.t \in Tasks /\ s.node \in Nodes
  BY <1>1, AtTransfer
<1>3. Places' /\ Live' = Live
  <2>1. CASE s.last
    <3> DEFINE y == [xfer[p] EXCEPT !.stage = "sync"]
    <3>1. /\ LoadShape(KeysOf, p, disp[p], running[p], y, holder[p])
          /\ LoadSet(disp[p], running[p], y, holder[p]) = LoadsOf(p)
      BY <1>1, <1>2, <2>1, LoadSync DEF LoadsOf
    <3>2. xfer' = Step(xfer, p, y) /\ holder' = holder
      BY <2>1 DEF TransferCopy, Step
    <3> HIDE DEF y
    <3>3. OnlyTransfer(p, running[p], y, holder[p])
      BY <3>2, Stays, InPlaces DEF TransferCopy, OnlyTransfer, dumpVars, backend, api
    <3> QED BY <3>1, <3>3, TransferKeeps
  <2>2. CASE ~s.last
    <3> DEFINE h == With(holder[p], s)
    <3>1. /\ LoadShape(KeysOf, p, disp[p], running[p], None, h)
          /\ LoadSet(disp[p], running[p], None, h) = LoadsOf(p)
      BY <1>1, <1>2, LoadLeave DEF LoadsOf
    <3>2. xfer' = Step(xfer, p, None) /\ holder' = Step(holder, p, h)
      BY <2>2 DEF TransferCopy, With
    <3> HIDE DEF h
    <3>3. OnlyTransfer(p, running[p], None, h)
      BY <3>2, Stays, InPlaces DEF TransferCopy, OnlyTransfer, dumpVars, backend, api
    <3> QED BY <3>1, <3>3, TransferKeeps
  <2> QED BY <2>1, <2>2
<1>4. tab' \in Tables /\ \A n \in Nodes : tab'[n].ref = tab[n].ref
  BY <1>1, <1>2, SettleSets, InPlaces
<1>5. Counts'
  BY <1>3, <1>4, CountsKeep, InPlaces
<1> QED BY <1>3, <1>5 DEF Structure

(* A shard ends in error before its copy.                                   *)
LEMMA TransferFailsKeeps ==
  ASSUME Structure, NEW p \in Procs, xfer[p] # None, NEW tb \in Tables,
         \A n \in Nodes : tb[n].ref = tab[n].ref,
         TransferFails(p, xfer[p].s, tb), holder' = holder, sc' = sc
  PROVE  Structure'
<1> DEFINE s == xfer[p].s
<1>1. /\ LoadShape(KeysOf, p, disp[p], running[p], xfer[p], holder[p])
      /\ s \in LoadsOf(p) /\ s \in ShardTasks /\ s.t \in Tasks /\ s.node \in Nodes
  BY AtTransfer
<1>2. /\ LoadShape(KeysOf, p, disp[p], running[p], None, holder[p])
      /\ LoadSet(disp[p], running[p], None, holder[p]) = LoadsOf(p) \ {s}
  <2>1. LoadsOf(p) = LoadSet(disp[p], running[p], xfer[p], holder[p])
    BY DEF LoadsOf
  <2>2. /\ LoadShape(KeysOf, p, disp[p], running[p], None, holder[p])
        /\ LoadSet(disp[p], running[p], None, holder[p])
             = But(LoadSet(disp[p], running[p], xfer[p], holder[p]), s)
    BY <1>1, LoadLeave
  <2> QED BY <2>1, <2>2 DEF But
<1>3. OnlyTransfer(p, running[p], None, holder[p])
  BY <1>1, Stays, InPlaces DEF TransferFails, Fails, Done, OnlyTransfer, dumpVars, backend
<1> DEFINE S == {s}
<1>4. S \in SUBSET LoadsOf(p) /\ LoadSet(disp[p], running[p], None, holder[p]) = LoadsOf(p) \ S
  BY <1>1, <1>2
<1> HIDE DEF S
<1>a. Places' /\ S \in SUBSET Live /\ Live' = Live \ S
  BY <1>2, <1>3, <1>4, TransferDrops
<1>5. Places' /\ s \in Live /\ Live' = Live \ {s}
  BY <1>a DEF S
<1>6. Counts'
  BY <1>1, <1>5, CountsRelease, InPlaces DEF TransferFails
<1> QED BY <1>5, <1>6 DEF Structure

LEMMA TransferErrorKeeps ==
  ASSUME Structure, NEW p \in Procs, TransferBackendFailed(p) \/ TransferCopyFails(p), sc' = sc
  PROVE  Structure'
<1>1. xfer[p] # None /\ holder' = holder
  BY DEF TransferBackendFailed, TransferCopyFails
<1>2. PICK x \in {"READY", "FAILED"} : TransferFails(p, xfer[p].s, Settle(tab, xfer[p].s, x))
  BY DEF TransferBackendFailed, TransferCopyFails
<1>3. xfer[p].s.node \in Nodes
  BY <1>1, AtTransfer
<1>4. /\ Settle(tab, xfer[p].s, x) \in Tables
      /\ \A n \in Nodes : Settle(tab, xfer[p].s, x)[n].ref = tab[n].ref
  BY <1>3, SettleSets, InPlaces
<1> QED BY <1>1, <1>2, <1>4, TransferFailsKeeps

(* Synchronize ends, well or not: holder_ and the last shard are dropped.   *)
LEMMA SyncDrops ==
  ASSUME Structure, NEW p \in Procs, xfer[p] # None,
         OnlyTransfer(p, running[p], None, {})
  PROVE  /\ Places' /\ holder[p] \cup {xfer[p].s} \in SUBSET Live
         /\ Live' = Live \ (holder[p] \cup {xfer[p].s}) /\ xfer[p].s \notin holder[p]
<1> DEFINE s == xfer[p].s
<1>1. LoadShape(KeysOf, p, disp[p], running[p], xfer[p], holder[p]) /\ s \in LoadsOf(p)
  BY AtTransfer
<1>2. /\ LoadShape(KeysOf, p, disp[p], running[p], None, holder[p])
      /\ LoadSet(disp[p], running[p], None, holder[p]) = LoadsOf(p) \ {s}
  <2>1. LoadsOf(p) = LoadSet(disp[p], running[p], xfer[p], holder[p])
    BY DEF LoadsOf
  <2>2. /\ LoadShape(KeysOf, p, disp[p], running[p], None, holder[p])
        /\ LoadSet(disp[p], running[p], None, holder[p])
             = But(LoadSet(disp[p], running[p], xfer[p], holder[p]), s)
    BY <1>1, LoadLeave
  <2> QED BY <2>1, <2>2 DEF But
<1>3. /\ LoadShape(KeysOf, p, disp[p], running[p], None, {}) /\ holder[p] \in SUBSET (LoadsOf(p) \ {s})
      /\ LoadSet(disp[p], running[p], None, {}) = (LoadsOf(p) \ {s}) \ holder[p]
  BY <1>2, LoadClear DEF Less
<1> DEFINE S == holder[p] \cup {s}
<1>4. /\ S \in SUBSET LoadsOf(p) /\ s \notin holder[p]
      /\ LoadSet(disp[p], running[p], None, {}) = LoadsOf(p) \ S
  BY <1>1, <1>3
<1> HIDE DEF S
<1>5. Places' /\ S \in SUBSET Live /\ Live' = Live \ S
  BY <1>3, <1>4, TransferDrops
<1> QED BY <1>4, <1>5 DEF S

LEMMA TransferSyncKeeps ==
  ASSUME Structure, NEW p \in Procs, TransferSync(p), sc' = sc
  PROVE  Structure'
<1> DEFINE S == holder[p] \cup {xfer[p].s}
<1>1. xfer[p] # None /\ tab' = ReleaseAll(tab, S)
  BY DEF TransferSync
<1>2. xfer[p].s.t \in Tasks
  BY <1>1, AtTransfer
<1>3. OnlyTransfer(p, running[p], None, {})
  BY <1>2, Stays, InPlaces DEF TransferSync, Done, OnlyTransfer, dumpVars, backend
<1>4. Places' /\ S \in SUBSET Live /\ Live' = Live \ S
  BY <1>1, <1>3, SyncDrops
<1> HIDE DEF S
<1>5. Counts'
  BY <1>1, <1>4, CountsReleaseAll, InPlaces
<1> QED BY <1>4, <1>5 DEF Structure

LEMMA TransferSyncFailsKeeps ==
  ASSUME Structure, NEW p \in Procs, TransferSyncFails(p), sc' = sc
  PROVE  Structure'
<1> DEFINE h == holder[p]
           s == xfer[p].s
           tb == ReleaseAll(tab, h)
<1>1. xfer[p] # None /\ TransferFails(p, s, tb) /\ holder' = Step(holder, p, {})
  BY DEF TransferSyncFails
<1>2. s.t \in Tasks /\ s.node \in Nodes
  BY <1>1, AtTransfer
<1>3. OnlyTransfer(p, running[p], None, {})
  <2> HIDE DEF tb
  <2> QED BY <1>1, <1>2, Stays, InPlaces DEF TransferFails, Fails, Done, OnlyTransfer, dumpVars, backend
<1>4. /\ Places' /\ h \cup {s} \in SUBSET Live /\ Live' = Live \ (h \cup {s}) /\ s \notin h
  BY <1>1, <1>3, SyncDrops
<1>5. tab \in Tables /\ IsFiniteSet(Live) /\ Counted(tab, Live) /\ IsFiniteSet(h)
  BY <1>4, FS_Subset DEF Structure, Counts
<1>6. SameBut(tb, tab) /\ \A n \in Nodes : tb[n].ref = tab[n].ref - Cardinality(Pins(h, n))
  BY <1>5, ReleaseAllSets
<1> HIDE DEF tb
<1>7. tb \in Tables /\ Counted(tb, Live \ h) /\ IsFiniteSet(Live \ h)
  BY <1>4, <1>5, <1>6, CountDrop DEF SameBut
<1>8. tab' = Release(tb, s.node)
  BY <1>1 DEF TransferFails
<1>9. tab' \in Tables /\ \A n \in Nodes : tab'[n].ref = tb[n].ref - Cardinality(Pins({s}, n))
  BY <1>2, <1>7, <1>8, ReleaseSets DEF SameBut
<1>10. {s} \in SUBSET (Live \ h) /\ Live' = (Live \ h) \ {s}
  BY <1>4
<1>11. Counted(tab', (Live \ h) \ {s}) /\ IsFiniteSet((Live \ h) \ {s})
  BY <1>7, <1>9, <1>10, CountDrop
<1>12. Counts'
  BY <1>9, <1>10, <1>11 DEF Counts
<1> QED BY <1>4, <1>12 DEF Structure

----------------------------------------------------------------------------
(* The dump thread                                                          *)

OnlyDump(p, m, q, w) ==
  /\ DumpsMove(p, m, q, w) /\ waiting' = waiting /\ st' = st
  /\ failureSet' \in SUBSET Tasks /\ done' \in SUBSET Tasks

LEMMA DumpStageKeeps ==
  ASSUME Structure, NEW p \in Procs, NEW m, NEW q, NEW w, OnlyDump(p, m, q, w),
         DumpShape(KeysOf, p, m, q, w, bdump'), m.t \in {dump[p].t, None},
         LateOf(q, w) \in SUBSET (LateOf(dumping[p], dumper[p]) \cup {dump[p].t}),
         DumpSet(m, q, w, bdump') = DumpsOf(p)
  PROVE  Places' /\ Live' = Live
<1>1. /\ LoadType' /\ DumpType' /\ Loading' /\ Dumping' /\ Live' = Live
      /\ \A o \in Procs : o # p => Touched(o)' \in SUBSET Touched(o)
      /\ Touched(p)' \in SUBSET (Touched(p) \cup ({m.t} \ {None}))
  BY DumpKeeps, InPlaces DEF OnlyDump
<1>2. \A o \in Procs : Touched(o)' \in SUBSET Touched(o)
  BY <1>1 DEF Touched
<1>3. sc' = sc
  BY DEF OnlyDump, DumpsMove
<1> QED BY <1>1, <1>2, <1>3, PlacesKeep, InPlaces DEF OnlyDump

LEMMA DumpStageAdds ==
  ASSUME Structure, NEW p \in Procs, NEW m, NEW q, NEW w, OnlyDump(p, m, q, w),
         DumpShape(KeysOf, p, m, q, w, bdump'), m.t = dump[p].t,
         LateOf(q, w) = LateOf(dumping[p], dumper[p]),
         NEW s, s.t \in Dumps, ProcOf[s.t] = p, s \notin DumpsOf(p),
         DumpSet(m, q, w, bdump') = With(DumpsOf(p), s)
  PROVE  Places' /\ s \notin Live /\ Live' = Live \cup {s}
<1>1. DumpSet(m, q, w, bdump') = DumpsOf(p) \cup {s} /\ DumpsMove(p, m, q, w) /\ sc' = sc
  BY DEF With, OnlyDump, DumpsMove
<1>2. /\ LoadType' /\ DumpType' /\ Loading' /\ Dumping' /\ s \notin Live /\ Live' = Live \cup {s}
      /\ \A o \in Procs : Touched(o)' \in SUBSET Touched(o)
  BY <1>1, DumpAdds, InPlaces
<1> QED BY <1>1, <1>2, PlacesKeep, InPlaces DEF OnlyDump

LEMMA DumpStageDrops ==
  ASSUME Structure, NEW p \in Procs, NEW m, NEW q, NEW w, OnlyDump(p, m, q, w),
         DumpShape(KeysOf, p, m, q, w, bdump'), m.t \in {dump[p].t, None},
         LateOf(q, w) \in SUBSET LateOf(dumping[p], dumper[p]),
         NEW S \in SUBSET DumpsOf(p), DumpSet(m, q, w, bdump') = Less(DumpsOf(p), S)
  PROVE  Places' /\ S \in SUBSET Live /\ Live' = Live \ S
<1>1. DumpSet(m, q, w, bdump') = DumpsOf(p) \ S /\ DumpsMove(p, m, q, w) /\ sc' = sc
  BY DEF Less, OnlyDump, DumpsMove
<1>2. /\ LoadType' /\ DumpType' /\ Loading' /\ Dumping' /\ S \in SUBSET Live /\ Live' = Live \ S
      /\ \A o \in Procs : Touched(o)' \in SUBSET Touched(o)
  BY <1>1, DumpDrops, InPlaces
<1> QED BY <1>1, <1>2, PlacesKeep, InPlaces DEF OnlyDump

LEMMA DumpTakeKeeps ==
  ASSUME Structure, NEW p \in Procs, DumpTake(p), sc' = sc
  PROVE  Structure'
<1> DEFINE t == Head(waiting["dump"][p])
           m == [IdleDump EXCEPT !.t = t]
<1>1. /\ dump[p] = IdleDump /\ waiting["dump"][p] # <<>> /\ st' = st /\ tab' = tab
      /\ waiting' = [waiting EXCEPT !["dump"][p] = Tail(@)] /\ failureSet' = failureSet
      /\ disp' = disp /\ running' = running /\ xfer' = xfer /\ holder' = holder
      /\ dumping' = dumping /\ dumper' = dumper /\ bdump' = bdump
  BY DEF DumpTake, buffer, loadVars, backend
<1>2. Line(KeysOf, "dump", p, waiting["dump"][p], st, Touched(p))
  BY DEF Structure, Places, Waits
<1>3. t \in Rng(waiting["dump"][p])
  BY <1>1, <1>2, RngTail DEF Line
<1>4. t \in Tasks /\ t \in Dumps /\ ProcOf[t] = p /\ t \notin Touched(p)
  BY <1>2, <1>3 DEF Line, QueueOf, Tasks
<1>5. CASE t \in failureSet
  <2>1. dump' = dump /\ done' = done \cup {t}
    BY <1>5 DEF DumpTake, Done
  <2>2. /\ LoadType' /\ DumpType' /\ Loading' /\ Dumping' /\ Live' = Live
        /\ \A o \in Procs : Touched(o)' \in SUBSET Touched(o)
    BY <1>1, <2>1, NobodyMoves, InPlaces DEF DumpType
  <2>3. Waits' /\ Started' /\ waiting' \in [{"load", "dump"} -> [Procs -> Seq(Tasks)]]
    BY <1>1, <2>2, WaitsTake DEF Structure, Places
  <2>4. ApiType'
    BY <1>1, <1>4, <2>1, <2>3 DEF ApiType, Structure, Places
  <2>5. Counts'
    BY <1>1, <2>2, CountsKeep, InPlaces
  <2> QED BY <2>2, <2>3, <2>4, <2>5 DEF Structure, Places
<1>6. CASE t \notin failureSet
  <2>1. dump' = Step(dump, p, m) /\ done' = done
    BY <1>6 DEF DumpTake
  <2>2. DumpShape(KeysOf, p, IdleDump, dumping[p], dumper[p], bdump)
    BY <1>1, InPlaces DEF Dumping
  <2>3. t \notin LateOf(dumping[p], dumper[p])
    BY <1>4 DEF Touched
  <2>4. /\ DumpShape(KeysOf, p, m, dumping[p], dumper[p], bdump')
        /\ DumpSet(m, dumping[p], dumper[p], bdump') = DumpsOf(p)
    BY <1>1, <1>4, <2>2, <2>3, DumpStart DEF DumpsOf
  <2>5. m.t = t
    BY DEF IdleDump
  <2> HIDE DEF m
  <2>6. DumpsMove(p, m, dumping[p], dumper[p])
    BY <1>1, <2>1, Stays, InPlaces DEF DumpsMove, DumpType
  <2>7. /\ LoadType' /\ DumpType' /\ Loading' /\ Dumping' /\ Live' = Live
        /\ \A o \in Procs : o # p => Touched(o)' \in SUBSET Touched(o)
        /\ Touched(p)' \in SUBSET (Touched(p) \cup ({m.t} \ {None}))
    BY <2>4, <2>6, DumpKeeps, InPlaces
  <2>8. Touched(p)' \in SUBSET (Touched(p) \cup {t})
    BY <2>5, <2>7
  <2>9. Waits' /\ Started' /\ waiting' \in [{"load", "dump"} -> [Procs -> Seq(Tasks)]]
    BY <1>1, <2>7, <2>8, WaitsTake DEF Structure, Places
  <2>10. ApiType'
    BY <1>1, <2>1, <2>9 DEF ApiType, Structure, Places
  <2>11. Counts'
    BY <1>1, <2>7, CountsKeep, InPlaces
  <2> QED BY <2>7, <2>9, <2>10, <2>11 DEF Structure, Places
<1> QED BY <1>5, <1>6

(* The next shard of the dump in progress, with the node Get gave for it.   *)
LEMMA AtDump ==
  ASSUME Structure, NEW p \in Procs, DumpsShard(p), NEW r \in Get(NextKey(p), FALSE)
  PROVE  /\ DumpShape(KeysOf, p, dump[p], dumping[p], dumper[p], bdump)
         /\ dump[p].t # None /\ dump[p].skip = {} /\ dump[p].i <= Len(KeysOf[dump[p].t])
         /\ dump[p].t \in Dumps /\ dump[p].t \in Tasks /\ dump[p].i \in 1 .. Len(KeysOf[dump[p].t])
         /\ NextKey(p) \in Keys /\ Got(tab, NextKey(p), FALSE, r)
         /\ LET s == NextShard(p, r.node)
            IN  /\ ShardOf(KeysOf, p, Dumps, s) /\ s.t = dump[p].t /\ s.i = dump[p].i
                /\ s.node = r.node
<1>1. DumpShape(KeysOf, p, dump[p], dumping[p], dumper[p], bdump)
  BY InPlaces DEF Dumping
<1>2. dump[p].t # None /\ dump[p].skip = {} /\ dump[p].i <= Len(KeysOf[dump[p].t])
  BY DEF DumpsShard
<1>3. dump[p].t \in Dumps /\ dump[p].t \in Tasks /\ ProcOf[dump[p].t] = p /\ dump[p].i \in Nat \ {0}
  BY <1>1, <1>2 DEF DumpShape, MakerShape, Tasks
<1>4. dump[p].i \in 1 .. Len(KeysOf[dump[p].t])
  BY <1>2, <1>3, InPlaces
<1>5. NextKey(p) \in Keys /\ dump[p].i \in 1 .. MaxShards
  BY <1>3, <1>4, KeyInKeys DEF NextKey
<1>6. Got(tab, NextKey(p), Bypass /\ FALSE, r)
  BY <1>5, GetGives, InPlaces
<1>7. Got(tab, NextKey(p), FALSE, r)
  BY <1>6
<1>8. LET s == NextShard(p, r.node)
      IN  /\ s \in ShardTasks /\ s.t = dump[p].t /\ s.i = dump[p].i /\ s.node = r.node
          /\ s.last = (s.i = Len(KeysOf[s.t]))
  BY <1>3, <1>5, <1>7 DEF NextShard, ShardTask, ShardTasks, Got
<1>9. LET s == NextShard(p, r.node)
      IN  ShardOf(KeysOf, p, Dumps, s) /\ s.t = dump[p].t /\ s.i = dump[p].i /\ s.node = r.node
  BY <1>3, <1>4, <1>8 DEF ShardOf
<1> QED BY <1>1, <1>2, <1>3, <1>4, <1>5, <1>7, <1>9

LEMMA DumpFindsBusyKeeps ==
  ASSUME Structure, NEW p \in Procs, DumpFindsBusy(p), sc' = sc
  PROVE  Structure'
<1>1. DumpsShard(p) /\ bdump' = bdump
  BY DEF DumpFindsBusy, backend
<1>2. PICK r \in Get(NextKey(p), FALSE) :
         tab' = r.tab /\ dump' = [dump EXCEPT ![p].skip = {NextShard(p, r.node)}]
  BY DEF DumpFindsBusy
<1> DEFINE s == NextShard(p, r.node)
           m == Skipping(dump[p], s)
<1>3. /\ DumpShape(KeysOf, p, dump[p], dumping[p], dumper[p], bdump)
      /\ dump[p].t # None /\ dump[p].skip = {} /\ dump[p].i <= Len(KeysOf[dump[p].t])
      /\ dump[p].t \in Dumps /\ Got(tab, NextKey(p), FALSE, r)
      /\ ShardOf(KeysOf, p, Dumps, s) /\ s.t = dump[p].t /\ s.i = dump[p].i /\ s.node = r.node
  BY <1>1, AtDump
<1>4. dump' = Step(dump, p, m)
  <2>1. dump' = [dump EXCEPT ![p].skip = {s}]
    BY <1>2
  <2> HIDE DEF s
  <2> QED BY <2>1 DEF Step, Skipping
<1> HIDE DEF s
<1>5. /\ DumpShape(KeysOf, p, m, dumping[p], dumper[p], bdump) /\ s \notin DumpsOf(p)
      /\ DumpSet(m, dumping[p], dumper[p], bdump) = With(DumpsOf(p), s)
  BY <1>3, DumpBusy DEF DumpsOf
<1>6. m.t = dump[p].t
  BY <1>3 DEF Skipping, DumpShape, MakerShape, DumpRecs
<1> HIDE DEF m
<1>7. OnlyDump(p, m, dumping[p], dumper[p])
  BY <1>4, Stays, InPlaces DEF DumpFindsBusy, OnlyDump, DumpsMove, loadVars, backend, api, DumpType
<1>8. s.t \in Dumps /\ ProcOf[s.t] = p
  BY <1>3 DEF ShardOf
<1>9. Places' /\ s \notin Live /\ Live' = Live \cup {s}
  BY <1>1, <1>5, <1>6, <1>7, <1>8, DumpStageAdds
<1>10. Counts'
  BY <1>2, <1>3, <1>9, CountsAdd, InPlaces DEF Got
<1> QED BY <1>9, <1>10 DEF Structure

LEMMA DumpGetKeeps ==
  ASSUME Structure, NEW p \in Procs, DumpGet(p), sc' = sc
  PROVE  Structure'
<1>1. DumpsShard(p) /\ bdump' = bdump
  BY DEF DumpGet, backend
<1>2. PICK r \in Get(NextKey(p), FALSE) :
         /\ tab' = r.tab
         /\ dump' = [dump EXCEPT ![p].i = @ + 1, ![p].held = @ \cup {NextShard(p, r.node)}]
  BY DEF DumpGet
<1> DEFINE s == NextShard(p, r.node)
           m == Holding(dump[p], s)
<1>3. /\ DumpShape(KeysOf, p, dump[p], dumping[p], dumper[p], bdump)
      /\ dump[p].t # None /\ dump[p].skip = {} /\ Got(tab, NextKey(p), FALSE, r)
      /\ ShardOf(KeysOf, p, Dumps, s) /\ s.t = dump[p].t /\ s.i = dump[p].i /\ s.node = r.node
  BY <1>1, AtDump
<1>4. dump' = Step(dump, p, m)
  <2>1. dump' = [dump EXCEPT ![p].i = @ + 1, ![p].held = @ \cup {s}]
    BY <1>2
  <2>2. dump \in [Procs -> DumpRecs]
    BY InPlaces DEF DumpType
  <2> HIDE DEF s
  <2> QED BY <2>1, <2>2 DEF Step, Holding
<1> HIDE DEF s
<1>5. /\ DumpShape(KeysOf, p, m, dumping[p], dumper[p], bdump) /\ s \notin DumpsOf(p)
      /\ DumpSet(m, dumping[p], dumper[p], bdump) = With(DumpsOf(p), s)
  BY <1>3, DumpHold DEF DumpsOf
<1>6. m.t = dump[p].t
  <2>1. dump[p] \in DumpRecs /\ {s} \in SUBSET ShardTasks
    BY <1>3 DEF DumpShape, MakerShape, ShardOf
  <2> QED BY <2>1, DumpAdvance DEF Holding
<1> HIDE DEF m
<1>7. OnlyDump(p, m, dumping[p], dumper[p])
  BY <1>4, Stays, InPlaces DEF DumpGet, OnlyDump, DumpsMove, loadVars, backend, api, DumpType
<1>8. s.t \in Dumps /\ ProcOf[s.t] = p
  BY <1>3 DEF ShardOf
<1>9. Places' /\ s \notin Live /\ Live' = Live \cup {s}
  BY <1>1, <1>5, <1>6, <1>7, <1>8, DumpStageAdds
<1>10. Counts'
  BY <1>2, <1>3, <1>9, CountsAdd, InPlaces DEF Got
<1> QED BY <1>9, <1>10 DEF Structure

LEMMA DumpSkipsKeeps ==
  ASSUME Structure, NEW p \in Procs, DumpSkips(p), sc' = sc
  PROVE  Structure'
<1> DEFINE m == Skipped(dump[p])
           S == dump[p].skip
<1>1. S # {} /\ tab' = ReleaseAll(tab, S) /\ bdump' = bdump
      /\ dump' = [dump EXCEPT ![p].skip = {}, ![p].i = @ + 1]
  BY DEF DumpSkips, backend
<1>2. DumpShape(KeysOf, p, dump[p], dumping[p], dumper[p], bdump) /\ dump \in [Procs -> DumpRecs]
  BY InPlaces DEF Dumping, DumpType
<1>3. dump' = Step(dump, p, m)
  BY <1>1, <1>2 DEF Step, Skipped
<1>4. /\ DumpShape(KeysOf, p, m, dumping[p], dumper[p], bdump) /\ S \in SUBSET DumpsOf(p)
      /\ DumpSet(m, dumping[p], dumper[p], bdump) = Less(DumpsOf(p), S)
  <2>1. DumpsOf(p) = DumpSet(dump[p], dumping[p], dumper[p], bdump)
    BY DEF DumpsOf
  <2>2. m = Skipped(dump[p]) /\ S = dump[p].skip /\ S # {}
    BY <1>1
  <2> HIDE DEF m, S
  <2> DEFINE A == DumpSet(dump[p], dumping[p], dumper[p], bdump)
             B == DumpSet(m, dumping[p], dumper[p], bdump)
  <2>3. DumpShape(KeysOf, p, m, dumping[p], dumper[p], bdump)
    BY <1>2, <2>2, DumpSkip
  <2>4. S \in SUBSET A
    BY <1>2, <2>2, DumpSkip
  <2>5. B = Less(A, S)
    <3>1. DumpShape(KeysOf, p, dump[p], dumping[p], dumper[p], bdump)
      BY <1>2
    <3> QED BY <2>2, <3>1, DumpSkipSet
  <2> QED BY <2>1, <2>3, <2>4, <2>5
<1>5. m.t = dump[p].t
  BY <1>2, DumpAdvance DEF Skipped
<1> HIDE DEF m, S
<1>6. OnlyDump(p, m, dumping[p], dumper[p])
  BY <1>3, Stays, InPlaces DEF DumpSkips, OnlyDump, DumpsMove, loadVars, backend, api, DumpType
<1>7. Places' /\ S \in SUBSET Live /\ Live' = Live \ S
  BY <1>1, <1>4, <1>5, <1>6, DumpStageDrops
<1>8. Counts'
  BY <1>1, <1>7, CountsReleaseAll, InPlaces
<1> QED BY <1>7, <1>8 DEF Structure

(* A dump ends and drops what it holds; tb has the counts of before.        *)
LEMMA DumpFailsKeeps ==
  ASSUME Structure, NEW p \in Procs, dump[p].skip = {}, dump[p].t # None, NEW tb \in Tables,
         \A n \in Nodes : tb[n].ref = tab[n].ref,
         DumpFails(p, ReleaseAll(tb, dump[p].held)), sc' = sc
  PROVE  Structure'
<1> DEFINE S == dump[p].held
<1>1. tab' = ReleaseAll(tb, S) /\ dump' = Step(dump, p, IdleDump) /\ bdump' = bdump
  BY DEF DumpFails, backend
<1>2. DumpShape(KeysOf, p, dump[p], dumping[p], dumper[p], bdump)
  BY InPlaces DEF Dumping
<1>3. /\ DumpShape(KeysOf, p, IdleDump, dumping[p], dumper[p], bdump) /\ S \in SUBSET DumpsOf(p)
      /\ DumpSet(IdleDump, dumping[p], dumper[p], bdump) = Less(DumpsOf(p), S)
  BY <1>2, DumpEnds DEF DumpsOf
<1>4. dump[p].t \in Tasks /\ IdleDump.t = None
  BY <1>2 DEF DumpShape, MakerShape, Tasks, IdleDump
<1>5. OnlyDump(p, IdleDump, dumping[p], dumper[p])
  BY <1>1, <1>4, Stays, InPlaces DEF DumpFails, Fails, Done, OnlyDump, DumpsMove, loadVars, backend, DumpType
<1> HIDE DEF S
<1>6. Places' /\ S \in SUBSET Live /\ Live' = Live \ S
  BY <1>1, <1>3, <1>4, <1>5, DumpStageDrops
<1>7. Counts'
  BY <1>1, <1>6, CountsReleaseAll, InPlaces
<1> QED BY <1>6, <1>7 DEF Structure

LEMMA DumpEndFailsKeeps ==
  ASSUME Structure, NEW p \in Procs, DumpSyncFails(p) \/ DumpRejected(p), sc' = sc
  PROVE  Structure'
<1>1. DumpsAll(p)
  BY DEF DumpSyncFails, DumpRejected
<1>2. DumpShape(KeysOf, p, dump[p], dumping[p], dumper[p], bdump)
  BY InPlaces DEF Dumping
<1>3. dump[p].t # None /\ dump[p].skip = {}
  <2>1. dump[p].t \in Tasks /\ dump[p].i \in Nat /\ dump[p].i > Len(KeysOf[dump[p].t]) /\ dump[p].t # None
    BY <1>1, <1>2 DEF DumpsAll, DumpShape, MakerShape, Tasks
  <2>2. Len(KeysOf[dump[p].t]) \in Nat
    BY <2>1, InPlaces
  <2> QED BY <1>2, <2>1, <2>2 DEF DumpShape, MakerShape
<1>4. CASE DumpSyncFails(p)
  BY <1>3, <1>4, DumpFailsKeeps, InPlaces DEF DumpSyncFails
<1>5. CASE DumpRejected(p)
  <2>1. DumpFails(p, ReleaseAll(MarkAll(tab, dump[p].held), dump[p].held))
    BY <1>5 DEF DumpRejected
  <2>2. /\ MarkAll(tab, dump[p].held) \in Tables
        /\ \A n \in Nodes : MarkAll(tab, dump[p].held)[n].ref = tab[n].ref
    BY MarkAllSets, InPlaces
  <2> QED BY <1>3, <2>1, <2>2, DumpFailsKeeps
<1> QED BY <1>4, <1>5

(* WaitEvent fails before the first shard: nothing is held yet.             *)
LEMMA DumpEventFailsKeeps ==
  ASSUME Structure, NEW p \in Procs, DumpEventFails(p), sc' = sc
  PROVE  Structure'
<1>1. dump[p].t # None /\ dump[p].skip = {}
  BY DEF DumpEventFails, DumpsShard
<1>2. DumpFails(p, ReleaseAll(tab, dump[p].held)) /\ tab \in Tables
  BY InPlaces DEF DumpEventFails
<1> QED BY <1>1, <1>2, DumpFailsKeeps

(* A copy from the device is refused: the node just taken is dropped too.   *)
LEMMA DumpCopyFailsKeeps ==
  ASSUME Structure, NEW p \in Procs, DumpCopyFails(p), sc' = sc
  PROVE  Structure'
<1> DEFINE H == dump[p].held
<1>1. DumpsShard(p)
  BY DEF DumpCopyFails
<1>2. PICK r \in Get(NextKey(p), FALSE) :
         DumpFails(p, ReleaseAll(r.tab, H \cup {NextShard(p, r.node)}))
  BY DEF DumpCopyFails
<1> DEFINE s == NextShard(p, r.node)
           S == H \cup {s}
<1>3. /\ DumpShape(KeysOf, p, dump[p], dumping[p], dumper[p], bdump)
      /\ dump[p].t # None /\ dump[p].skip = {} /\ dump[p].t \in Tasks
      /\ Got(tab, NextKey(p), FALSE, r)
      /\ ShardOf(KeysOf, p, Dumps, s) /\ s.t = dump[p].t /\ s.i = dump[p].i /\ s.node = r.node
  BY <1>1, AtDump
<1>4. tab' = ReleaseAll(r.tab, S) /\ dump' = Step(dump, p, IdleDump) /\ bdump' = bdump
  BY <1>2 DEF DumpFails, backend
<1>5. /\ DumpShape(KeysOf, p, IdleDump, dumping[p], dumper[p], bdump) /\ H \in SUBSET DumpsOf(p)
      /\ DumpSet(IdleDump, dumping[p], dumper[p], bdump) = Less(DumpsOf(p), H)
  BY <1>3, DumpEnds DEF DumpsOf
<1>6. IdleDump.t = None
  BY DEF IdleDump
<1>7. OnlyDump(p, IdleDump, dumping[p], dumper[p])
  BY <1>2, <1>3, <1>4, Stays, InPlaces
     DEF DumpFails, Fails, Done, OnlyDump, DumpsMove, loadVars, backend, DumpType
<1>8. Places' /\ H \in SUBSET Live /\ Live' = Live \ H
  <2> HIDE DEF H
  <2> QED BY <1>4, <1>5, <1>6, <1>7, DumpStageDrops
<1>9. s \notin Live
  <2>1. s \notin DumpsOf(p)
    <3>1. s \notin dump[p].held /\ s \notin LateSet(dumping[p], dumper[p], bdump)
      BY <1>3, NextIsNew DEF ShardOf
    <3> QED BY <1>3, <3>1 DEF DumpsOf, DumpSet
  <2>2. s.t \in Dumps /\ ProcOf[s.t] = p
    BY <1>3 DEF ShardOf
  <2>3. \A q \in Procs : s \notin LoadsOf(q) /\ (q # p => s \notin DumpsOf(q))
    BY <2>2, WhoseShards, InPlaces, StoreAssumption
  <2> QED BY <2>1, <2>3, LiveIs DEF Live
<1> HIDE DEF s
<1>10. r.tab \in Tables /\ Counted(r.tab, Live \cup {s}) /\ IsFiniteSet(Live \cup {s})
  <2>1. /\ r.tab \in Tables /\ Counted(tab, Live) /\ IsFiniteSet(Live) /\ tab \in Tables
        /\ s.node = r.node /\ r.node \in Nodes
    BY <1>3, InPlaces DEF Counts, Got
  <2>2. \A n \in Nodes : r.tab[n].ref = IF n = s.node THEN tab[n].ref + 1 ELSE tab[n].ref
    BY <1>3 DEF Got
  <2>3. Counted(r.tab, Live \cup {s})
    <3> HIDE DEF Live
    <3> QED BY <1>9, <2>1, <2>2, CountAdd, Zenon
  <2>4. IsFiniteSet(Live \cup {s})
    BY <2>1, FS_AddElement
  <2> QED BY <2>1, <2>3, <2>4
<1>11. S \in SUBSET (Live \cup {s}) /\ (Live \cup {s}) \ S = Live'
  BY <1>8, <1>9
<1> HIDE DEF S
<1>12. IsFiniteSet(S)
  BY <1>10, <1>11, FS_Subset
<1>13. tab' \in Tables /\ \A n \in Nodes : tab'[n].ref = r.tab[n].ref - Cardinality(Pins(S, n))
  BY <1>4, <1>10, <1>12, ReleaseAllSets DEF SameBut
<1>14. Counted(tab', (Live \cup {s}) \ S) /\ IsFiniteSet((Live \cup {s}) \ S)
  BY <1>10, <1>11, <1>13, CountDrop
<1>15. Counts'
  BY <1>11, <1>13, <1>14 DEF Counts
<1> QED BY <1>8, <1>15 DEF Structure

LEMMA DumpNothingKeeps ==
  ASSUME Structure, NEW p \in Procs, DumpNothing(p), sc' = sc
  PROVE  Structure'
<1>1. /\ dump[p].held = {} /\ dump' = Step(dump, p, IdleDump) /\ bdump' = bdump /\ tab' = tab
      /\ done' = done \cup {dump[p].t} /\ DumpsAll(p)
  BY DEF DumpNothing, NothingToDump, backend, buffer, Done
<1>2. DumpShape(KeysOf, p, dump[p], dumping[p], dumper[p], bdump)
  BY InPlaces DEF Dumping
<1>3. dump[p].t \in Tasks /\ dump[p].skip = {} /\ IdleDump.t = None
  <2>1. dump[p].t \in Tasks /\ dump[p].i \in Nat /\ dump[p].i > Len(KeysOf[dump[p].t])
    BY <1>1, <1>2 DEF DumpsAll, DumpShape, MakerShape, Tasks
  <2>2. Len(KeysOf[dump[p].t]) \in Nat
    BY <2>1, InPlaces
  <2> QED BY <1>2, <2>1, <2>2 DEF DumpShape, MakerShape, IdleDump
<1>4. /\ DumpShape(KeysOf, p, IdleDump, dumping[p], dumper[p], bdump)
      /\ DumpSet(IdleDump, dumping[p], dumper[p], bdump) = Less(DumpsOf(p), dump[p].held)
  BY <1>2, <1>3, DumpEnds DEF DumpsOf
<1>5. DumpSet(IdleDump, dumping[p], dumper[p], bdump) = DumpsOf(p)
  BY <1>1, <1>4 DEF Less
<1>6. OnlyDump(p, IdleDump, dumping[p], dumper[p])
  BY <1>1, <1>3, Stays, InPlaces DEF DumpNothing, OnlyDump, DumpsMove, loadVars, DumpType
<1>7. Places' /\ Live' = Live
  BY <1>1, <1>3, <1>4, <1>5, <1>6, DumpStageKeeps
<1>8. Counts'
  BY <1>1, <1>7, CountsKeep, InPlaces
<1> QED BY <1>7, <1>8 DEF Structure

LEMMA DumpSubmitKeeps ==
  ASSUME Structure, NEW p \in Procs, DumpSubmit(p), sc' = sc
  PROVE  Structure'
<1> DEFINE H == dump[p].held
           t == dump[p].t
           m == [dump[p] EXCEPT !.stage = "push"]
<1>1. /\ DumpsAll(p) /\ tab' = MarkAll(tab, H) /\ bdump' = Step(bdump, t, [st |-> "run", held |-> H])
      /\ dump' = [dump EXCEPT ![p].stage = "push"]
  BY DEF DumpSubmit
<1>2. DumpShape(KeysOf, p, dump[p], dumping[p], dumper[p], bdump)
  BY InPlaces DEF Dumping
<1>3. t \in Tasks /\ t # None /\ ProcOf[t] = p /\ dump[p].skip = {} /\ dump[p].i > Len(KeysOf[t])
      /\ H \in SUBSET ShardTasks
  <2>1. /\ t # None /\ t \in Tasks /\ ProcOf[t] = p /\ dump[p].i \in Nat /\ dump[p].i > Len(KeysOf[t])
        /\ H \in SUBSET ShardTasks
    BY <1>1, <1>2 DEF DumpsAll, DumpShape, MakerShape, Tasks, DumpRecs
  <2>2. Len(KeysOf[t]) \in Nat
    BY <2>1, InPlaces
  <2> QED BY <1>2, <2>1, <2>2 DEF DumpShape, MakerShape
<1>4. /\ bdump' \in [Tasks -> [st : {"none", "run", "ok", "fail"}, held : SUBSET ShardTasks]]
      /\ bdump'[t].held = H /\ \A u \in Tasks : u # t => bdump'[u] = bdump[u]
  <2>1. bdump \in [Tasks -> [st : {"none", "run", "ok", "fail"}, held : SUBSET ShardTasks]]
    BY InPlaces DEF DumpType
  <2>2. [st |-> "run", held |-> H] \in [st : {"none", "run", "ok", "fail"}, held : SUBSET ShardTasks]
    BY <1>3
  <2> HIDE DEF t, H
  <2> QED BY <1>1, <1>3, <2>1, <2>2 DEF Step
<1>5. \A u \in LateOf(dumping[p], dumper[p]) : u \in Tasks /\ u # t
  BY <1>2 DEF DumpShape, LateShape, Tasks
<1>6. dump' = Step(dump, p, m)
  BY <1>1 DEF Step
<1>7. /\ DumpShape(KeysOf, p, m, dumping[p], dumper[p], bdump')
      /\ DumpSet(m, dumping[p], dumper[p], bdump') = DumpsOf(p)
  BY <1>2, <1>3, <1>4, <1>5, DumpSubmitted DEF DumpsOf
<1>8. m.t = t
  BY <1>2 DEF DumpShape, MakerShape, DumpRecs
<1> HIDE DEF m
<1>9. OnlyDump(p, m, dumping[p], dumper[p])
  <2>1. DumpsMove(p, m, dumping[p], dumper[p])
    BY <1>3, <1>4, <1>6, Stays, InPlaces DEF DumpSubmit, DumpsMove, loadVars
  <2> QED BY <2>1, InPlaces DEF DumpSubmit, OnlyDump, api
<1>10. Places' /\ Live' = Live
  BY <1>7, <1>8, <1>9, DumpStageKeeps
<1>11. tab' \in Tables /\ \A n \in Nodes : tab'[n].ref = tab[n].ref
  BY <1>1, MarkAllSets, InPlaces
<1>12. Counts'
  BY <1>10, <1>11, CountsKeep, InPlaces
<1> QED BY <1>10, <1>12 DEF Structure

LEMMA DumpPushKeeps ==
  ASSUME Structure, NEW p \in Procs, DumpPush(p), sc' = sc
  PROVE  Structure'
<1> DEFINE t == dump[p].t
           q == Append(dumping[p], t)
<1>1. /\ dump[p].stage = "push" /\ dumping' = Step(dumping, p, q) /\ dump' = Step(dump, p, IdleDump)
      /\ bdump' = bdump /\ tab' = tab /\ done' = done \cup {t}
  BY DEF DumpPush, backend, buffer, Done
<1>2. DumpShape(KeysOf, p, dump[p], dumping[p], dumper[p], bdump)
  BY InPlaces DEF Dumping
<1>3. t \in Tasks /\ IdleDump.t = None /\ dumping[p] \in Seq(Tasks)
  BY <1>1, <1>2 DEF DumpShape, MakerShape, LateShape, Tasks, IdleDump
<1>4. /\ DumpShape(KeysOf, p, IdleDump, q, dumper[p], bdump)
      /\ DumpSet(IdleDump, q, dumper[p], bdump) = DumpsOf(p)
  BY <1>1, <1>2, DumpPushed DEF DumpsOf
<1>5. LateOf(q, dumper[p]) \in SUBSET (LateOf(dumping[p], dumper[p]) \cup {t})
  BY <1>3, RngAppend DEF LateOf
<1> HIDE DEF q
<1>6. OnlyDump(p, IdleDump, q, dumper[p])
  BY <1>1, <1>3, Stays, InPlaces DEF DumpPush, OnlyDump, DumpsMove, loadVars, DumpType
<1>7. Places' /\ Live' = Live
  BY <1>1, <1>3, <1>4, <1>5, <1>6, DumpStageKeeps
<1>8. Counts'
  BY <1>1, <1>7, CountsKeep, InPlaces
<1> QED BY <1>7, <1>8 DEF Structure

----------------------------------------------------------------------------
(* The dumper                                                               *)

LEMMA DumperTakeKeeps ==
  ASSUME Structure, NEW p \in Procs, DumperTake(p), sc' = sc
  PROVE  Structure'
<1> DEFINE q == Tail(dumping[p])
           w == Head(dumping[p])
<1>1. /\ dumper[p] = None /\ dumping[p] # <<>> /\ dumper' = Step(dumper, p, w) /\ dumping' = Step(dumping, p, q)
      /\ dump' = dump /\ bdump' = bdump /\ tab' = tab
  BY DEF DumperTake, backend, buffer
<1>2. DumpShape(KeysOf, p, dump[p], dumping[p], None, bdump)
  BY <1>1, InPlaces DEF Dumping
<1>3. /\ DumpShape(KeysOf, p, dump[p], q, w, bdump) /\ DumpSet(dump[p], q, w, bdump) = DumpsOf(p)
      /\ LateOf(q, w) = LateOf(dumping[p], dumper[p])
  BY <1>1, <1>2, DumperTook DEF DumpsOf
<1> HIDE DEF q, w
<1>4. OnlyDump(p, dump[p], q, w)
  BY <1>1, Stays, InPlaces DEF DumperTake, OnlyDump, DumpsMove, loadVars, api, DumpType
<1>5. Places' /\ Live' = Live
  BY <1>1, <1>3, <1>4, DumpStageKeeps
<1>6. Counts'
  BY <1>1, <1>5, CountsKeep, InPlaces
<1> QED BY <1>5, <1>6 DEF Structure

LEMMA DumperFinishesKeeps ==
  ASSUME Structure, NEW p \in Procs, DumperFinishes(p), sc' = sc
  PROVE  Structure'
<1> DEFINE S == bdump[dumper[p]].held
<1>1. /\ dumper[p] # None /\ tab' = ReleaseAll(tab, S) /\ dumper' = Step(dumper, p, None)
      /\ dump' = dump /\ dumping' = dumping /\ bdump' = bdump
  BY DEF DumperFinishes, backend
<1>2. DumpShape(KeysOf, p, dump[p], dumping[p], dumper[p], bdump)
  BY InPlaces DEF Dumping
<1>3. /\ DumpShape(KeysOf, p, dump[p], dumping[p], None, bdump) /\ S \in SUBSET DumpsOf(p)
      /\ DumpSet(dump[p], dumping[p], None, bdump) = Less(DumpsOf(p), S)
      /\ LateOf(dumping[p], None) \in SUBSET LateOf(dumping[p], dumper[p])
  BY <1>1, <1>2, DumperDone DEF DumpsOf
<1> HIDE DEF S
<1>4. OnlyDump(p, dump[p], dumping[p], None)
  BY <1>1, Stays, InPlaces DEF DumperFinishes, OnlyDump, DumpsMove, loadVars, api, DumpType
<1>5. Places' /\ S \in SUBSET Live /\ Live' = Live \ S
  BY <1>1, <1>3, <1>4, DumpStageDrops
<1>6. Counts'
  BY <1>1, <1>5, CountsReleaseAll, InPlaces
<1> QED BY <1>5, <1>6 DEF Structure
----------------------------------------------------------------------------
(* The backend and the copies                                               *)

(* Steps that move no shard and answer no caller.                           *)
LEMMA QuietKeeps ==
  ASSUME Structure, disp' = disp, running' = running, xfer' = xfer, holder' = holder, sc' = sc,
         dump' = dump, dumping' = dumping, dumper' = dumper,
         bdump' \in [Tasks -> [st : {"none", "run", "ok", "fail"}, held : SUBSET ShardTasks]],
         \A t \in Tasks : bdump'[t].held = bdump[t].held,
         waiting' = waiting, st' = st, failureSet' = failureSet, done' = done, tab' = tab
  PROVE  Structure'
<1>1. /\ LoadType' /\ DumpType' /\ Loading' /\ Dumping' /\ Live' = Live
      /\ \A o \in Procs : Touched(o)' \in SUBSET Touched(o)
  BY NobodyMoves, InPlaces
<1>2. failureSet' \in SUBSET Tasks /\ done' \in SUBSET Tasks
  BY InPlaces DEF ApiType
<1>3. Places'
  BY <1>1, <1>2, PlacesKeep DEF Structure
<1>4. Counts'
  BY <1>1, CountsKeep, InPlaces
<1> QED BY <1>3, <1>4 DEF Structure

LEMMA IdleKeeps ==
  ASSUME Structure, disp' = disp, running' = running, xfer' = xfer, holder' = holder, sc' = sc,
         dump' = dump, dumping' = dumping, dumper' = dumper, bdump' = bdump,
         waiting' = waiting, st' = st, failureSet' = failureSet, done' = done, tab' = tab
  PROVE  Structure'
<1>1. bdump' \in [Tasks -> [st : {"none", "run", "ok", "fail"}, held : SUBSET ShardTasks]]
  BY InPlaces DEF DumpType
<1> QED BY <1>1, QuietKeeps

LEMMA BackendLoadKeeps ==
  ASSUME Structure, NEW s, BackendStep(s), sc' = sc
  PROVE  Structure'
<1>1. /\ disp' = disp /\ running' = running /\ xfer' = xfer /\ holder' = holder
      /\ dump' = dump /\ dumping' = dumping /\ dumper' = dumper /\ bdump' = bdump
      /\ waiting' = waiting /\ st' = st /\ failureSet' = failureSet /\ done' = done /\ tab' = tab
  BY DEF BackendStep, BackendLoads, BackendLoadFails, loadVars, dumpVars, api
<1> QED BY <1>1, IdleKeeps

LEMMA BackendDumpKeeps ==
  ASSUME Structure, NEW t \in Tasks, BackendDumpStep(t), sc' = sc
  PROVE  Structure'
<1>1. /\ disp' = disp /\ running' = running /\ xfer' = xfer /\ holder' = holder
      /\ dump' = dump /\ dumping' = dumping /\ dumper' = dumper
      /\ waiting' = waiting /\ st' = st /\ failureSet' = failureSet /\ done' = done /\ tab' = tab
  BY DEF BackendDumpStep, BackendDumps, BackendDumpFails, loadVars, dumpVars, api, buffer
<1>2. PICK x \in {"ok", "fail"} : bdump' = [bdump EXCEPT ![t].st = x]
  BY DEF BackendDumpStep, BackendDumps, BackendDumpFails
<1>3. bdump \in [Tasks -> [st : {"none", "run", "ok", "fail"}, held : SUBSET ShardTasks]]
  BY InPlaces DEF DumpType
<1>4. bdump' \in [Tasks -> [st : {"none", "run", "ok", "fail"}, held : SUBSET ShardTasks]]
  BY <1>2, <1>3
<1>5. \A u \in Tasks : bdump'[u].held = bdump[u].held
  BY <1>2, <1>3
<1> QED BY <1>1, <1>4, <1>5, QuietKeeps

LEMMA CopiesKeep ==
  ASSUME Structure, Copies, sc' = sc
  PROVE  Structure'
<1>1. /\ disp' = disp /\ running' = running /\ xfer' = xfer /\ holder' = holder
      /\ dump' = dump /\ dumping' = dumping /\ dumper' = dumper /\ bdump' = bdump
      /\ waiting' = waiting /\ st' = st /\ failureSet' = failureSet /\ done' = done /\ tab' = tab
  BY DEF Copies, CopyToDevice, CopyFromDevice, loadVars, dumpVars, api, backend, buffer
<1> QED BY <1>1, IdleKeeps

----------------------------------------------------------------------------
(* The invariant holds at the start and every step keeps it                 *)

LEMMA InitStructure ==
  ASSUME Init
  PROVE  Structure
<1>1. /\ Rng(<<>>) = {} /\ Len(<<>>) = 0
      /\ \A q : q = <<>> => Len(q) = 0 /\ q \in Seq(Tasks) /\ q \in Seq(ShardTasks)
  <2>1. Len(<<>>) = 0 /\ <<>> \in Seq(Tasks) /\ <<>> \in Seq(ShardTasks)
    OBVIOUS
  <2>2. 1 .. Len(<<>>) = {}
    BY <2>1
  <2>3. Rng(<<>>) = {}
    BY <2>2 DEF Rng
  <2> QED BY <2>1, <2>3
<1>2. IdleDisp \in Disps /\ IdleDump \in DumpRecs
  BY DEF IdleDisp, IdleDump, Disps, DumpRecs
<1>3. ApiType
  <2>1. [p \in Procs |-> <<>>] \in [Procs -> Seq(Tasks)]
    BY <1>1
  <2> DEFINE Q == [Procs -> Seq(Tasks)]
             z == [p \in Procs |-> <<>>]
  <2>2. waiting = [q \in {"load", "dump"} |-> z]
    BY DEF Init
  <2> HIDE DEF Q, z
  <2>3. waiting \in [{"load", "dump"} -> Q]
    BY <2>1, <2>2 DEF Q, z
  <2>4. st \in [Tasks -> TaskStates] /\ failureSet = {} /\ done = {} /\ sc \in Scenarios
    BY DEF Init, TaskStates
  <2> QED BY <2>3, <2>4 DEF ApiType, Q
<1>4. LoadType
  BY <1>1, <1>2 DEF Init, LoadType
<1>5. DumpType
  <2>1. bdump \in [Tasks -> [st : {"none", "run", "ok", "fail"}, held : SUBSET ShardTasks]]
    BY DEF Init
  <2> QED BY <1>1, <1>2, <2>1 DEF Init, DumpType
<1>6. ASSUME NEW p \in Procs
      PROVE  /\ disp[p] = IdleDisp /\ running[p] = <<>> /\ xfer[p] = None /\ holder[p] = {}
             /\ dump[p] = IdleDump /\ dumping[p] = <<>> /\ dumper[p] = None
             /\ waiting["load"][p] = <<>> /\ waiting["dump"][p] = <<>>
  BY <1>6 DEF Init
<1>7. IdleDisp.t = None /\ IdleDisp.out = None /\ OutOf(IdleDisp) = {} /\ InOf(None) = {}
      /\ IdleDump.t = None /\ IdleDump.held = {} /\ IdleDump.skip = {} /\ IdleDump.stage = "get"
  BY DEF IdleDisp, IdleDump, OutOf, InOf
<1>8. \A p \in Procs : LoadsOf(p) = {}
  BY <1>1, <1>6, <1>7 DEF LoadsOf, LoadSet
<1>9. \A p \in Procs : LateOf(dumping[p], dumper[p]) = {}
  BY <1>1, <1>6 DEF LateOf
<1>10. \A p \in Procs : DumpsOf(p) = {}
  BY <1>6, <1>7, <1>9 DEF DumpsOf, DumpSet, LateSet
<1>11. Loading
  <2> SUFFICES ASSUME NEW p \in Procs
               PROVE  LoadShape(KeysOf, p, disp[p], running[p], xfer[p], holder[p])
    BY DEF Loading
  <2>1. DispShape(KeysOf, p, disp[p])
    BY <1>2, <1>6, <1>7 DEF DispShape
  <2>2. Ordered(running[p])
    BY <1>1, <1>6 DEF Ordered
  <2>3. LoadSet(disp[p], running[p], xfer[p], holder[p]) = {}
    BY <1>8 DEF LoadsOf
  <2>4. \A A, B : A = {} => Ahead(A, B)
    BY DEF Ahead
  <2>5. Rng(running[p]) = {} /\ holder[p] = {} /\ InOf(xfer[p]) = {} /\ running[p] \in Seq(ShardTasks) /\ xfer[p] = None
    BY <1>1, <1>6, <1>7
  <2> QED BY <2>1, <2>2, <2>3, <2>4, <2>5 DEF LoadShape
<1>12. Dumping
  <2> SUFFICES ASSUME NEW p \in Procs
               PROVE  DumpShape(KeysOf, p, dump[p], dumping[p], dumper[p], bdump)
    BY DEF Dumping
  <2>1. MakerShape(KeysOf, p, dump[p])
    BY <1>2, <1>6, <1>7 DEF MakerShape
  <2>2. LateShape(KeysOf, p, dumping[p], dumper[p], bdump)
    BY <1>1, <1>6, <1>9 DEF LateShape
  <2> QED BY <1>6, <1>7, <1>9, <2>1, <2>2 DEF DumpShape
<1>13. \A p \in Procs : Touched(p) = {}
  BY <1>6, <1>7, <1>8, <1>9 DEF Touched
<1>14. Started
  BY <1>13 DEF Started
<1>15. Waits
  <2>1. \A p \in Procs, q \in {"load", "dump"} : waiting[q][p] = <<>>
    BY <1>6
  <2>2. ASSUME NEW p \in Procs, NEW q \in {"load", "dump"}
        PROVE  Line(KeysOf, q, p, <<>>, st, Touched(p))
    BY <1>1 DEF Line, Distinct
  <2> QED BY <2>1, <2>2 DEF Waits
<1>16. Places
  BY <1>3, <1>4, <1>5, <1>11, <1>12, <1>14, <1>15 DEF Places
<1>17. Live = {}
  BY <1>8, <1>10, LiveIs DEF Live
<1>18. tab \in Tables /\ \A n \in Nodes : tab[n].ref = 0
  BY DEF Init, Tables, FreshNode, States
<1>19. Counts
  <2>1. \A n : Pins({}, n) = {}
    BY DEF Pins
  <2> QED BY <1>17, <1>18, <2>1, FS_EmptySet DEF Counts, Counted
<1> QED BY <1>16, <1>19 DEF Structure

LEMMA LoadStructure ==
  ASSUME Structure, NEW p \in Procs, Dispatcher(p) \/ Transfer(p), sc' = sc
  PROVE  Structure'
<1>1. CASE Dispatcher(p)
  BY <1>1, DispatchTakeKeeps, DispatchGetKeeps, DispatchRejectedKeeps, DispatchPushKeeps DEF Dispatcher
<1>2. CASE Transfer(p)
  BY <1>2, TransferTakeKeeps, TransferSkipKeeps, TransferCopyKeeps, TransferErrorKeeps,
     TransferSyncKeeps, TransferSyncFailsKeeps DEF Transfer
<1> QED BY <1>1, <1>2

LEMMA DumpStructure ==
  ASSUME Structure, NEW p \in Procs, DumpThread(p) \/ Dumper(p), sc' = sc
  PROVE  Structure'
<1>1. CASE DumpThread(p)
  BY <1>1, DumpTakeKeeps, DumpFindsBusyKeeps, DumpSkipsKeeps, DumpGetKeeps, DumpEventFailsKeeps, DumpCopyFailsKeeps,
     DumpNothingKeeps, DumpSubmitKeeps, DumpEndFailsKeeps, DumpPushKeeps DEF DumpThread
<1>2. CASE Dumper(p)
  BY <1>2, DumperTakeKeeps, DumperFinishesKeeps DEF Dumper
<1> QED BY <1>1, <1>2

LEMMA NextStructure ==
  ASSUME Structure, [Next]_vars
  PROVE  Structure'
<1>1. CASE UNCHANGED vars
  BY <1>1, IdleKeeps DEF vars, store, buffer, loadVars, dumpVars, api, backend
<1>2. CASE Next
  <2>1. sc' = sc
    BY <1>2 DEF Next
  <2>2. ASSUME NEW t \in Tasks, Submit(t) \/ WaitReturns(t) \/ WaitExpires(t) \/ BackendDumpStep(t)
        PROVE  Structure'
    BY <2>1, <2>2, SubmitKeeps, WaitKeeps, BackendDumpKeeps
  <2>3. ASSUME NEW p \in Procs, Dispatcher(p) \/ Transfer(p) \/ DumpThread(p) \/ Dumper(p)
        PROVE  Structure'
    BY <2>1, <2>3, LoadStructure, DumpStructure
  <2>4. ASSUME NEW s \in Shards, BackendStep(s)
        PROVE  Structure'
    BY <2>1, <2>4, BackendLoadKeeps
  <2>5. CASE Copies
    BY <2>1, <2>5, CopiesKeep
  <2> QED BY <1>2, <2>2, <2>3, <2>4, <2>5 DEF Next
<1> QED BY <1>1, <1>2

(* The stages of every process are in order, whatever fails: a task is in   *)
(* one queue or with one stage, the shards of a task travel in order, and   *)
(* each node counts the Handles on it.                                      *)
THEOREM StructureHolds == Spec => []Structure
<1>1. Init => Structure
  BY InitStructure
<1>2. Structure /\ [Next]_vars => Structure'
  BY NextStructure
<1> QED BY <1>1, <1>2, PTL DEF Spec

(* Every reference a node counts is a Handle that some stage still holds,   *)
(* in every scenario and after every fault.                                 *)
THEOREM HandlesCountedHolds == Spec => []HandlesCounted
<1>1. Structure => HandlesCounted
  BY DEF Structure, Counts, Counted, Pins, Live, HandlesCounted
<1> QED BY <1>1, StructureHolds, PTL
=============================================================================
