------------------------- MODULE CacheContentProofs -------------------------
(***************************************************************************)
(* What the nodes, the backend and the device hold while the cache store   *)
(* runs (CacheStore), whenever the faults are ones the store tolerates.    *)
(* CacheStoreProofs says where the shards are; this module says, of each   *)
(* place a shard may be in, what its node holds.                           *)
(***************************************************************************)
EXTENDS CacheStoreProofs

----------------------------------------------------------------------------
(* The places of a shard                                                    *)

WaitsIn(x) == IF x = None THEN {} ELSE IF x.stage = "wait" THEN {x.s} ELSE {}
SyncsIn(x) == IF x = None THEN {} ELSE IF x.stage = "sync" THEN {x.s} ELSE {}
Gathers(m) == IF m.stage = "get" THEN m.held ELSE {}
Sends(m) == IF m.stage = "push" THEN {m.t} ELSE {}

(* Load shards before their node is known to be ready, load shards with     *)
(* their copy started, dump shards before their backend dump is started,    *)
(* tasks whose backend dump is, and the shards of those.                    *)
PendingOf(p) == OutOf(disp[p]) \cup Rng(running[p]) \cup WaitsIn(xfer[p])
CopiedOf(p) == holder[p] \cup SyncsIn(xfer[p])
HeldOf(p) == Gathers(dump[p])
SentOf(p) == Sends(dump[p]) \cup LateOf(dumping[p], dumper[p])

Pending == UNION {PendingOf(p) : p \in Procs}
Copied == UNION {CopiedOf(p) : p \in Procs}
Held == UNION {HeldOf(p) : p \in Procs}
Sent == UNION {SentOf(p) : p \in Procs}
SentShards == UNION {bdump[t].held : t \in Sent}
Pinned == Pending \cup Copied \cup Held \cup SentShards

(* The tasks some stage has to finish before their latch opens.             *)
Lined == UNION {Rng(waiting["load"][p]) \cup Rng(waiting["dump"][p]) : p \in Procs}
InHand(t) == \E p \in Procs : disp[p].t = t \/ dump[p].t = t
Active(t) == t \in Lined \/ InHand(t) \/ \E s \in Pending \cup Copied : s.t = t

----------------------------------------------------------------------------
(* The invariant                                                            *)

ContentType ==
  /\ data \in [Nodes -> Keys \cup {None}] /\ disk \in [Keys -> Keys \cup {None}]
  /\ dev \in [Shards -> Keys \cup {None}]
  /\ bload \in [Shards -> [st : {"none", "run", "ok", "fail"}, node : Nodes \cup {None}]]

(* Whoever writes a node, through the backend or from the device, does so   *)
(* alone, and nobody reads it meanwhile.                                    *)
Writer(s) == (s \in Pending /\ s.own) \/ (s \in Held /\ tab[s.node].st = "LOADING")
Bound == \A s \in Pinned : tab[s.node].key = KeyOf(s)
Alone ==
  /\ \A s \in Pending : s.own => tab[s.node].st = "LOADING"
  /\ \A s, u \in Pending \cup Held : Writer(s) /\ Writer(u) /\ s.node = u.node => s = u
Filled ==
  /\ \A s \in Held : \/ tab[s.node].st = "READY"
                     \/ tab[s.node].st = "LOADING" /\ (s \in d2h \/ data[s.node] = KeyOf(s))
  /\ \A s \in d2h : s \in Held /\ tab[s.node].st = "LOADING"
  /\ \A s \in Copied \cup SentShards : tab[s.node].st = "READY"
  /\ h2d \in SUBSET Copied
Right == CacheCoherent /\ \A k \in Keys : disk[k] \in {None, k}

(* Backend loads write for the shard that waits for them, backend dumps     *)
(* read nodes that are still pinned.                                        *)
OnBackend(k) == k \in Keys /\ disk[k] = k
Stored(s) == OnBackend(KeyOf(s))
Answered ==
  \A s \in Pending : s.own =>
    /\ bload[Id(s)].st # "none" /\ bload[Id(s)].node = s.node
    /\ bload[Id(s)].st = "ok" => data[s.node] = KeyOf(s) /\ Stored(s)
Asked ==
  /\ \A x \in Shards : bload[x].st = "run" =>
       \E s \in Pending : s.own /\ Id(s) = x /\ s.node = bload[x].node
  /\ \A t \in Tasks : bdump[t].st = "run" => t \in Sent

(* A task that failed or is done is nowhere any more.                       *)
Open ==
  /\ \A t \in done \cup failureSet : ~Active(t)
  /\ \A t \in Tasks : \/ st[t] = "new" /\ t \notin done \cup failureSet
                      \/ st[t] = "run"
                      \/ st[t] \in {"ok", "failed"} /\ t \in done

(* Every shard of a load is on the device, or on its way there.             *)
Arrived(t, i) == dev[<<t, i>>] = KeysOf[t][i]
OnItsWay(t, i) ==
  \/ t \in Rng(waiting["load"][ProcOf[t]])
  \/ disp[ProcOf[t]].t = t /\ disp[ProcOf[t]].i <= i
  \/ \E s \in Pending \cup h2d : Id(s) = <<t, i>>
Coming ==
  \A t \in Loads : st[t] = "ok" \/ (st[t] = "run" /\ t \notin failureSet) =>
    \A i \in 1 .. Len(KeysOf[t]) : Arrived(t, i) \/ OnItsWay(t, i)

(* Without faults nothing fails, and a READY node that the backend does not *)
(* hold is pinned by the dump that will store it.                           *)
Sound ==
  /\ \A k \in OnDisk : disk[k] = k
  /\ \A x \in Shards : bload[x].st # "fail"
  /\ \A n \in Nodes : tab[n].st # "FAILED"
  /\ \A t \in Tasks : bdump[t].st # "fail"
  /\ \A t \in Tasks : bdump[t].st = "ok" => \A s \in bdump[t].held : Stored(s)
  /\ \A t \in Sent : bdump[t].st # "none"
Kept ==
  \A n \in Nodes : tab[n].st = "READY" =>
    \/ OnBackend(tab[n].key)
    \/ \E s \in Held \cup SentShards : s.node = n

NodesRight ==
  /\ ContentType /\ Bound /\ Alone /\ Filled /\ Right /\ Answered /\ Asked
  /\ Faultless => Sound /\ Kept
TasksRight == Open /\ Coming
Contents == NodesRight /\ TasksRight

----------------------------------------------------------------------------
(* What CacheStoreProofs says of the places                                 *)

Places1(p) ==
  /\ \A s \in PendingOf(p) \cup CopiedOf(p) : ShardOf(KeysOf, p, Loads, s)
  /\ \A s \in HeldOf(p) : ShardOf(KeysOf, p, Dumps, s) /\ s.t = dump[p].t
  /\ \A t \in SentOf(p) : t \in Dumps /\ ProcOf[t] = p
                          /\ \A s \in bdump[t].held : ShardOf(KeysOf, p, Dumps, s) /\ s.t = t
  /\ disp[p].t # None => disp[p].t \in Loads /\ ProcOf[disp[p].t] = p
  /\ dump[p].t # None => dump[p].t \in Dumps /\ ProcOf[dump[p].t] = p
  /\ \A t \in Rng(waiting["load"][p]) : t \in Loads /\ ProcOf[t] = p
  /\ \A t \in Rng(waiting["dump"][p]) : t \in Dumps /\ ProcOf[t] = p
Whereabouts == \A p \in Procs : Places1(p)

LEMMA Parts ==
  ASSUME Structure, NEW p \in Procs
  PROVE  /\ LoadsOf(p) = PendingOf(p) \cup CopiedOf(p)
         /\ HeldOf(p) \in SUBSET DumpsOf(p)
         /\ \A t \in SentOf(p) : bdump[t].held \in SUBSET DumpsOf(p)
<1>1. xfer[p] \in Xfers \cup {None} /\ dump[p] \in DumpRecs
  BY InPlaces DEF LoadType, DumpType
<1>2. InOf(xfer[p]) = WaitsIn(xfer[p]) \cup SyncsIn(xfer[p])
  BY <1>1 DEF InOf, WaitsIn, SyncsIn, Xfers
<1>3. LoadsOf(p) = PendingOf(p) \cup CopiedOf(p)
  BY <1>2 DEF LoadsOf, LoadSet, PendingOf, CopiedOf
<1>4. HeldOf(p) \in SUBSET DumpsOf(p)
  BY DEF HeldOf, Gathers, DumpsOf, DumpSet
<1>5. ASSUME NEW t \in SentOf(p)  PROVE bdump[t].held \in SUBSET DumpsOf(p)
  <2>1. CASE t \in LateOf(dumping[p], dumper[p])
    BY <2>1 DEF DumpsOf, DumpSet, LateSet
  <2>2. CASE t \in Sends(dump[p])
    <3>1. dump[p].stage = "push" /\ t = dump[p].t
      BY <2>2 DEF Sends
    <3>2. bdump[t].held = dump[p].held
      BY <3>1, InPlaces DEF Dumping, DumpShape
    <3> QED BY <3>2 DEF DumpsOf, DumpSet
  <2> QED BY <2>1, <2>2 DEF SentOf
<1> QED BY <1>3, <1>4, <1>5

LEMMA Located == Structure => Whereabouts
<1> SUFFICES ASSUME Structure, NEW p \in Procs  PROVE Places1(p)
  BY DEF Whereabouts
<1>1. /\ LoadShape(KeysOf, p, disp[p], running[p], xfer[p], holder[p])
      /\ DumpShape(KeysOf, p, dump[p], dumping[p], dumper[p], bdump)
  BY InPlaces DEF Loading, Dumping
<1>2. \A s \in PendingOf(p) \cup CopiedOf(p) : ShardOf(KeysOf, p, Loads, s)
  BY <1>1, Parts DEF LoadShape, LoadsOf
<1>3. \A s \in HeldOf(p) : ShardOf(KeysOf, p, Dumps, s) /\ s.t = dump[p].t
  BY <1>1 DEF HeldOf, Gathers, DumpShape, MakerShape
<1>4. ASSUME NEW t \in SentOf(p)
      PROVE  t \in Dumps /\ ProcOf[t] = p /\ \A s \in bdump[t].held : ShardOf(KeysOf, p, Dumps, s) /\ s.t = t
  <2>1. CASE t \in LateOf(dumping[p], dumper[p])
    BY <1>1, <2>1 DEF DumpShape, LateShape
  <2>2. CASE t \in Sends(dump[p])
    BY <1>1, <2>2 DEF Sends, DumpShape, MakerShape
  <2> QED BY <2>1, <2>2 DEF SentOf
<1>5. /\ disp[p].t # None => disp[p].t \in Loads /\ ProcOf[disp[p].t] = p
      /\ dump[p].t # None => dump[p].t \in Dumps /\ ProcOf[dump[p].t] = p
  BY <1>1 DEF LoadShape, DispShape, DumpShape, MakerShape
<1>6. /\ \A t \in Rng(waiting["load"][p]) : t \in Tasks /\ QueueOf(t) = "load" /\ ProcOf[t] = p
      /\ \A t \in Rng(waiting["dump"][p]) : t \in Tasks /\ QueueOf(t) = "dump" /\ ProcOf[t] = p
  BY DEF Structure, Places, Waits, Line
<1>7. /\ \A t \in Rng(waiting["load"][p]) : t \in Loads /\ ProcOf[t] = p
      /\ \A t \in Rng(waiting["dump"][p]) : t \in Dumps /\ ProcOf[t] = p
  BY <1>6 DEF QueueOf, Tasks
<1> QED BY <1>2, <1>3, <1>4, <1>5, <1>7 DEF Places1

LEMMA LocatedNext == Structure' => Whereabouts'
BY Located, PTL

(* A pinned shard has a node, a key and an identity.                        *)
LEMMA PinnedShards ==
  ASSUME Structure, NEW s \in Pinned
  PROVE  /\ s \in Live /\ s \in ShardTasks /\ s.node \in Nodes /\ s.t \in Tasks /\ Id(s) \in Shards
         /\ s.i \in 1 .. Len(KeysOf[s.t]) /\ KeyOf(s) \in Keys /\ KeyOf(s) # None
<1>1. PICK p \in Procs : s \in PendingOf(p) \cup CopiedOf(p) \cup HeldOf(p) \/ \E t \in SentOf(p) : s \in bdump[t].held
  BY DEF Pinned, Pending, Copied, Held, SentShards, Sent
<1>2. s \in LoadsOf(p) \cup DumpsOf(p)
  BY <1>1, Parts
<1>3. s \in Live
  BY <1>2, LiveIs DEF Live
<1>4. s \in ShardTasks /\ s.t \in Tasks /\ s.i \in 1 .. Len(KeysOf[s.t])
  BY <1>1, Located DEF Whereabouts, Places1, ShardOf, Tasks
<1>5. KeyOf(s) \in Keys /\ s.i \in 1 .. MaxShards
  BY <1>4, KeyInKeys DEF KeyOf
<1> QED BY <1>3, <1>4, <1>5, StoreAssumption DEF ShardTasks, Id, Shards

LEMMA NobodyAt ==
  ASSUME Structure, NEW n \in Nodes, tab[n].ref = 0, NEW s \in Pinned
  PROVE  s.node # n
<1>1. Cardinality(Pins(Live, n)) = 0 /\ IsFiniteSet(Live)
  BY InPlaces DEF Counts, Counted
<1>2. IsFiniteSet(Pins(Live, n))
  BY <1>1, FS_Subset DEF Pins
<1>3. Pins(Live, n) = {}
  BY <1>1, <1>2, FS_EmptySet
<1> QED BY <1>3, PinnedShards DEF Pins

----------------------------------------------------------------------------
(* How a step of one process changes the places                             *)

LEMMA LoadPlaces ==
  ASSUME LoadType, NEW p \in Procs, NEW d, NEW r, NEW x, NEW h, LoadsMove(p, d, r, x, h)
  PROVE  /\ \A q \in Procs : q # p => PendingOf(q)' = PendingOf(q) /\ CopiedOf(q)' = CopiedOf(q)
         /\ \A q \in Procs : q # p => disp'[q] = disp[q]
         /\ PendingOf(p)' = OutOf(d) \cup Rng(r) \cup WaitsIn(x) /\ CopiedOf(p)' = h \cup SyncsIn(x)
         /\ disp'[p] = d
         /\ Held' = Held /\ Sent' = Sent /\ SentShards' = SentShards
<1>1. /\ disp'[p] = d /\ running'[p] = r /\ xfer'[p] = x /\ holder'[p] = h
      /\ \A q \in Procs : q # p => disp'[q] = disp[q] /\ running'[q] = running[q]
                                   /\ xfer'[q] = xfer[q] /\ holder'[q] = holder[q]
  BY DEF LoadType, LoadsMove, Step
<1>2. /\ \A q \in Procs : q # p => PendingOf(q)' = PendingOf(q) /\ CopiedOf(q)' = CopiedOf(q)
      /\ PendingOf(p)' = OutOf(d) \cup Rng(r) \cup WaitsIn(x) /\ CopiedOf(p)' = h \cup SyncsIn(x)
  BY <1>1 DEF PendingOf, CopiedOf
<1>3. dump' = dump /\ dumping' = dumping /\ dumper' = dumper /\ bdump' = bdump
  BY DEF LoadsMove
<1>4. Held' = Held /\ Sent' = Sent
  BY <1>3 DEF Held, HeldOf, Sent, SentOf
<1>5. SentShards' = SentShards
  BY <1>3, <1>4 DEF SentShards
<1> QED BY <1>1, <1>2, <1>4, <1>5

LEMMA DumpPlaces ==
  ASSUME DumpType, NEW p \in Procs, NEW m, NEW q, NEW w, DumpsMove(p, m, q, w)
  PROVE  /\ \A o \in Procs : o # p => HeldOf(o)' = HeldOf(o) /\ SentOf(o)' = SentOf(o)
         /\ \A o \in Procs : o # p => dump'[o] = dump[o]
         /\ HeldOf(p)' = Gathers(m) /\ SentOf(p)' = Sends(m) \cup LateOf(q, w)
         /\ dump'[p] = m
         /\ Pending' = Pending /\ Copied' = Copied
<1>1. /\ dump'[p] = m /\ dumping'[p] = q /\ dumper'[p] = w
      /\ \A o \in Procs : o # p => dump'[o] = dump[o] /\ dumping'[o] = dumping[o] /\ dumper'[o] = dumper[o]
  BY DEF DumpType, DumpsMove, Step
<1>2. /\ \A o \in Procs : o # p => HeldOf(o)' = HeldOf(o) /\ SentOf(o)' = SentOf(o)
      /\ HeldOf(p)' = Gathers(m) /\ SentOf(p)' = Sends(m) \cup LateOf(q, w)
  BY <1>1 DEF HeldOf, SentOf
<1>3. disp' = disp /\ running' = running /\ xfer' = xfer /\ holder' = holder
  BY DEF DumpsMove
<1>4. Pending' = Pending /\ Copied' = Copied
  BY <1>3 DEF Pending, PendingOf, Copied, CopiedOf
<1> QED BY <1>1, <1>2, <1>4


----------------------------------------------------------------------------
(* Steps that leave the nodes alone                                         *)

LEMMA SameKeys ==
  ASSUME sc' = sc
  PROVE  /\ KeysOf' = KeysOf /\ Faults' = Faults /\ (\A s : KeyOf(s)' = KeyOf(s))
         /\ Faultless' = Faultless /\ Tolerated' = Tolerated
BY DEF KeysOf, Faults, KeyOf, Faultless, Tolerated

(* Handles are dropped or passed on; what a backend dump reads is dropped   *)
(* only when it has ended.                                                  *)
Shrinks ==
  /\ Pending' = Pending /\ Held' = Held
  /\ Copied' \in SUBSET Copied /\ Sent' \in SUBSET Sent /\ SentShards' \in SUBSET SentShards
  /\ \A t \in Sent \ Sent' : bdump[t].st # "run"
  /\ Faultless => \A s \in SentShards \ SentShards' : Stored(s)

LEMMA NodesShrink ==
  ASSUME Structure, NodesRight, Shrinks, SameBut(tab', tab), sc' = sc,
         data' = data, disk' = disk, bload' = bload, bdump' = bdump, d2h' = d2h,
         h2d' \in SUBSET Copied', dev' \in [Shards -> Keys \cup {None}]
  PROVE  NodesRight'
<1>1. /\ Pending' = Pending /\ Held' = Held /\ Copied' \in SUBSET Copied /\ SentShards' \in SUBSET SentShards
      /\ Sent' \in SUBSET Sent
  BY DEF Shrinks
<1>2. (\A s : KeyOf(s)' = KeyOf(s)) /\ Faultless' = Faultless
  BY SameKeys
<1>3. \A n \in Nodes : tab'[n].key = tab[n].key /\ tab'[n].st = tab[n].st
  BY DEF SameBut
<1>4. \A s \in Pinned : s.node \in Nodes
  BY PinnedShards
<1>5. ContentType' /\ Right'
  BY <1>3 DEF NodesRight, ContentType, Right, CacheCoherent
<1>6. Pinned' \in SUBSET Pinned
  BY <1>1 DEF Pinned
<1>7. Bound'
  BY <1>2, <1>3, <1>4, <1>6 DEF NodesRight, Bound
<1>8. /\ \A s \in Pending \cup Held : s.node \in Nodes /\ tab'[s.node].st = tab[s.node].st
      /\ \A s : Writer(s)' = Writer(s)
  BY <1>1, <1>3, <1>4 DEF Pinned, Writer
<1>9. Alone'
  BY <1>1, <1>8 DEF NodesRight, Alone
<1>10. Filled'
  BY <1>1, <1>2, <1>3, <1>4 DEF NodesRight, Filled, Pinned
<1>11. Answered'
  BY <1>1, <1>2 DEF NodesRight, Answered, Stored, OnBackend
<1>12. Asked'
  BY <1>1 DEF NodesRight, Asked, Shrinks
<1>13. ASSUME Faultless  PROVE Sound'
  BY <1>1, <1>2, <1>3, <1>13 DEF NodesRight, Sound, Stored, OnBackend
<1>14. ASSUME Faultless  PROVE Kept'
  <2> SUFFICES ASSUME NEW n \in Nodes, tab'[n].st = "READY"
               PROVE  OnBackend(tab[n].key) \/ \E s \in Held \cup SentShards' : s.node = n
    BY <1>1, <1>3 DEF Kept, OnBackend
  <2>1. CASE OnBackend(tab[n].key)
    BY <2>1
  <2>2. ASSUME NEW s \in Held \cup SentShards, s.node = n
        PROVE  OnBackend(tab[n].key) \/ \E u \in Held \cup SentShards' : u.node = n
    <3>1. CASE s \in Held \cup SentShards'
      BY <2>2, <3>1
    <3>2. CASE s \in SentShards \ SentShards'
      <4>1. Stored(s) /\ tab[n].key = KeyOf(s)
        BY <1>14, <2>2, <3>2 DEF Shrinks, NodesRight, Bound, Pinned
      <4> QED BY <4>1 DEF Stored, OnBackend
    <3> QED BY <2>2, <3>1, <3>2
  <2> QED BY <1>3, <1>14, <2>2 DEF NodesRight, Kept, OnBackend
<1> QED BY <1>2, <1>5, <1>7, <1>9, <1>10, <1>11, <1>12, <1>13, <1>14 DEF NodesRight


----------------------------------------------------------------------------
(* A node is got: for a load shard (W), for a dump shard (H), or for nobody *)

Nobody(n) == \A s \in Pinned : s.node # n
Steady ==
  /\ \A s \in Pinned : tab'[s.node].key = tab[s.node].key /\ tab'[s.node].st = tab[s.node].st
  /\ \A n \in Nodes : tab'[n].st = "READY" => tab[n].st = "READY" /\ tab'[n].key = tab[n].key

LEMMA GotSteady ==
  ASSUME Structure, NEW k, NEW b, NEW r, Got(tab, k, b, r), tab' = r.tab
  PROVE  /\ Steady /\ tab'[r.node].key = k /\ r.node \in Nodes
         /\ r.own => Nobody(r.node) /\ tab'[r.node].st \in {"LOADING", "READY"}
         /\ \A n \in Nodes : tab'[n].st = "FAILED" => tab[n].st = "FAILED"
<1>1. /\ r.node \in Nodes /\ r.own = (tab[r.node].ref = 0)
      /\ \A m \in Nodes : m # r.node => r.tab[m].key = tab[m].key /\ r.tab[m].st = tab[m].st
      /\ r.tab[r.node].key = k
      /\ \/ tab[r.node].key = k /\ r.tab[r.node].st = HitState(tab[r.node], b)
         \/ r.own /\ r.tab[r.node].st = "LOADING"
  BY DEF Got
<1>2. tab[r.node].st \in States
  BY <1>1, InPlaces DEF Tables
<1>3. r.own => Nobody(r.node)
  BY <1>1, NobodyAt DEF Nobody
<1>4. ~r.own => r.tab[r.node].key = tab[r.node].key /\ r.tab[r.node].st = tab[r.node].st
  BY <1>1 DEF HitState
<1>5. r.own => r.tab[r.node].st \in {"LOADING", "READY"}
  BY <1>1, <1>2 DEF HitState, States
<1>6. r.tab[r.node].st = "READY" => tab[r.node].st = "READY" /\ tab[r.node].key = k
  BY <1>1, <1>2 DEF HitState, States
<1>7. \A n \in Nodes : r.tab[n].st = "FAILED" => tab[n].st = "FAILED"
  BY <1>1, <1>4, <1>5
<1>8. \A s \in Pinned : s.node \in Nodes
  BY PinnedShards
<1>9. Steady
  BY <1>1, <1>3, <1>4, <1>6, <1>8 DEF Steady, Nobody
<1> QED BY <1>1, <1>3, <1>5, <1>7, <1>9

Grows(W, H) ==
  /\ Pending' = Pending \cup W /\ Held' = Held \cup H
  /\ Copied' = Copied /\ Sent' = Sent /\ SentShards' = SentShards
  /\ \A s \in W \cup H : s.node \in Nodes /\ tab'[s.node].key = KeyOf(s)
  /\ \A s \in W \cup H, u \in W \cup H : s = u
  /\ \A s \in W : s.own => /\ tab'[s.node].st = "LOADING" /\ Nobody(s.node)
                           /\ bload'[Id(s)].st = "run" /\ bload'[Id(s)].node = s.node
  /\ \A s \in H : Nobody(s.node) /\ (tab'[s.node].st = "READY" \/ (tab'[s.node].st = "LOADING" /\ s \in d2h'))
  /\ d2h \in SUBSET d2h' /\ \A s \in d2h' : s \in d2h \/ (s \in H /\ tab'[s.node].st = "LOADING")
  /\ bload' \in [Shards -> [st : {"none", "run", "ok", "fail"}, node : Nodes \cup {None}]]
  /\ \A x \in Shards : \/ bload'[x] = bload[x]
                       \/ /\ bload'[x].st = "run" /\ \A u \in Pending : Id(u) # x
                          /\ \E s \in W : s.own /\ Id(s) = x /\ s.node = bload'[x].node

LEMMA NodesGrow ==
  ASSUME Structure, NodesRight, NEW W, NEW H, Grows(W, H), Steady, sc' = sc,
         Faultless => \A n \in Nodes : tab'[n].st # "FAILED",
         data' = data, disk' = disk, dev' = dev, bdump' = bdump, h2d' = h2d
  PROVE  NodesRight'
<1>1. /\ Pending' = Pending \cup W /\ Held' = Held \cup H
      /\ Copied' = Copied /\ Sent' = Sent /\ SentShards' = SentShards
  BY DEF Grows
<1>2. (\A s : KeyOf(s)' = KeyOf(s)) /\ Faultless' = Faultless
  BY SameKeys
<1>3. \A s \in Pinned : s.node \in Nodes /\ tab'[s.node].key = tab[s.node].key /\ tab'[s.node].st = tab[s.node].st
  BY PinnedShards DEF Steady
<1>4. Pinned' = Pinned \cup W \cup H
  BY <1>1 DEF Pinned
<1>5. ContentType'
  BY DEF NodesRight, ContentType, Grows
<1>6. Right'
  BY DEF NodesRight, Right, CacheCoherent, Steady
<1>7. Bound'
  BY <1>2, <1>3, <1>4 DEF NodesRight, Bound, Grows
<1>8. /\ \A s \in Pending \cup Held : tab'[s.node].st = tab[s.node].st
      /\ \A s \in Copied \cup SentShards : tab'[s.node].st = tab[s.node].st
  BY <1>3 DEF Pinned
<1>9. Alone'
  <2>1. \A s \in Pending' : s.own => tab'[s.node].st = "LOADING"
    BY <1>1, <1>8 DEF NodesRight, Alone, Grows
  <2>2. ASSUME NEW s, s \in W \cup H, Writer(s)', NEW u \in Pending \cup Held
        PROVE  s \in Pending \cup Held \/ s.node # u.node
    <3>1. CASE s \in H
      BY <3>1 DEF Grows, Nobody, Pinned
    <3>2. CASE s \in W /\ s.own
      BY <3>2 DEF Grows, Nobody, Pinned
    <3>3. CASE s \in W /\ ~s.own /\ s \notin H
      BY <1>1, <2>2, <3>3 DEF Writer
    <3> QED BY <2>2, <3>1, <3>2, <3>3
  <2>3. ASSUME NEW s \in Pending \cup Held, Writer(s)', NEW u \in Pending \cup Held, Writer(u)', s.node = u.node
        PROVE  s = u
    <3>1. ASSUME NEW v \in Pending \cup Held, Writer(v)', v \notin W \cup H  PROVE Writer(v)
      BY <1>1, <1>8, <3>1 DEF Writer
    <3>2. CASE s \notin W \cup H /\ u \notin W \cup H
      BY <2>3, <3>1, <3>2 DEF NodesRight, Alone
    <3>3. \A v \in W \cup H : v \in Pending \cup Held => ~Nobody(v.node)
      BY DEF Nobody, Pinned
    <3>4. ASSUME NEW v \in Pending \cup Held, Writer(v)', v \in W \cup H  PROVE Writer(v)
      <4>1. v \notin H /\ (v \in W => ~v.own)
        BY <3>3, <3>4 DEF Grows
      <4> QED BY <1>1, <1>8, <3>4, <4>1 DEF Writer
    <3> QED BY <2>3, <3>1, <3>4 DEF NodesRight, Alone
  <2>4. ASSUME NEW s \in Pending' \cup Held', NEW u \in Pending' \cup Held', Writer(s)', Writer(u)', s.node = u.node
        PROVE  s = u
    <3>1. CASE s \in W \cup H /\ u \in W \cup H
      BY <3>1 DEF Grows
    <3> QED BY <1>1, <2>2, <2>3, <2>4, <3>1
  <2> QED BY <2>1, <2>4 DEF Alone
<1>10. Filled'
  <2>1. \A s \in Held' : \/ tab'[s.node].st = "READY"
                         \/ tab'[s.node].st = "LOADING" /\ (s \in d2h' \/ data'[s.node] = KeyOf(s)')
    BY <1>1, <1>2, <1>8 DEF NodesRight, Filled, Grows
  <2>2. \A s \in d2h' : s \in Held' /\ tab'[s.node].st = "LOADING"
    BY <1>1, <1>8 DEF NodesRight, Filled, Grows
  <2>3. (\A s \in Copied' \cup SentShards' : tab'[s.node].st = "READY") /\ h2d' \in SUBSET Copied'
    BY <1>1, <1>8 DEF NodesRight, Filled
  <2> QED BY <2>1, <2>2, <2>3 DEF Filled
<1>11. Answered'
  <2> SUFFICES ASSUME NEW s \in Pending', s.own
               PROVE  /\ bload'[Id(s)].st # "none" /\ bload'[Id(s)].node = s.node
                      /\ bload'[Id(s)].st = "ok" => data[s.node] = KeyOf(s) /\ Stored(s)
    BY <1>2 DEF Answered, Stored, OnBackend
  <2>1. CASE s \in W
    BY <2>1 DEF Grows
  <2>2. CASE s \in Pending
    <3>1. Id(s) \in Shards
      BY <2>2, PinnedShards DEF Pinned
    <3>2. bload'[Id(s)] = bload[Id(s)]
      BY <2>2, <3>1 DEF Grows
    <3> QED BY <2>2, <3>2 DEF NodesRight, Answered
  <2> QED BY <1>1, <2>1, <2>2
<1>12. Asked'
  <2>1. ASSUME NEW x \in Shards, bload'[x].st = "run"
        PROVE  \E s \in Pending' : s.own /\ Id(s) = x /\ s.node = bload'[x].node
    BY <1>1, <2>1 DEF NodesRight, Asked, Grows
  <2> QED BY <1>1, <2>1 DEF NodesRight, Asked
<1>13. ASSUME Faultless  PROVE Sound'
  <2>1. \A x \in Shards : bload'[x].st # "fail"
    BY <1>13 DEF NodesRight, Sound, Grows
  <2> QED BY <1>1, <1>2, <1>13, <2>1 DEF NodesRight, Sound, Stored, OnBackend
<1>14. ASSUME Faultless  PROVE Kept'
  BY <1>1, <1>14 DEF NodesRight, Kept, Steady, OnBackend
<1> QED BY <1>2, <1>5, <1>6, <1>7, <1>9, <1>10, <1>11, <1>12, <1>13, <1>14 DEF NodesRight

----------------------------------------------------------------------------
(* The transfer thread settles the node of a shard; C is the shard when its *)
(* copy to the device starts                                                *)

LEMMA LoadsAreNoDumps ==
  ASSUME Structure, NEW s \in Pending \cup Copied, NEW u \in Held \cup SentShards
  PROVE  s # u
<1>1. s.t \in Loads
  BY Located DEF Pending, Copied, Whereabouts, Places1, ShardOf
<1>2. u.t \in Dumps
  <2>1. CASE u \in Held
    BY <2>1, Located DEF Held, Whereabouts, Places1, ShardOf
  <2>2. CASE u \in SentShards
    BY <2>2, Located DEF SentShards, Sent, Whereabouts, Places1, ShardOf
  <2> QED BY <2>1, <2>2
<1> QED BY <1>1, <1>2, StoreAssumption

Settles(s, x, C) ==
  /\ Pending' = But(Pending, s) /\ Copied' = Copied \cup C /\ h2d' = h2d \cup C /\ C \in SUBSET {s}
  /\ Held' = Held /\ Sent' = Sent /\ SentShards' = SentShards
  /\ \A n \in Nodes : tab'[n].key = tab[n].key
  /\ \A n \in Nodes : tab'[n].st = IF s.own /\ n = s.node /\ tab[n].st = "LOADING" THEN x ELSE tab[n].st
  /\ s.own => bload[Id(s)].st = IF x = "READY" THEN "ok" ELSE "fail"
  /\ x = "FAILED" => C = {} /\ ~Faultless
  /\ C # {} /\ ~s.own => tab[s.node].st = "READY"

LEMMA NodesSettle ==
  ASSUME Structure, NodesRight, NEW s \in Pending, NEW x \in {"READY", "FAILED"}, NEW C, Settles(s, x, C), sc' = sc,
         data' = data, disk' = disk, dev' = dev, bload' = bload, bdump' = bdump, d2h' = d2h
  PROVE  NodesRight'
<1>1. /\ Pending' = But(Pending, s) /\ Copied' = Copied \cup C /\ h2d' = h2d \cup C /\ C \in SUBSET {s}
      /\ Held' = Held /\ Sent' = Sent /\ SentShards' = SentShards
      /\ \A n \in Nodes : tab'[n].key = tab[n].key
  BY DEF Settles
<1>2. (\A u : KeyOf(u)' = KeyOf(u)) /\ Faultless' = Faultless
  BY SameKeys
<1>3. \A u \in Pinned : u.node \in Nodes
  BY PinnedShards
<1>4. s \in Pinned /\ s.node \in Nodes /\ Id(s) \in Shards
  BY PinnedShards DEF Pinned
<1>5. /\ \A n \in Nodes : n # s.node \/ ~s.own => tab'[n].st = tab[n].st
      /\ \A n \in Nodes : tab[n].st # "LOADING" => tab'[n].st = tab[n].st
      /\ \A n \in Nodes : tab'[n].st = "LOADING" => tab[n].st = "LOADING"
      /\ s.own => tab'[s.node].st = x
  BY <1>4 DEF Settles, NodesRight, Alone
<1>6. s.own => \A u \in Pending \cup Held : Writer(u) /\ u.node = s.node => u = s
  BY DEF NodesRight, Alone, Writer
<1>7. ContentType'
  BY DEF NodesRight, ContentType
<1>8. Right'
  <2>1. ASSUME NEW n \in Nodes, tab'[n].st = "READY"  PROVE data[n] = tab[n].key
    <3>1. CASE tab[n].st = "READY"
      BY <3>1 DEF NodesRight, Right, CacheCoherent
    <3>2. CASE tab[n].st # "READY"
      <4>1. s.own /\ n = s.node /\ x = "READY"
        BY <1>5, <2>1, <3>2
      <4>2. data[n] = KeyOf(s) /\ tab[n].key = KeyOf(s)
        BY <1>4, <4>1 DEF Settles, NodesRight, Answered, Bound
      <4> QED BY <4>2
    <3> QED BY <3>1, <3>2
  <2> QED BY <1>1, <2>1 DEF NodesRight, Right, CacheCoherent
<1>9. Bound'
  <2>1. Pinned' \in SUBSET Pinned
    BY <1>1 DEF Pinned, But
  <2> QED BY <1>1, <1>2, <1>3, <2>1 DEF NodesRight, Bound
<1>10. \A u \in Pending \cup Held : Writer(u)' => Writer(u)
  BY <1>1, <1>3, <1>5 DEF Writer, Pinned, But
<1>11. Alone'
  <2>1. ASSUME NEW u \in Pending', u.own  PROVE tab'[u.node].st = "LOADING"
    <3>1. u \in Pending /\ u # s /\ u.node \in Nodes /\ tab[u.node].st = "LOADING" /\ Writer(u)
      BY <1>1, <1>3, <2>1 DEF But, NodesRight, Alone, Pinned, Writer
    <3> QED BY <1>5, <1>6, <3>1
  <2> QED BY <1>1, <1>10, <2>1 DEF NodesRight, Alone, But
<1>12. \A u \in Held : u.node \in Nodes /\ tab'[u.node].st = tab[u.node].st
  <2> SUFFICES ASSUME NEW u \in Held  PROVE u.node \in Nodes /\ tab'[u.node].st = tab[u.node].st
    OBVIOUS
  <2>1. u # s /\ u.node \in Nodes
    BY <1>3, LoadsAreNoDumps DEF Pinned
  <2>2. CASE tab[u.node].st = "LOADING"
    BY <1>5, <1>6, <2>1, <2>2 DEF Writer
  <2> QED BY <1>5, <2>1, <2>2
<1>13. Filled'
  <2>1. \A u \in Copied \cup SentShards : u.node \in Nodes /\ tab'[u.node].st = "READY"
    BY <1>3, <1>5 DEF NodesRight, Filled, Pinned
  <2>2. \A u \in C : tab'[u.node].st = "READY"
    BY <1>1, <1>4, <1>5 DEF Settles
  <2> QED BY <1>1, <1>2, <1>12, <2>1, <2>2 DEF NodesRight, Filled
<1>14. Answered'
  BY <1>1, <1>2 DEF NodesRight, Answered, Stored, But, OnBackend
<1>15. Asked'
  <2>1. ASSUME NEW y \in Shards, bload[y].st = "run"
        PROVE  \E u \in Pending' : u.own /\ Id(u) = y /\ u.node = bload[y].node
    <3>1. PICK u \in Pending : u.own /\ Id(u) = y /\ u.node = bload[y].node
      BY <2>1 DEF NodesRight, Asked
    <3>2. u # s
      BY <2>1, <3>1 DEF Settles
    <3> QED BY <1>1, <3>1, <3>2 DEF But
  <2> QED BY <1>1, <2>1 DEF NodesRight, Asked
<1>16. ASSUME Faultless  PROVE Sound'
  <2>1. \A n \in Nodes : tab'[n].st # "FAILED"
    BY <1>16 DEF Settles, NodesRight, Sound
  <2> QED BY <1>1, <1>2, <1>16, <2>1 DEF NodesRight, Sound, Stored, OnBackend
<1>17. ASSUME Faultless  PROVE Kept'
  <2> SUFFICES ASSUME NEW n \in Nodes, tab'[n].st = "READY"
               PROVE  OnBackend(tab[n].key) \/ \E u \in Held \cup SentShards : u.node = n
    BY <1>1 DEF Kept, OnBackend
  <2>1. CASE tab[n].st = "READY"
    BY <1>17, <2>1 DEF NodesRight, Kept, OnBackend
  <2>2. CASE tab[n].st # "READY"
    <3>1. s.own /\ n = s.node /\ x = "READY"
      BY <1>5, <2>2
    <3>2. Stored(s) /\ tab[n].key = KeyOf(s)
      BY <1>4, <3>1 DEF Settles, NodesRight, Answered, Bound
    <3> QED BY <3>2 DEF Stored, OnBackend
  <2> QED BY <2>1, <2>2
<1> QED BY <1>2, <1>7, <1>8, <1>9, <1>11, <1>13, <1>14, <1>15, <1>16, <1>17 DEF NodesRight

----------------------------------------------------------------------------
(* A dump marks the nodes it has filled (H) and hands G of them down        *)

Marks(H, G) ==
  /\ Pending' = Pending /\ Copied' = Copied /\ Held' = Less(Held, H)
  /\ SentShards' = SentShards \cup G
  /\ H \in SUBSET Held /\ G \in SUBSET H /\ \A s \in d2h : s \notin H
  /\ \A n \in Nodes : tab'[n].key = tab[n].key
  /\ \A n \in Nodes : tab'[n].st = IF (\E s \in H : s.node = n) /\ tab[n].st = "LOADING"
                                   THEN "READY" ELSE tab[n].st
  /\ \A t \in Tasks : bdump'[t].st = "run" => t \in Sent'
  /\ Faultless => /\ G = H
                  /\ \A t \in Tasks : bdump'[t].st # "fail"
                  /\ \A t \in Tasks : bdump'[t].st = "ok" => \A s \in bdump'[t].held : Stored(s)
                  /\ \A t \in Sent' : bdump'[t].st # "none"

LEMMA NodesMark ==
  ASSUME Structure, NodesRight, NEW H, NEW G, Marks(H, G), sc' = sc,
         data' = data, disk' = disk, dev' = dev, bload' = bload, h2d' = h2d, d2h' = d2h
  PROVE  NodesRight'
<1>1. /\ Pending' = Pending /\ Copied' = Copied /\ Held' = Less(Held, H) /\ SentShards' = SentShards \cup G
      /\ H \in SUBSET Held /\ G \in SUBSET H
      /\ \A n \in Nodes : tab'[n].key = tab[n].key
  BY DEF Marks
<1>2. (\A u : KeyOf(u)' = KeyOf(u)) /\ Faultless' = Faultless
  BY SameKeys
<1>3. \A u \in Pinned : u.node \in Nodes
  BY PinnedShards
<1>4. /\ \A n \in Nodes : tab[n].st # "LOADING" => tab'[n].st = tab[n].st
      /\ \A n \in Nodes : tab'[n].st = "LOADING" => tab[n].st = "LOADING"
      /\ \A n \in Nodes : tab'[n].st = "FAILED" => tab[n].st = "FAILED"
      /\ \A n \in Nodes : tab'[n].st # tab[n].st =>
           tab[n].st = "LOADING" /\ tab'[n].st = "READY" /\ \E s \in H : s.node = n
  BY DEF Marks
<1>5. \A s \in H : s \in Pinned /\ s.node \in Nodes /\ tab'[s.node].st = "READY"
  <2> SUFFICES ASSUME NEW s \in H  PROVE s \in Pinned /\ s.node \in Nodes /\ tab'[s.node].st = "READY"
    OBVIOUS
  <2>1. s \in Pinned /\ s.node \in Nodes /\ s \in Held
    BY <1>1, <1>3 DEF Pinned
  <2>2. tab[s.node].st \in {"READY", "LOADING"}
    BY <2>1 DEF NodesRight, Filled
  <2> QED BY <2>1, <2>2 DEF Marks
<1>6. ASSUME NEW u \in Pending \cup Held, u \notin H, Writer(u)
      PROVE  tab'[u.node].st = tab[u.node].st
  <2>1. u.node \in Nodes
    BY <1>3 DEF Pinned
  <2>2. ASSUME tab'[u.node].st # tab[u.node].st  PROVE FALSE
    <3>1. PICK s \in H : s.node = u.node /\ tab[s.node].st = "LOADING"
      BY <1>4, <2>1, <2>2
    <3>2. s \in Held /\ Writer(s)
      BY <1>1, <3>1 DEF Writer
    <3> QED BY <1>6, <3>1, <3>2 DEF NodesRight, Alone
  <2> QED BY <2>2
<1>7. ContentType'
  BY DEF NodesRight, ContentType
<1>8. Right'
  <2>1. ASSUME NEW n \in Nodes, tab'[n].st = "READY"  PROVE data[n] = tab[n].key
    <3>1. CASE tab[n].st = "READY"
      BY <3>1 DEF NodesRight, Right, CacheCoherent
    <3>2. CASE tab[n].st # "READY"
      <4>1. PICK s \in H : s.node = n /\ tab[n].st = "LOADING"
        BY <1>4, <2>1, <3>2
      <4>2. s \notin d2h /\ s \in Held
        BY <1>1 DEF Marks
      <4>3. data[n] = KeyOf(s) /\ tab[n].key = KeyOf(s)
        BY <1>5, <4>1, <4>2 DEF NodesRight, Filled, Bound
      <4> QED BY <4>3
    <3> QED BY <3>1, <3>2
  <2> QED BY <1>1, <2>1 DEF NodesRight, Right, CacheCoherent
<1>9. Bound'
  <2>1. Pinned' \in SUBSET Pinned
    BY <1>1 DEF Pinned, Less
  <2> QED BY <1>1, <1>2, <1>3, <2>1 DEF NodesRight, Bound
<1>10. Alone'
  <2>1. \A s \in Pending : s \notin H
    BY <1>1, LoadsAreNoDumps
  <2>2. ASSUME NEW u \in Pending, u.own  PROVE tab'[u.node].st = "LOADING"
    BY <1>6, <2>1, <2>2 DEF NodesRight, Alone, Writer
  <2>3. \A u \in Pending \cup Held : Writer(u)' => Writer(u)
    BY <1>1, <1>3, <1>4 DEF Writer, Pinned, Less
  <2> QED BY <1>1, <2>2, <2>3 DEF NodesRight, Alone, Less
<1>11. Filled'
  <2>1. \A u \in Copied \cup SentShards \cup G : tab'[u.node].st = "READY"
    BY <1>1, <1>3, <1>4, <1>5 DEF NodesRight, Filled, Pinned
  <2>2. ASSUME NEW u \in Held'
        PROVE  \/ tab'[u.node].st = "READY"
               \/ tab'[u.node].st = "LOADING" /\ (u \in d2h \/ data[u.node] = KeyOf(u))
    <3>1. u \in Held /\ u \notin H /\ u.node \in Nodes
      BY <1>1, <1>3 DEF Less, Pinned
    <3>2. CASE tab[u.node].st = "LOADING"
      BY <1>6, <3>1, <3>2 DEF NodesRight, Filled, Writer
    <3> QED BY <1>4, <3>1, <3>2 DEF NodesRight, Filled
  <2>3. ASSUME NEW u \in d2h  PROVE u \in Held' /\ tab'[u.node].st = "LOADING"
    <3>1. u \in Held /\ u \notin H /\ tab[u.node].st = "LOADING"
      BY DEF Marks, NodesRight, Filled
    <3> QED BY <1>1, <1>6, <3>1 DEF Less, Writer
  <2> QED BY <1>1, <1>2, <2>1, <2>2, <2>3 DEF NodesRight, Filled
<1>12. Answered'
  BY <1>1, <1>2 DEF NodesRight, Answered, Stored, OnBackend
<1>13. Asked'
  BY <1>1 DEF NodesRight, Asked, Marks
<1>14. ASSUME Faultless  PROVE Sound'
  BY <1>1, <1>2, <1>4, <1>14 DEF NodesRight, Sound, Stored, Marks, OnBackend
<1>15. ASSUME Faultless  PROVE Kept'
  <2> SUFFICES ASSUME NEW n \in Nodes, tab'[n].st = "READY"
               PROVE  OnBackend(tab[n].key) \/ \E u \in Held' \cup SentShards' : u.node = n
    BY <1>1 DEF Kept, OnBackend
  <2>1. G = H /\ \A u \in Held \cup SentShards : u \in Held' \cup SentShards'
    BY <1>1, <1>15 DEF Marks, Less
  <2>2. CASE tab[n].st = "READY"
    BY <1>15, <2>1, <2>2 DEF NodesRight, Kept, OnBackend
  <2>3. CASE tab[n].st # "READY"
    BY <1>1, <1>4, <2>1, <2>3
  <2> QED BY <2>2, <2>3
<1> QED BY <1>2, <1>7, <1>8, <1>9, <1>10, <1>11, <1>12, <1>13, <1>14, <1>15 DEF NodesRight

----------------------------------------------------------------------------
(* The backend answers a load: s waits for it, its node gets v              *)

SamePlaces ==
  Pending' = Pending /\ Copied' = Copied /\ Held' = Held /\ Sent' = Sent /\ SentShards' = SentShards

LEMMA NodesLoaded ==
  ASSUME Structure, NodesRight, SamePlaces, sc' = sc, tab' = tab, disk' = disk, dev' = dev,
         bdump' = bdump, h2d' = h2d, d2h' = d2h,
         NEW x \in Shards, bload[x].st = "run", NEW v \in Keys \cup {None}, NEW e \in {"ok", "fail"},
         data' = [data EXCEPT ![bload[x].node] = v], bload' = [bload EXCEPT ![x].st = e],
         e = "ok" => v = disk[KeysOf[x[1]][x[2]]] /\ v # None,
         e = "fail" => ~Faultless
  PROVE  NodesRight'
<1>1. Pending' = Pending /\ Copied' = Copied /\ Held' = Held /\ Sent' = Sent /\ SentShards' = SentShards
      /\ Pinned' = Pinned
  BY DEF SamePlaces, Pinned
<1>2. (\A u : KeyOf(u)' = KeyOf(u)) /\ Faultless' = Faultless
  BY SameKeys
<1>3. PICK s \in Pending : s.own /\ Id(s) = x /\ s.node = bload[x].node
  BY DEF NodesRight, Asked
<1>4. s.node \in Nodes /\ Writer(s) /\ tab[s.node].st = "LOADING" /\ KeyOf(s) \in Keys /\ KeyOf(s) # None
  BY <1>3, PinnedShards DEF Pinned, Writer, NodesRight, Alone
<1>5. /\ \A n \in Nodes : data'[n] = IF n = s.node THEN v ELSE data[n]
      /\ data' \in [Nodes -> Keys \cup {None}]
  BY <1>3, <1>4 DEF NodesRight, ContentType
<1>6. /\ \A y \in Shards : bload'[y].node = bload[y].node /\ bload'[y].st = IF y = x THEN e ELSE bload[y].st
      /\ bload' \in [Shards -> [st : {"none", "run", "ok", "fail"}, node : Nodes \cup {None}]]
  <2>1. bload \in [Shards -> [st : {"none", "run", "ok", "fail"}, node : Nodes \cup {None}]]
    BY DEF NodesRight, ContentType
  <2> QED BY <2>1
<1>7. KeysOf[x[1]][x[2]] = KeyOf(s)
  BY <1>3 DEF Id, KeyOf
<1>8. e = "ok" => v = KeyOf(s) /\ Stored(s)
  BY <1>4, <1>7 DEF NodesRight, Right, Stored, OnBackend
<1>9. \A u \in Pending \cup Held : Writer(u) /\ u.node = s.node => u = s
  BY <1>3, <1>4 DEF NodesRight, Alone
<1>10. ContentType'
  BY <1>5, <1>6 DEF NodesRight, ContentType
<1>11. Right'
  BY <1>4, <1>5 DEF NodesRight, Right, CacheCoherent
<1>12. Bound'
  BY <1>1, <1>2 DEF NodesRight, Bound
<1>13. Alone'
  BY <1>1 DEF NodesRight, Alone, Writer
<1>14. Filled'
  <2>1. ASSUME NEW u \in Held, tab[u.node].st = "LOADING"
        PROVE  u.node \in Nodes /\ data'[u.node] = data[u.node]
    <3>1. u.node # s.node /\ u.node \in Nodes
      BY <1>3, <1>9, <2>1, LoadsAreNoDumps, PinnedShards DEF Writer, Pinned
    <3> QED BY <1>5, <3>1
  <2> QED BY <1>1, <1>2, <2>1 DEF NodesRight, Filled
<1>15. Answered'
  <2> SUFFICES ASSUME NEW u \in Pending, u.own
               PROVE  /\ bload'[Id(u)].st # "none" /\ bload'[Id(u)].node = u.node
                      /\ bload'[Id(u)].st = "ok" => data'[u.node] = KeyOf(u) /\ Stored(u)
    BY <1>1, <1>2 DEF Answered, Stored, OnBackend
  <2>1. u.node \in Nodes /\ Id(u) \in Shards /\ Writer(u)
    BY PinnedShards DEF Pinned, Writer
  <2>2. CASE u = s
    BY <1>3, <1>5, <1>6, <1>8, <2>1, <2>2 DEF NodesRight, Answered
  <2>3. CASE u # s
    <3>1. u.node # s.node /\ data'[u.node] = data[u.node]
      BY <1>5, <1>9, <2>1, <2>3
    <3>2. Id(u) # x
      BY <1>3, <3>1 DEF NodesRight, Answered
    <3> QED BY <1>6, <2>1, <3>1, <3>2 DEF NodesRight, Answered
  <2> QED BY <2>2, <2>3
<1>16. Asked'
  BY <1>1, <1>6 DEF NodesRight, Asked
<1>17. ASSUME Faultless  PROVE Sound'
  BY <1>1, <1>2, <1>6, <1>17 DEF NodesRight, Sound, Stored, OnBackend
<1>18. ASSUME Faultless  PROVE Kept'
  BY <1>1, <1>18 DEF NodesRight, Kept, OnBackend
<1> QED BY <1>2, <1>10, <1>11, <1>12, <1>13, <1>14, <1>15, <1>16, <1>17, <1>18 DEF NodesRight

(* A copy from the device lands in the node of s.                           *)
LEMMA NodesFilled ==
  ASSUME Structure, NodesRight, SamePlaces, sc' = sc, tab' = tab, disk' = disk, dev' = dev,
         bload' = bload, bdump' = bdump, h2d' = h2d, NEW s \in d2h, d2h' = But(d2h, s),
         data' = [data EXCEPT ![s.node] = KeyOf(s)]
  PROVE  NodesRight'
<1>1. Pending' = Pending /\ Copied' = Copied /\ Held' = Held /\ Sent' = Sent /\ SentShards' = SentShards
      /\ Pinned' = Pinned
  BY DEF SamePlaces, Pinned
<1>2. (\A u : KeyOf(u)' = KeyOf(u)) /\ Faultless' = Faultless
  BY SameKeys
<1>3. s \in Held /\ s.node \in Nodes /\ Writer(s) /\ tab[s.node].st = "LOADING" /\ KeyOf(s) \in Keys
  <2>1. s \in Held /\ tab[s.node].st = "LOADING"
    BY DEF NodesRight, Filled
  <2> QED BY <2>1, PinnedShards DEF Pinned, Writer
<1>4. /\ \A n \in Nodes : data'[n] = IF n = s.node THEN KeyOf(s) ELSE data[n]
      /\ data' \in [Nodes -> Keys \cup {None}]
  BY <1>3 DEF NodesRight, ContentType
<1>5. \A u \in Pending \cup Held : Writer(u) /\ u.node = s.node => u = s
  BY <1>3 DEF NodesRight, Alone
<1>6. ContentType'
  BY <1>4 DEF NodesRight, ContentType
<1>7. Right'
  BY <1>3, <1>4 DEF NodesRight, Right, CacheCoherent
<1>8. Bound'
  BY <1>1, <1>2 DEF NodesRight, Bound
<1>9. Alone'
  BY <1>1 DEF NodesRight, Alone, Writer
<1>10. Filled'
  <2>1. ASSUME NEW u \in Held, tab[u.node].st = "LOADING"
        PROVE  u \in d2h' \/ data'[u.node] = KeyOf(u)
    <3>1. u.node \in Nodes /\ Writer(u)
      BY <2>1, PinnedShards DEF Pinned, Writer
    <3>2. CASE u = s
      BY <1>3, <1>4, <3>2
    <3>3. CASE u # s
      BY <1>4, <1>5, <2>1, <3>1, <3>3 DEF NodesRight, Filled, But
    <3> QED BY <3>2, <3>3
  <2> QED BY <1>1, <1>2, <2>1 DEF NodesRight, Filled, But
<1>11. Answered'
  <2>1. ASSUME NEW u \in Pending, u.own  PROVE data'[u.node] = data[u.node]
    <3>1. u.node \in Nodes /\ Writer(u) /\ u # s
      BY <1>3, <2>1, PinnedShards, LoadsAreNoDumps DEF Pinned, Writer
    <3> QED BY <1>4, <1>5, <3>1
  <2> QED BY <1>1, <1>2, <2>1 DEF NodesRight, Answered, Stored, OnBackend
<1>12. Asked'
  BY <1>1 DEF NodesRight, Asked
<1>13. ASSUME Faultless  PROVE Sound'
  BY <1>1, <1>2, <1>13 DEF NodesRight, Sound, Stored, OnBackend
<1>14. ASSUME Faultless  PROVE Kept'
  BY <1>1, <1>14 DEF NodesRight, Kept, OnBackend
<1> QED BY <1>2, <1>6, <1>7, <1>8, <1>9, <1>10, <1>11, <1>12, <1>13, <1>14 DEF NodesRight

(* A backend dump ends: what it has stored is right.                        *)
LEMMA NodesDumped ==
  ASSUME Structure, NodesRight, SamePlaces, sc' = sc, tab' = tab, data' = data, dev' = dev,
         bload' = bload, h2d' = h2d, d2h' = d2h, disk' \in [Keys -> Keys \cup {None}],
         \A k \in Keys : disk'[k] = disk[k] \/ disk'[k] = k,
         NEW t \in Tasks, bdump[t].st = "run", NEW e \in {"ok", "fail"},
         \A u \in Tasks : bdump'[u].held = bdump[u].held /\ bdump'[u].st = IF u = t THEN e ELSE bdump[u].st,
         e = "ok" => \A s \in bdump[t].held : KeyOf(s) \in Keys /\ disk'[KeyOf(s)] = KeyOf(s),
         e = "fail" => ~Faultless
  PROVE  NodesRight'
<1>1. Pending' = Pending /\ Copied' = Copied /\ Held' = Held /\ Sent' = Sent /\ SentShards' = SentShards
      /\ Pinned' = Pinned
  BY DEF SamePlaces, Pinned
<1>2. (\A u : KeyOf(u)' = KeyOf(u)) /\ Faultless' = Faultless
  BY SameKeys
<1>3. \A k \in Keys : disk[k] = k => disk'[k] = k
  OBVIOUS
<1>4. ContentType'
  BY DEF NodesRight, ContentType
<1>5. Right'
  BY DEF NodesRight, Right, CacheCoherent
<1>6. Bound' /\ Alone' /\ Filled'
  BY <1>1, <1>2 DEF NodesRight, Bound, Alone, Filled, Writer
<1>7. Answered'
  <2>1. \A s \in Pending : KeyOf(s) \in Keys
    BY PinnedShards DEF Pinned
  <2> QED BY <1>1, <1>2, <1>3, <2>1 DEF NodesRight, Answered, Stored, OnBackend
<1>8. Asked'
  BY <1>1 DEF NodesRight, Asked
<1>9. ASSUME Faultless  PROVE Sound'
  <2>1. Sent \in SUBSET Tasks
    BY Located DEF Sent, Whereabouts, Places1, Tasks
  <2>2. ASSUME NEW u \in Tasks, bdump'[u].st = "ok", NEW s \in bdump'[u].held
        PROVE  KeyOf(s) \in Keys /\ disk'[KeyOf(s)] = KeyOf(s)
    <3>1. CASE u = t
      BY <2>2, <3>1
    <3>2. CASE u # t
      <4>1. OnBackend(KeyOf(s))
        BY <1>9, <2>2, <3>2 DEF NodesRight, Sound, Stored
      <4> QED BY <1>3, <4>1 DEF OnBackend
    <3> QED BY <3>1, <3>2
  <2>3. \A k \in OnDisk : disk'[k] = k
    BY <1>3, <1>9, StoreAssumption DEF NodesRight, Sound
  <2> QED BY <1>1, <1>2, <1>9, <2>1, <2>2, <2>3 DEF NodesRight, Sound, Stored, OnBackend
<1>10. ASSUME Faultless  PROVE Kept'
  BY <1>1, <1>3, <1>10 DEF NodesRight, Kept, OnBackend
<1> QED BY <1>2, <1>4, <1>5, <1>6, <1>7, <1>8, <1>9, <1>10 DEF NodesRight

----------------------------------------------------------------------------
(* Tasks                                                                    *)

LEMMA OnItsWayIsActive ==
  ASSUME Structure, NodesRight, NEW t \in Loads, NEW i, OnItsWay(t, i)
  PROVE  Active(t)
<1>1. ProcOf[t] \in Procs
  BY StoreAssumption DEF Tasks
<1>2. CASE t \in Rng(waiting["load"][ProcOf[t]])
  BY <1>1, <1>2 DEF Active, Lined
<1>3. CASE disp[ProcOf[t]].t = t
  BY <1>1, <1>3 DEF Active, InHand
<1>4. ASSUME NEW s \in Pending \cup h2d, Id(s) = <<t, i>>  PROVE Active(t)
  <2>1. s \in Pending \cup Copied
    BY DEF NodesRight, Filled
  <2>2. s.t = t
    BY <1>4 DEF Id
  <2> QED BY <2>1, <2>2 DEF Active
<1> QED BY <1>2, <1>3, <1>4 DEF OnItsWay

(* A load that was reported a success has arrived.                          *)
LEMMA OkArrived ==
  ASSUME Structure, Contents, NEW t \in Loads, NEW i \in 1 .. Len(KeysOf[t]),
         st[t] = "ok" \/ (st[t] = "run" /\ t \in done /\ t \notin failureSet)
  PROVE  Arrived(t, i)
<1>1. t \in done
  BY DEF Contents, TasksRight, Open, Tasks
<1>2. ~OnItsWay(t, i)
  BY <1>1, OnItsWayIsActive DEF Contents, TasksRight, Open
<1> QED BY <1>2 DEF Contents, TasksRight, Coming

(* No shard that is on its way is lost, unless its task fails.              *)
Reaches ==
  \A t \in Loads : \A i \in 1 .. Len(KeysOf[t]) :
    /\ Arrived(t, i) => Arrived(t, i)'
    /\ OnItsWay(t, i) => Arrived(t, i)' \/ OnItsWay(t, i)' \/ t \in failureSet'

(* The tasks in D end, those in F in error.                                 *)
LEMMA TasksMove ==
  ASSUME Structure, Contents, sc' = sc, st' = st, Reaches, NEW D, NEW F,
         done' = done \cup D, failureSet' = failureSet \cup F,
         \A t \in D \cup F : ~Active(t)' /\ (t \in Tasks => st[t] # "new"),
         \A t \in Tasks : Active(t)' => Active(t)
  PROVE  TasksRight'
<1>1. KeysOf' = KeysOf
  BY SameKeys
<1>2. Open'
  BY InPlaces DEF Contents, TasksRight, Open
<1>3. Coming'
  <2> SUFFICES ASSUME NEW t \in Loads, st[t] = "ok" \/ (st[t] = "run" /\ t \notin failureSet'),
                      NEW i \in 1 .. Len(KeysOf[t])
               PROVE  Arrived(t, i)' \/ OnItsWay(t, i)'
    BY <1>1 DEF Coming
  <2>1. CASE st[t] = "ok"
    BY <2>1, OkArrived DEF Reaches
  <2>2. CASE st[t] = "run" /\ t \notin failureSet'
    <3>1. Arrived(t, i) \/ OnItsWay(t, i)
      BY <2>2 DEF Contents, TasksRight, Coming
    <3> QED BY <2>2, <3>1 DEF Reaches
  <2> QED BY <2>1, <2>2
<1> QED BY <1>2, <1>3 DEF TasksRight

(* Nothing ends.                                                            *)
LEMMA TasksKeep ==
  ASSUME Structure, Contents, sc' = sc, st' = st, Reaches, done' = done, failureSet' = failureSet,
         \A t \in Tasks : Active(t)' => Active(t)
  PROVE  TasksRight'
<1>1. done' = done \cup {} /\ failureSet' = failureSet \cup {} /\ \A t \in {} \cup {} : ~Active(t)' /\ (t \in Tasks => st[t] # "new")
  OBVIOUS
<1> QED BY <1>1, TasksMove

(* Whose stages a load passes.                                              *)
LEMMA ReachesKeep ==
  ASSUME Structure, sc' = sc, dev' = dev, h2d \in SUBSET h2d',
         \A s \in Pending : s \in Pending' \cup h2d' \/ s.t \in failureSet',
         \A p \in Procs : \A t \in Rng(waiting["load"][p]) :
           t \in Rng(waiting'["load"][p]) \/ (disp'[p].t = t /\ disp'[p].i = 1) \/ t \in failureSet',
         \A p \in Procs : disp[p].t # None =>
           \A i \in 1 .. Len(KeysOf[disp[p].t]) : disp[p].i <= i =>
             \/ disp'[p].t = disp[p].t /\ disp'[p].i <= i
             \/ \E s \in Pending' : Id(s) = <<disp[p].t, i>>
             \/ disp[p].t \in failureSet'
  PROVE  Reaches
<1>1. KeysOf' = KeysOf
  BY SameKeys
<1> SUFFICES ASSUME NEW t \in Loads, NEW i \in 1 .. Len(KeysOf[t])
             PROVE  /\ Arrived(t, i) => Arrived(t, i)'
                    /\ OnItsWay(t, i) => OnItsWay(t, i)' \/ t \in failureSet'
  BY DEF Reaches
<1>2. Arrived(t, i) => Arrived(t, i)'
  BY <1>1 DEF Arrived
<1>3. ProcOf[t] \in Procs /\ t # None /\ i \in Nat /\ 1 <= i
  BY StoreAssumption, InPlaces DEF Tasks
<1> DEFINE p == ProcOf[t]
<1>a. /\ t \in Rng(waiting'["load"][p]) => OnItsWay(t, i)'
      /\ disp'[p].t = t /\ disp'[p].i <= i => OnItsWay(t, i)'
  BY DEF OnItsWay
<1>b. ASSUME NEW s \in Pending' \cup h2d', Id(s) = <<t, i>>  PROVE OnItsWay(t, i)'
  <2>1. Id(s)' = Id(s)
    BY DEF Id
  <2> QED BY <1>b, <2>1 DEF OnItsWay
<1> HIDE DEF p
<1>4. CASE t \in Rng(waiting["load"][p])
  <2>1. t \in Rng(waiting'["load"][p]) \/ (disp'[p].t = t /\ disp'[p].i = 1) \/ t \in failureSet'
    BY <1>3, <1>4 DEF p
  <2> QED BY <1>2, <1>3, <1>a, <2>1
<1>5. CASE disp[p].t = t /\ disp[p].i <= i
  <2>1. \/ disp'[p].t = t /\ disp'[p].i <= i
        \/ \E s \in Pending' : Id(s) = <<t, i>>
        \/ t \in failureSet'
    BY <1>3, <1>5 DEF p
  <2> QED BY <1>2, <1>a, <1>b, <2>1
<1>6. CASE \E s \in Pending \cup h2d : Id(s) = <<t, i>>
  <2>1. PICK s \in Pending \cup h2d : Id(s) = <<t, i>>
    BY <1>6
  <2>2. s \in Pending' \cup h2d' \/ s.t \in failureSet'
    OBVIOUS
  <2>3. s.t = t
    BY <2>1 DEF Id
  <2> QED BY <1>2, <1>b, <2>1, <2>2, <2>3
<1> QED BY <1>2, <1>4, <1>5, <1>6 DEF OnItsWay, p

----------------------------------------------------------------------------
(* Frames                                                                   *)

LEMMA NodesSame ==
  ASSUME Structure, NodesRight, SamePlaces, SameBut(tab', tab), sc' = sc, data' = data, disk' = disk,
         dev' = dev, bload' = bload, bdump' = bdump, h2d' = h2d, d2h' = d2h
  PROVE  NodesRight'
<1>1. Shrinks /\ h2d' \in SUBSET Copied' /\ dev' \in [Shards -> Keys \cup {None}]
  BY DEF SamePlaces, Shrinks, NodesRight, Filled, ContentType
<1> QED BY <1>1, NodesShrink

LEMMA StillPlaces ==
  ASSUME disp' = disp, running' = running, xfer' = xfer, holder' = holder,
         dump' = dump, dumping' = dumping, dumper' = dumper, \A t \in Tasks : bdump'[t].held = bdump[t].held,
         Structure
  PROVE  SamePlaces /\ \A t : InHand(t)' = InHand(t)
<1>1. Pending' = Pending /\ Copied' = Copied
  BY DEF Pending, PendingOf, Copied, CopiedOf
<1>2. Held' = Held /\ Sent' = Sent
  BY DEF Held, HeldOf, Sent, SentOf
<1>3. Sent \in SUBSET Tasks
  BY Located DEF Sent, Whereabouts, Places1, Tasks
<1>4. SentShards' = SentShards
  BY <1>2, <1>3 DEF SentShards
<1>5. \A t : InHand(t)' = InHand(t)
  BY DEF InHand
<1> QED BY <1>1, <1>2, <1>4, <1>5 DEF SamePlaces

(* One process moves load shards.                                           *)
LEMMA LoadUnions ==
  ASSUME Structure, NEW p \in Procs, NEW d, NEW r, NEW x, NEW h, LoadsMove(p, d, r, x, h)
  PROVE  /\ OutOf(d) \cup Rng(r) \cup WaitsIn(x) = PendingOf(p) => Pending' = Pending
         /\ \A s : OutOf(d) \cup Rng(r) \cup WaitsIn(x) = With(PendingOf(p), s) => Pending' = With(Pending, s)
         /\ \A s \in PendingOf(p) :
              OutOf(d) \cup Rng(r) \cup WaitsIn(x) = But(PendingOf(p), s) => Pending' = But(Pending, s)
         /\ h \cup SyncsIn(x) = CopiedOf(p) => Copied' = Copied
         /\ \A s : h \cup SyncsIn(x) = With(CopiedOf(p), s) => Copied' = With(Copied, s)
         /\ h \cup SyncsIn(x) = {} => Copied' = Less(Copied, CopiedOf(p))
         /\ Held' = Held /\ Sent' = Sent /\ SentShards' = SentShards
         /\ \A t : InHand(t)' => InHand(t) \/ t = d.t
<1> DEFINE A == OutOf(d) \cup Rng(r) \cup WaitsIn(x)
           B == h \cup SyncsIn(x)
<1>1. /\ \A q \in Procs : q # p => PendingOf(q)' = PendingOf(q) /\ CopiedOf(q)' = CopiedOf(q)
      /\ \A q \in Procs : q # p => disp'[q] = disp[q]
      /\ PendingOf(p)' = A /\ CopiedOf(p)' = B /\ disp'[p] = d
      /\ Held' = Held /\ Sent' = Sent /\ SentShards' = SentShards
  BY LoadPlaces, InPlaces
<1>2. \A q \in Procs : \A s \in PendingOf(q) \cup CopiedOf(q) : ProcOf[s.t] = q
  BY Located DEF Whereabouts, Places1, ShardOf
<1> HIDE DEF A, B
<1>3. Pending = UNION {PendingOf(q) : q \in Procs} /\ Copied = UNION {CopiedOf(q) : q \in Procs}
  BY DEF Pending, Copied
<1>4. /\ \A y : y \in Pending' <=> y \in A \/ \E q \in Procs : q # p /\ y \in PendingOf(q)
      /\ \A y : y \in Copied' <=> y \in B \/ \E q \in Procs : q # p /\ y \in CopiedOf(q)
  BY <1>1 DEF Pending, Copied
<1>5. A = PendingOf(p) => Pending' = Pending
  BY <1>3, <1>4
<1>6. ASSUME NEW s, A = With(PendingOf(p), s)  PROVE Pending' = With(Pending, s)
  BY <1>3, <1>4, <1>6 DEF With
<1>7. ASSUME NEW s \in PendingOf(p), A = But(PendingOf(p), s)  PROVE Pending' = But(Pending, s)
  <2>1. \A q \in Procs : q # p => s \notin PendingOf(q)
    BY <1>2
  <2> QED BY <1>3, <1>4, <1>7, <2>1 DEF But
<1>8. B = CopiedOf(p) => Copied' = Copied
  BY <1>3, <1>4
<1>9. ASSUME NEW s, B = With(CopiedOf(p), s)  PROVE Copied' = With(Copied, s)
  BY <1>3, <1>4, <1>9 DEF With
<1>10. B = {} => Copied' = Less(Copied, CopiedOf(p))
  <2>1. \A q \in Procs : \A y : q # p /\ y \in CopiedOf(q) => y \notin CopiedOf(p)
    BY <1>2
  <2> QED BY <1>3, <1>4, <2>1 DEF Less
<1>11. \A t : InHand(t)' => InHand(t) \/ t = d.t
  <2>1. dump' = dump
    BY DEF LoadsMove
  <2> QED BY <1>1, <2>1 DEF InHand
<1> QED BY <1>1, <1>5, <1>6, <1>7, <1>8, <1>9, <1>10, <1>11 DEF A, B

LEMMA ActiveKeep ==
  ASSUME Lined' \in SUBSET Lined, \A t : InHand(t)' => Active(t), \A s \in Pending' \cup Copied' : Active(s.t)
  PROVE  \A t : Active(t)' => Active(t)
BY DEF Active

(* A task in one stage of a process is in no other.                         *)
LEMMA Elsewhere ==
  ASSUME Structure, NEW p \in Procs, NEW t \in Touched(p)
  PROVE  t \notin Lined /\ t \in Tasks /\ ProcOf[t] = p
<1>1. t \in Tasks /\ ProcOf[t] = p
  BY TouchedTasks, InPlaces
<1>2. \A q \in {"load", "dump"}, o \in Procs : Line(KeysOf, q, o, waiting[q][o], st, Touched(o))
  BY DEF Structure, Places, Waits
<1>3. \A o \in Procs : t \notin Rng(waiting["load"][o]) /\ t \notin Rng(waiting["dump"][o])
  BY <1>1, <1>2 DEF Line
<1> QED BY <1>1, <1>3 DEF Lined

----------------------------------------------------------------------------
(* The caller                                                               *)

LEMMA SubmitRight ==
  ASSUME Structure, Contents, NEW t \in Tasks, Submit(t), sc' = sc
  PROVE  Contents'
<1> DEFINE q == QueueOf(t)
           p == ProcOf[t]
<1>1. /\ st[t] = "new" /\ st' = Step(st, t, "run") /\ tab' = tab /\ data' = data /\ disk' = disk
      /\ disp' = disp /\ running' = running /\ xfer' = xfer /\ holder' = holder /\ h2d' = h2d /\ dev' = dev
      /\ dump' = dump /\ d2h' = d2h /\ dumping' = dumping /\ dumper' = dumper
      /\ bload' = bload /\ bdump' = bdump
  BY DEF Submit, buffer, loadVars, dumpVars, backend
<1>2. q \in {"load", "dump"} /\ p \in Procs /\ st \in [Tasks -> TaskStates]
      /\ waiting \in [{"load", "dump"} -> [Procs -> Seq(Tasks)]]
  BY StoreAssumption, InPlaces DEF QueueOf, ApiType
<1>3. SamePlaces /\ \A u : InHand(u)' = InHand(u)
  BY <1>1, StillPlaces
<1>4. NodesRight'
  <2>1. SameBut(tab', tab)
    BY <1>1, InPlaces DEF SameBut
  <2> QED BY <1>1, <1>3, <2>1, NodesSame DEF Contents
<1>5. t \notin done /\ t \notin failureSet
  BY <1>1 DEF Contents, TasksRight, Open
<1>6. \A u \in Tasks : st'[u] = IF u = t THEN "run" ELSE st[u]
  BY <1>1, <1>2 DEF Step
<1>7. KeysOf' = KeysOf /\ Pending' = Pending /\ Copied' = Copied
  BY <1>3, SameKeys DEF SamePlaces
<1>8. CASE Len(waiting[q][p]) < WaitingDepth
  <2>1. waiting' = [waiting EXCEPT ![q][p] = Append(@, t)] /\ failureSet' = failureSet /\ done' = done
    BY <1>8 DEF Submit
  <2>2. /\ \A o \in Procs, y \in {"load", "dump"} : o # p \/ y # q => waiting'[y][o] = waiting[y][o]
        /\ waiting'[q][p] = Append(waiting[q][p], t)
    BY <1>2, <2>1
  <2>3. Rng(waiting'[q][p]) = Rng(waiting[q][p]) \cup {t}
    <3>1. waiting[q][p] \in Seq(Tasks)
      BY <1>2
    <3> QED BY <2>2, <3>1, RngAppend
  <2>4. \A o \in Procs, y \in {"load", "dump"} : \A u : u \in Rng(waiting'[y][o]) => u = t \/ u \in Rng(waiting[y][o])
    BY <2>2, <2>3
  <2>5. \A o \in Procs, y \in {"load", "dump"} : \A u : u \in Rng(waiting[y][o]) => u \in Rng(waiting'[y][o])
    BY <2>2, <2>3
  <2>6. \A u : u \in Lined' => u = t \/ u \in Lined
    BY <2>4 DEF Lined
  <2>7. \A u : Active(u)' => Active(u) \/ u = t
    BY <1>3, <1>7, <2>6 DEF Active
  <2>8. Open'
    BY <1>5, <1>6, <2>1, <2>7 DEF Contents, TasksRight, Open
  <2>9. Coming'
    <3> SUFFICES ASSUME NEW u \in Loads, st'[u] = "ok" \/ (st'[u] = "run" /\ u \notin failureSet),
                        NEW i \in 1 .. Len(KeysOf[u])
                 PROVE  Arrived(u, i)' \/ OnItsWay(u, i)'
      BY <1>7, <2>1 DEF Coming
    <3>1. ProcOf[u] \in Procs /\ u \in Tasks
      BY StoreAssumption DEF Tasks
    <3>2. CASE u = t
      <4>1. q = "load"
        BY <3>2 DEF QueueOf
      <4> QED BY <2>3, <3>2, <4>1 DEF OnItsWay
    <3>3. CASE u # t
      <4>1. Arrived(u, i) \/ OnItsWay(u, i)
        BY <1>6, <3>1, <3>3 DEF Contents, TasksRight, Coming
      <4>2. Arrived(u, i) => Arrived(u, i)'
        BY <1>1, <1>7 DEF Arrived
      <4>3. OnItsWay(u, i) => OnItsWay(u, i)'
        BY <1>1, <1>7, <2>5, <3>1 DEF OnItsWay, Id
      <4> QED BY <4>1, <4>2, <4>3
    <3> QED BY <3>2, <3>3
  <2> QED BY <1>4, <2>8, <2>9 DEF Contents, TasksRight
<1>9. CASE ~(Len(waiting[q][p]) < WaitingDepth)
  <2>1. waiting' = waiting /\ failureSet' = failureSet \cup {t} /\ done' = done \cup {t}
    BY <1>9 DEF Submit, Fails, Done
  <2>2. Lined' = Lined
    BY <2>1 DEF Lined
  <2>3. \A u : Active(u)' = Active(u)
    BY <1>3, <1>7, <2>2 DEF Active
  <2>4. ~Active(t)
    <3>1. t \notin Lined
      BY <1>1 DEF Lined, Structure, Places, Waits, Line
    <3>2. \A o \in Procs : t \notin Touched(o)
      BY <1>1 DEF Structure, Places, Started
    <3>3. ~InHand(t)
      BY <3>2, NoneIsNothing DEF InHand, Touched, Tasks
    <3>4. \A s \in Pending \cup Copied : s.t # t
      <4>1. \A o \in Procs : \A s \in PendingOf(o) \cup CopiedOf(o) : s.t \in Touched(o)
        BY Parts DEF Touched
      <4> QED BY <3>2, <4>1 DEF Pending, Copied
    <3> QED BY <3>1, <3>3, <3>4 DEF Active
  <2>5. Open'
    BY <1>6, <2>1, <2>3, <2>4 DEF Contents, TasksRight, Open
  <2>6. Coming'
    <3> SUFFICES ASSUME NEW u \in Loads, st'[u] = "ok" \/ (st'[u] = "run" /\ u \notin failureSet'),
                        NEW i \in 1 .. Len(KeysOf[u])
                 PROVE  Arrived(u, i)' \/ OnItsWay(u, i)'
      BY <1>7 DEF Coming
    <3>1. u # t /\ u \in Tasks
      BY <1>6, <2>1 DEF Tasks
    <3>2. Arrived(u, i) \/ OnItsWay(u, i)
      BY <1>6, <2>1, <3>1 DEF Contents, TasksRight, Coming
    <3>3. Arrived(u, i) => Arrived(u, i)'
      BY <1>1, <1>7 DEF Arrived
    <3>4. OnItsWay(u, i) => OnItsWay(u, i)'
      BY <1>1, <1>7, <2>1 DEF OnItsWay, Id
    <3> QED BY <3>2, <3>3, <3>4
  <2> QED BY <1>4, <2>5, <2>6 DEF Contents, TasksRight
<1> QED BY <1>8, <1>9

LEMMA WaitReturnsRight ==
  ASSUME Structure, Contents, NEW t \in Tasks, WaitReturns(t), sc' = sc
  PROVE  Contents'
<1>1. /\ t \in done /\ tab' = tab /\ data' = data /\ disk' = disk
      /\ disp' = disp /\ running' = running /\ xfer' = xfer /\ holder' = holder /\ h2d' = h2d /\ dev' = dev
      /\ dump' = dump /\ d2h' = d2h /\ dumping' = dumping /\ dumper' = dumper
      /\ bload' = bload /\ bdump' = bdump /\ waiting' = waiting /\ done' = done
      /\ failureSet' = failureSet \ {t}
  BY DEF WaitReturns, buffer, loadVars, dumpVars, backend
<1>2. st[t] = "run" /\ st' = Step(st, t, IF t \in failureSet THEN "failed" ELSE "ok")
  BY DEF WaitReturns, Contents, TasksRight, Open
<1>3. SamePlaces /\ \A u : InHand(u)' = InHand(u)
  BY <1>1, StillPlaces
<1>4. NodesRight'
  <2>1. SameBut(tab', tab)
    BY <1>1, InPlaces DEF SameBut
  <2> QED BY <1>1, <1>3, <2>1, NodesSame DEF Contents
<1>5. KeysOf' = KeysOf /\ Pending' = Pending /\ Copied' = Copied /\ Lined' = Lined
  BY <1>1, <1>3, SameKeys DEF SamePlaces, Lined
<1>6. \A u : Active(u)' = Active(u)
  BY <1>3, <1>5 DEF Active
<1>7. \A u \in Tasks : st'[u] = IF u = t THEN IF t \in failureSet THEN "failed" ELSE "ok" ELSE st[u]
  BY <1>2, InPlaces DEF Step, ApiType
<1>8. Open'
  BY <1>1, <1>6, <1>7 DEF Contents, TasksRight, Open
<1>9. Coming'
  <2> SUFFICES ASSUME NEW u \in Loads, st'[u] = "ok" \/ (st'[u] = "run" /\ u \notin failureSet'),
                      NEW i \in 1 .. Len(KeysOf[u])
               PROVE  Arrived(u, i)' \/ OnItsWay(u, i)'
    BY <1>5 DEF Coming
  <2>1. Arrived(u, i) => Arrived(u, i)'
    BY <1>1, <1>5 DEF Arrived
  <2>2. CASE u = t
    <3>1. t \notin failureSet
      BY <1>7, <2>2
    <3> QED BY <1>1, <1>2, <2>1, <2>2, <3>1, OkArrived
  <2>3. CASE u # t
    <3>1. Arrived(u, i) \/ OnItsWay(u, i)
      BY <1>1, <1>7, <2>3 DEF Contents, TasksRight, Coming, Tasks
    <3>2. OnItsWay(u, i) => OnItsWay(u, i)'
      BY <1>1, <1>5 DEF OnItsWay, Id
    <3> QED BY <2>1, <3>1, <3>2
  <2> QED BY <2>2, <2>3
<1> QED BY <1>4, <1>8, <1>9 DEF Contents, TasksRight

(* A queue of waiting tasks loses its head.                                 *)
LEMMA LineTake ==
  ASSUME Structure, NEW q \in {"load", "dump"}, NEW p \in Procs, waiting[q][p] # <<>>,
         waiting' = [waiting EXCEPT ![q][p] = Tail(@)]
  PROVE  LET t == Head(waiting[q][p])
         IN  /\ t \in Rng(waiting[q][p]) /\ t \in Lined /\ t \in Tasks /\ t \notin Touched(p) /\ ProcOf[t] = p
             /\ QueueOf(t) = q /\ st[t] # "new" /\ Lined' \in SUBSET Lined
             /\ \A o \in Procs, y \in {"load", "dump"} : \A u \in Rng(waiting[y][o]) :
                  u \in Rng(waiting'[y][o]) \/ (o = p /\ y = q /\ u = t)
<1> DEFINE t == Head(waiting[q][p])
<1>1. Line(KeysOf, q, p, waiting[q][p], st, Touched(p)) /\ waiting \in [{"load", "dump"} -> [Procs -> Seq(Tasks)]]
  BY DEF Structure, Places, Waits, ApiType
<1>2. waiting[q][p] \in Seq(Tasks)
  BY <1>1
<1>3. Rng(waiting[q][p]) = {t} \cup Rng(Tail(waiting[q][p]))
  BY <1>2, RngTail
<1>4. /\ t \in Rng(waiting[q][p]) /\ t \in Tasks /\ t \notin Touched(p) /\ ProcOf[t] = p
      /\ QueueOf(t) = q /\ st[t] # "new"
  BY <1>1, <1>3 DEF Line
<1>5. /\ \A o \in Procs, y \in {"load", "dump"} : o # p \/ y # q => waiting'[y][o] = waiting[y][o]
      /\ waiting'[q][p] = Tail(waiting[q][p])
  BY <1>1
<1>6. \A o \in Procs, y \in {"load", "dump"} : \A u \in Rng(waiting[y][o]) :
        u \in Rng(waiting'[y][o]) \/ (o = p /\ y = q /\ u = t)
  BY <1>3, <1>5
<1>7. \A o \in Procs, y \in {"load", "dump"} : \A u : u \in Rng(waiting'[y][o]) => u \in Rng(waiting[y][o])
  BY <1>3, <1>5
<1>8. Lined' \in SUBSET Lined
  <2>1. \A o \in Procs : \A u : /\ u \in Rng(waiting'["load"][o]) => u \in Rng(waiting["load"][o])
                                /\ u \in Rng(waiting'["dump"][o]) => u \in Rng(waiting["dump"][o])
    BY <1>7
  <2>2. ASSUME NEW u \in Lined'  PROVE u \in Lined
    <3>1. PICK o \in Procs : u \in Rng(waiting'["load"][o]) \cup Rng(waiting'["dump"][o])
      BY DEF Lined
    <3> QED BY <2>1, <3>1 DEF Lined
  <2> QED BY <2>2
<1>9. t \in Lined
  BY <1>4 DEF Lined
<1> QED BY <1>4, <1>6, <1>8, <1>9

(* What a step must say of a load that waits or is being dispatched.        *)
LEMMA LineKeep ==
  ASSUME waiting' = waiting
  PROVE  /\ Lined' = Lined
         /\ \A p \in Procs : \A t \in Rng(waiting["load"][p]) : t \in Rng(waiting'["load"][p])
BY DEF Lined

----------------------------------------------------------------------------
(* The load dispatcher                                                      *)

LEMMA DispatchTakeRight ==
  ASSUME Structure, Contents, NEW p \in Procs, DispatchTake(p), sc' = sc
  PROVE  Contents'
<1> DEFINE t == Head(waiting["load"][p])
           d == [IdleDisp EXCEPT !.t = t]
<1>1. /\ disp[p] = IdleDisp /\ waiting["load"][p] # <<>> /\ st' = st /\ tab' = tab /\ data' = data
      /\ waiting' = [waiting EXCEPT !["load"][p] = Tail(@)] /\ failureSet' = failureSet
      /\ running' = running /\ xfer' = xfer /\ holder' = holder /\ h2d' = h2d /\ dev' = dev /\ d2h' = d2h
      /\ dump' = dump /\ dumping' = dumping /\ dumper' = dumper /\ disk' = disk /\ bload' = bload /\ bdump' = bdump
  BY DEF DispatchTake, buffer, dumpVars, backend
<1>2. /\ t \in Lined /\ Lined' \in SUBSET Lined /\ t # None
      /\ \A o \in Procs, y \in {"load", "dump"} : \A u \in Rng(waiting[y][o]) :
           u \in Rng(waiting'[y][o]) \/ (o = p /\ y = "load" /\ u = t)
  <2>1. "load" \in {"load", "dump"} /\ waiting' = [waiting EXCEPT !["load"][p] = Tail(@)] /\ waiting["load"][p] # <<>>
    BY <1>1
  <2>2. t \in Tasks
    BY <2>1, LineTake
  <2>3. t # None
    BY <2>2, NoneIsNothing
  <2> QED BY <2>1, <2>3, LineTake
<1>3. Active(t)
  BY <1>2 DEF Active
<1>4. disp' = Step(disp, p, d) /\ done' = done
  BY <1>3 DEF DispatchTake, Contents, TasksRight, Open
<1>5. d.t = t /\ d.i = 1 /\ d.out = None
  BY DEF IdleDisp
<1> HIDE DEF d
<1>6. LoadsMove(p, d, running[p], xfer[p], holder[p])
  BY <1>1, <1>4, Stays, InPlaces DEF LoadsMove
<1>7. /\ OutOf(d) \cup Rng(running[p]) \cup WaitsIn(xfer[p]) = PendingOf(p)
      /\ holder[p] \cup SyncsIn(xfer[p]) = CopiedOf(p)
  BY <1>1, <1>5 DEF PendingOf, CopiedOf, OutOf, IdleDisp
<1>8. Pending' = Pending /\ Copied' = Copied /\ Held' = Held /\ Sent' = Sent /\ SentShards' = SentShards
      /\ \A u : InHand(u)' => InHand(u) \/ u = d.t
  BY <1>6, <1>7, LoadUnions
<1>9. NodesRight'
  <2>1. SameBut(tab', tab)
    BY <1>1, InPlaces DEF SameBut
  <2> QED BY <1>1, <1>8, <2>1, NodesSame DEF Contents, SamePlaces
<1>10. \A u : Active(u)' => Active(u)
  BY <1>2, <1>3, <1>5, <1>8 DEF Active
<1>11. Reaches
  <2>1. disp'[p] = d /\ \A o \in Procs : o # p => disp'[o] = disp[o]
    BY <1>6, LoadPlaces, InPlaces
  <2>2. ASSUME NEW o \in Procs, disp[o].t # None  PROVE disp'[o] = disp[o]
    BY <1>1, <2>1, <2>2 DEF IdleDisp
  <2>3. \A s \in Pending : s \in Pending' \cup h2d'
    BY <1>8
  <2>4. \A o \in Procs : \A u \in Rng(waiting["load"][o]) :
           u \in Rng(waiting'["load"][o]) \/ (disp'[o].t = u /\ disp'[o].i = 1)
    BY <1>2, <1>5, <2>1
  <2> QED BY <1>1, <2>2, <2>3, <2>4, ReachesKeep
<1>12. TasksRight'
  BY <1>1, <1>4, <1>10, <1>11, TasksKeep
<1> QED BY <1>9, <1>12 DEF Contents

LEMMA DispatchGetRight ==
  ASSUME Structure, Contents, NEW p \in Procs, DispatchGet(p), sc' = sc
  PROVE  Contents'
<1> DEFINE d == disp[p]
           k == KeysOf[d.t][d.i]
<1>1. /\ d.t # None /\ d.out = None /\ running' = running /\ xfer' = xfer /\ holder' = holder
      /\ dump' = dump /\ dumping' = dumping /\ dumper' = dumper /\ bdump' = bdump /\ data' = data /\ disk' = disk
      /\ h2d' = h2d /\ dev' = dev /\ d2h' = d2h
      /\ waiting' = waiting /\ st' = st /\ failureSet' = failureSet /\ done' = done
  BY DEF DispatchGet, dumpVars, api
<1>2. PICK r \in Get(k, TRUE) :
         /\ tab' = r.tab /\ disp' = [disp EXCEPT ![p].out = ShardTask(d.t, d.i, r.node, NeedsLoad(r))]
         /\ bload' = IF NeedsLoad(r) THEN Step(bload, <<d.t, d.i>>, [st |-> "run", node |-> r.node]) ELSE bload
  BY DEF DispatchGet
<1>3. LoadShape(KeysOf, p, d, running[p], xfer[p], holder[p])
  BY InPlaces DEF Loading
<1>4. d.t \in Loads /\ d.t \in Tasks /\ ProcOf[d.t] = p /\ d.i \in 1 .. Len(KeysOf[d.t]) /\ d \in Disps
  BY <1>1, <1>3 DEF LoadShape, DispShape, Tasks
<1>5. k \in Keys /\ d.i \in 1 .. MaxShards
  BY <1>4, KeyInKeys
<1>6. Got(tab, k, Bypass /\ TRUE, r)
  BY <1>5, GetGives, InPlaces
<1> DEFINE s == ShardTask(d.t, d.i, r.node, NeedsLoad(r))
           e == [d EXCEPT !.out = s]
<1>7. /\ s \in ShardTasks /\ s.t = d.t /\ s.i = d.i /\ s.node = r.node /\ s.own = NeedsLoad(r) /\ s # None
      /\ Id(s) = <<d.t, d.i>> /\ Id(s) \in Shards /\ KeyOf(s) = k
  <2>1. s \in ShardTasks
    BY <1>4, <1>5, <1>6 DEF ShardTask, ShardTasks, Got, NeedsLoad
  <2>2. s.t = d.t /\ s.i = d.i /\ s.node = r.node /\ s.own = NeedsLoad(r)
    BY DEF ShardTask
  <2>3. s # None
    BY <2>1, NoneIsNothing
  <2> QED BY <1>4, <1>5, <2>1, <2>2, <2>3 DEF Id, Shards, KeyOf
<1>a. disp' = [disp EXCEPT ![p].out = s]
  BY <1>2
<1> HIDE DEF s
<1>8. disp' = Step(disp, p, e)
  BY <1>a DEF Step
<1>9. e.t = d.t /\ e.i = d.i /\ e.out = s
  BY <1>4 DEF Disps
<1> HIDE DEF e
<1>10. LoadsMove(p, e, running[p], xfer[p], holder[p])
  BY <1>1, <1>8, Stays, InPlaces DEF LoadsMove
<1>11. /\ OutOf(e) \cup Rng(running[p]) \cup WaitsIn(xfer[p]) = With(PendingOf(p), s)
       /\ holder[p] \cup SyncsIn(xfer[p]) = CopiedOf(p)
  BY <1>1, <1>7, <1>9 DEF PendingOf, CopiedOf, OutOf, With
<1>12. Pending' = With(Pending, s) /\ Copied' = Copied /\ Held' = Held /\ Sent' = Sent /\ SentShards' = SentShards
      /\ \A u : InHand(u)' => InHand(u) \/ u = e.t
  BY <1>10, <1>11, LoadUnions
<1>13. /\ Steady /\ tab'[r.node].key = k /\ r.node \in Nodes
       /\ r.own => Nobody(r.node) /\ tab'[r.node].st \in {"LOADING", "READY"}
       /\ \A n \in Nodes : tab'[n].st = "FAILED" => tab[n].st = "FAILED"
  BY <1>2, <1>6, GotSteady
<1>14. \A u \in Pending : Id(u) # Id(s)
  <2> SUFFICES ASSUME NEW u \in Pending, Id(u) = Id(s)  PROVE FALSE
    OBVIOUS
  <2>1. PICK o \in Procs : u \in PendingOf(o)
    BY DEF Pending
  <2>2. u.t = d.t /\ u.i = d.i
    BY <1>7 DEF Id
  <2>3. o = p
    BY <1>4, <2>1, <2>2, Located DEF Whereabouts, Places1, ShardOf
  <2>4. u \in Rng(running[p]) \cup holder[p] \cup InOf(xfer[p])
    BY <1>1, <2>1, <2>3 DEF PendingOf, OutOf, WaitsIn, InOf
  <2>5. u.i < d.i
    BY <1>3, <2>2, <2>4 DEF LoadShape, Ahead
  <2> QED BY <1>4, <2>2, <2>5
<1>15. NodesRight'
  <2> DEFINE W == {s}
             B == [st : {"none", "run", "ok", "fail"}, node : Nodes \cup {None}]
  <2>1. bload \in [Shards -> B]
    BY DEF Contents, NodesRight, ContentType
  <2>2. [st |-> "run", node |-> r.node] \in B
    BY <1>13
  <2>3. /\ bload' \in [Shards -> B]
        /\ \A x \in Shards : x # Id(s) \/ ~s.own => bload'[x] = bload[x]
        /\ s.own => bload'[Id(s)].st = "run" /\ bload'[Id(s)].node = s.node
    <3>1. CASE NeedsLoad(r)
      <4>1. PICK w : w = [st |-> "run", node |-> r.node]
        OBVIOUS
      <4>2. bload' = Step(bload, Id(s), w) /\ w.st = "run" /\ w.node = s.node
        BY <1>2, <1>7, <3>1, <4>1
      <4>3. w \in B /\ Id(s) \in Shards
        BY <1>7, <2>2, <4>1
      <4> HIDE DEF B
      <4>4. bload' \in [Shards -> B] /\ bload'[Id(s)] = w /\ \A x \in Shards : x # Id(s) => bload'[x] = bload[x]
        BY <2>1, <4>2, <4>3 DEF Step
      <4> QED BY <1>7, <3>1, <4>2, <4>4
    <3>2. CASE ~NeedsLoad(r)
      BY <1>2, <1>7, <2>1, <3>2
    <3> QED BY <3>1, <3>2
  <2>4. s.own => tab'[s.node].st = "LOADING" /\ Nobody(s.node)
    BY <1>2, <1>7, <1>13 DEF NeedsLoad
  <2>5. Pending' = Pending \cup W /\ Held' = Held \cup {}
    BY <1>12 DEF With
  <2>6. \A x \in Shards : \/ bload'[x] = bload[x]
                          \/ /\ bload'[x].st = "run" /\ \A u \in Pending : Id(u) # x
                             /\ \E y \in W : y.own /\ Id(y) = x /\ y.node = bload'[x].node
    BY <1>14, <2>3
  <2>7. Grows(W, {})
    BY <1>1, <1>7, <1>12, <1>13, <2>3, <2>4, <2>5, <2>6 DEF Grows
  <2> HIDE DEF W
  <2>8. Faultless => \A n \in Nodes : tab'[n].st # "FAILED"
    BY <1>13 DEF Contents, NodesRight, Sound
  <2> QED BY <1>1, <1>13, <2>7, <2>8, NodesGrow DEF Contents
<1>16. InHand(d.t) /\ Active(d.t)
  BY DEF InHand, Active
<1>17. \A u : Active(u)' => Active(u)
  <2>1. Lined' = Lined
    BY <1>1 DEF Lined
  <2>2. \A u \in Pending' \cup Copied' : Active(u.t)
    BY <1>7, <1>12, <1>16 DEF With, Active
  <2>3. \A u : InHand(u)' => Active(u)
    BY <1>9, <1>12, <1>16 DEF Active
  <2> QED BY <2>1, <2>2, <2>3, ActiveKeep
<1>18. Reaches
  <2>1. disp'[p] = e /\ \A o \in Procs : o # p => disp'[o] = disp[o]
    BY <1>10, LoadPlaces, InPlaces
  <2>2. \A o \in Procs : disp'[o].t = disp[o].t /\ disp'[o].i = disp[o].i
    BY <1>9, <2>1
  <2>3. \A u \in Pending : u \in Pending' \cup h2d'
    BY <1>12 DEF With
  <2> QED BY <1>1, <2>2, <2>3, ReachesKeep
<1>19. TasksRight'
  BY <1>1, <1>17, <1>18, TasksKeep
<1> QED BY <1>15, <1>19 DEF Contents

(* Which stage has a task.                                                  *)
Handy(t) == /\ t \in Loads \cup Dumps
            /\ t \in Loads => disp[ProcOf[t]].t = t
            /\ t \in Dumps => dump[ProcOf[t]].t = t
AllHandy == \A t \in Tasks : InHand(t) => Handy(t)
LEMMA HandyIs == Structure => AllHandy
<1> SUFFICES ASSUME Structure, NEW t \in Tasks, InHand(t)  PROVE Handy(t)
  BY DEF AllHandy
<1>1. PICK p \in Procs : disp[p].t = t \/ dump[p].t = t
  BY DEF InHand
<1>2. t # None
  BY NoneIsNothing
<1> QED BY <1>1, <1>2, Located, StoreAssumption DEF Handy, Whereabouts, Places1

LEMMA HandyNext == Structure' => AllHandy'
BY HandyIs, PTL

(* A fault that is tolerated comes with tasks of one shard.                 *)
LEMMA OneShard ==
  ASSUME Structure, Tolerated, ~Faultless
  PROVE  /\ "device" \notin Faults /\ "timeout" \notin Faults
         /\ \A t \in Tasks : \A i \in 1 .. Len(KeysOf[t]) : i = 1 /\ Len(KeysOf[t]) = 1
<1>1. Faults \subseteq {"backend", "submit"} /\ \A t \in Tasks : Len(KeysOf[t]) <= 1
  BY DEF Tolerated
<1>2. \A t \in Tasks : Len(KeysOf[t]) \in Nat
  BY InPlaces
<1>3. ASSUME NEW t \in Tasks, NEW i \in 1 .. Len(KeysOf[t])  PROVE i = 1 /\ Len(KeysOf[t]) = 1
  <2>1. PICK n \in Nat : n = Len(KeysOf[t])
    BY <1>2
  <2>2. n <= 1 /\ i \in 1 .. n
    BY <1>1, <2>1
  <2>3. i \in Int /\ 1 <= i /\ i <= n
    BY <2>2
  <2>4. i = 1 /\ n = 1
    BY <2>2, <2>3
  <2> QED BY <2>1, <2>4
<1> QED BY <1>1, <1>3

(* The load shards of a task of process p are with p.                       *)
LEMMA ShardsAt ==
  ASSUME Structure, NEW s \in Pending \cup Copied
  PROVE  /\ s.t \in Loads /\ s.t \in Tasks /\ s.i \in 1 .. Len(KeysOf[s.t])
         /\ s.last = (s.i = Len(KeysOf[s.t])) /\ s \in ShardTasks
         /\ s \in PendingOf(ProcOf[s.t]) \cup CopiedOf(ProcOf[s.t]) /\ s.t \in Touched(ProcOf[s.t])
         /\ ProcOf[s.t] \in Procs
<1>1. PICK o \in Procs : s \in PendingOf(o) \cup CopiedOf(o)
  BY DEF Pending, Copied
<1>2. ShardOf(KeysOf, o, Loads, s) /\ s \in LoadsOf(o)
  BY <1>1, Located, Parts DEF Whereabouts, Places1
<1> QED BY <1>1, <1>2 DEF ShardOf, Tasks, Touched

LEMMA DispatchRejectedRight ==
  ASSUME Structure, Contents, Tolerated, NEW p \in Procs, DispatchRejected(p), sc' = sc, Structure'
  PROVE  Contents'
<1> DEFINE d == disp[p]
           k == KeysOf[d.t][d.i]
<1>1. /\ d.t # None /\ d.out = None /\ running' = running /\ xfer' = xfer /\ holder' = holder
      /\ dump' = dump /\ dumping' = dumping /\ dumper' = dumper /\ bdump' = bdump /\ bload' = bload
      /\ data' = data /\ disk' = disk /\ h2d' = h2d /\ dev' = dev /\ d2h' = d2h
      /\ disp' = Step(disp, p, IdleDisp) /\ waiting' = waiting /\ st' = st
      /\ failureSet' = failureSet \cup {d.t} /\ done' = done \cup {d.t}
  BY DEF DispatchRejected, dumpVars, backend, Fails, Done
<1>2. PICK r \in Get(k, TRUE) : NeedsLoad(r) /\ tab' = Release(Mark(r.tab, r.node, "FAILED"), r.node)
  BY DEF DispatchRejected
<1>3. LoadShape(KeysOf, p, d, running[p], xfer[p], holder[p])
  BY InPlaces DEF Loading
<1>4. d.t \in Loads /\ d.t \in Tasks /\ ProcOf[d.t] = p /\ d.i \in 1 .. Len(KeysOf[d.t])
  BY <1>1, <1>3 DEF LoadShape, DispShape, Tasks
<1>a. PICK t \in Tasks : t = d.t
  BY <1>4
<1>5. k \in Keys
  BY <1>4, KeyInKeys
<1>6. Got(tab, k, Bypass /\ TRUE, r)
  BY <1>5, GetGives, InPlaces
<1>7. ~Faultless /\ d.i = 1
  <2>1. ~Faultless
    BY DEF DispatchRejected, Faultless
  <2> QED BY <1>4, <2>1, OneShard
<1>8. LoadsMove(p, IdleDisp, running[p], xfer[p], holder[p]) /\ IdleDisp.t = None
  <2>1. IdleDisp.t = None
    BY DEF IdleDisp
  <2> QED BY <1>1, <2>1, Stays, InPlaces DEF LoadsMove
<1>9. /\ OutOf(IdleDisp) \cup Rng(running[p]) \cup WaitsIn(xfer[p]) = PendingOf(p)
      /\ holder[p] \cup SyncsIn(xfer[p]) = CopiedOf(p)
  BY <1>1 DEF PendingOf, CopiedOf, OutOf, IdleDisp
<1>10. Pending' = Pending /\ Copied' = Copied /\ Held' = Held /\ Sent' = Sent /\ SentShards' = SentShards
       /\ \A u : InHand(u)' => InHand(u) \/ u = IdleDisp.t
  BY <1>8, <1>9, LoadUnions
<1>11. Steady
  <2>1. r.tab \in Tables /\ r.node \in Nodes /\ r.own = (tab[r.node].ref = 0) /\ r.own
    BY <1>2, <1>6 DEF Got, NeedsLoad
  <2> DEFINE M == Mark(r.tab, r.node, "FAILED")
  <2>2. M \in Tables /\ \A n \in Nodes : /\ M[n].key = r.tab[n].key
                                         /\ M[n].st = IF n = r.node /\ r.tab[n].st = "LOADING" THEN "FAILED" ELSE r.tab[n].st
    BY <2>1, MarkSets
  <2>3. tab' = Release(M, r.node)
    BY <1>2
  <2> HIDE DEF M
  <2>4. \A n \in Nodes : tab'[n].key = M[n].key /\ tab'[n].st = M[n].st
    BY <2>1, <2>2, <2>3, ReleaseOne DEF SameBut
  <2>5. \A s \in Pinned : s.node \in Nodes /\ s.node # r.node
    BY <2>1, PinnedShards, NobodyAt
  <2>6. r.tab[r.node].st # "READY"
    BY <1>2 DEF NeedsLoad
  <2>7. \A n \in Nodes : n # r.node => tab'[n].key = tab[n].key /\ tab'[n].st = tab[n].st
    BY <1>6, <2>2, <2>4 DEF Got
  <2>8. tab'[r.node].st # "READY"
    BY <2>1, <2>2, <2>4, <2>6
  <2> QED BY <2>5, <2>7, <2>8 DEF Steady
<1>12. NodesRight'
  <2>1. bload \in [Shards -> [st : {"none", "run", "ok", "fail"}, node : Nodes \cup {None}]]
    BY DEF Contents, NodesRight, ContentType
  <2>2. Grows({}, {})
    BY <1>1, <1>10, <2>1 DEF Grows
  <2> QED BY <1>1, <1>7, <1>11, <2>2, NodesGrow DEF Contents
<1>13. d.t \in Touched(p) /\ d.t \notin Lined /\ st[d.t] # "new"
  <2>1. d.t \in Touched(p)
    BY <1>1 DEF Touched
  <2> QED BY <2>1, Elsewhere DEF Structure, Places, Started
<1>14. Lined' = Lined
  BY <1>1 DEF Lined
<1>15. disp'[p] = IdleDisp /\ \A o \in Procs : o # p => disp'[o] = disp[o]
  BY <1>8, LoadPlaces, InPlaces
<1>16. ~Active(t)'
  <2>1. ~InHand(t)'
    <3>1. ASSUME InHand(t)'  PROVE disp'[p].t = t
      <4>1. Handy(t)'
        BY <3>1, HandyNext DEF AllHandy
      <4> QED BY <1>4, <1>a, <4>1 DEF Handy
    <3> QED BY <1>1, <1>8, <1>15, <1>a, <3>1
  <2>2. ASSUME NEW s \in Pending \cup Copied, s.t = t  PROVE FALSE
    <3>1. s \in PendingOf(p) \cup CopiedOf(p) /\ s.i \in 1 .. Len(KeysOf[d.t])
      BY <1>4, <1>a, <2>2, ShardsAt
    <3>2. s \in Rng(running[p]) \cup holder[p] \cup InOf(xfer[p])
      BY <1>1, <3>1 DEF PendingOf, CopiedOf, OutOf, WaitsIn, SyncsIn, InOf
    <3>3. s.i < d.i
      BY <1>3, <1>a, <2>2, <3>2 DEF LoadShape, Ahead
    <3> QED BY <1>7, <3>1, <3>3
  <2> QED BY <1>10, <1>13, <1>14, <1>a, <2>1, <2>2 DEF Active
<1>17. \A u \in Tasks : Active(u)' => Active(u)
  <2>1. ASSUME NEW u \in Tasks, InHand(u)'  PROVE InHand(u)
    <3>1. u # None
      BY NoneIsNothing
    <3> QED BY <1>8, <1>10, <2>1, <3>1
  <2> QED BY <1>10, <1>14, <2>1 DEF Active
<1>18. Reaches
  <2>1. \A o \in Procs : disp'[o] = disp[o] \/ disp[o].t \in failureSet'
    BY <1>1, <1>15
  <2>2. \A u \in Pending : u \in Pending' \cup h2d'
    BY <1>10
  <2> QED BY <1>1, <2>1, <2>2, ReachesKeep
<1>19. TasksRight'
  <2> DEFINE D == {t}
  <2>1. done' = done \cup D /\ failureSet' = failureSet \cup D
    BY <1>1, <1>a
  <2>2. \A u \in D \cup D : ~Active(u)' /\ (u \in Tasks => st[u] # "new")
    BY <1>13, <1>16, <1>a
  <2> HIDE DEF D
  <2> QED BY <1>1, <1>17, <1>18, <2>1, <2>2, TasksMove
<1> QED BY <1>12, <1>19 DEF Contents

LEMMA DispatchPushRight ==
  ASSUME Structure, Contents, NEW p \in Procs, DispatchPush(p), sc' = sc
  PROVE  Contents'
<1> DEFINE d == disp[p]
           r == Append(running[p], d.out)
           e == AfterPush(d)
<1>1. /\ d.out # None /\ running' = Step(running, p, r) /\ disp' = Step(disp, p, e)
      /\ xfer' = xfer /\ holder' = holder /\ data' = data /\ disk' = disk /\ bload' = bload
      /\ h2d' = h2d /\ dev' = dev /\ d2h' = d2h
      /\ dump' = dump /\ dumping' = dumping /\ dumper' = dumper /\ bdump' = bdump
      /\ waiting' = waiting /\ st' = st /\ failureSet' = failureSet /\ done' = done /\ tab' = tab
  BY DEF DispatchPush, AfterPush, dumpVars, backend, api, buffer
<1>2. LoadShape(KeysOf, p, d, running[p], xfer[p], holder[p])
  BY InPlaces DEF Loading
<1>3. /\ d \in Disps /\ d.t # None /\ d.out.t = d.t /\ d.out.i = d.i /\ d.out \in ShardTasks
      /\ d.t \in Loads /\ d.t \in Tasks /\ d.i \in 1 .. Len(KeysOf[d.t]) /\ running[p] \in Seq(ShardTasks)
      /\ d.out.last = (d.i = Len(KeysOf[d.t]))
  <2>1. /\ d \in Disps /\ d.t # None /\ d.out.t = d.t /\ d.out.i = d.i /\ running[p] \in Seq(ShardTasks)
        /\ d.t \in Loads /\ d.i \in 1 .. Len(KeysOf[d.t])
    BY <1>1, <1>2 DEF LoadShape, DispShape, IdleDisp
  <2>2. ShardOf(KeysOf, p, Loads, d.out)
    BY <1>1, <1>2 DEF LoadShape, LoadSet, OutOf
  <2> QED BY <2>1, <2>2 DEF ShardOf, Tasks
<1>4. /\ e.out = None /\ e.t \in {d.t, None}
      /\ d.out.last \/ (e.t = d.t /\ e.i = d.i + 1)
  BY <1>3, DispFields DEF AfterPush, IdleDisp
<1>5. Rng(r) = Rng(running[p]) \cup {d.out}
  BY <1>3, RngAppend
<1> HIDE DEF e, r
<1>6. LoadsMove(p, e, r, xfer[p], holder[p])
  BY <1>1, Stays, InPlaces DEF LoadsMove
<1>7. /\ OutOf(e) \cup Rng(r) \cup WaitsIn(xfer[p]) = PendingOf(p)
      /\ holder[p] \cup SyncsIn(xfer[p]) = CopiedOf(p)
  BY <1>1, <1>4, <1>5 DEF PendingOf, CopiedOf, OutOf
<1>8. Pending' = Pending /\ Copied' = Copied /\ Held' = Held /\ Sent' = Sent /\ SentShards' = SentShards
      /\ \A u : InHand(u)' => InHand(u) \/ u = e.t
  BY <1>6, <1>7, LoadUnions
<1>9. NodesRight'
  <2>1. SameBut(tab', tab)
    BY <1>1, InPlaces DEF SameBut
  <2> QED BY <1>1, <1>8, <2>1, NodesSame DEF Contents, SamePlaces
<1>10. \A u \in Tasks : Active(u)' => Active(u)
  <2>1. ASSUME NEW u \in Tasks, InHand(u)'  PROVE InHand(u)
    <3>1. u # None
      BY NoneIsNothing
    <3> QED BY <1>4, <1>8, <2>1, <3>1 DEF InHand
  <2> QED BY <1>1, <1>8, <2>1 DEF Active, Lined
<1>11. Reaches
  <2>1. disp'[p] = e /\ \A o \in Procs : o # p => disp'[o] = disp[o]
    BY <1>6, LoadPlaces, InPlaces
  <2>2. d.out \in Pending' /\ Id(d.out) = <<d.t, d.i>>
    <3>1. d.out \in PendingOf(p)
      BY <1>1 DEF PendingOf, OutOf
    <3>2. d.out \in Pending
      BY <3>1 DEF Pending
    <3> QED BY <1>3, <1>8, <3>2 DEF Id
  <2>3. ASSUME NEW o \in Procs, disp[o].t # None, NEW i \in 1 .. Len(KeysOf[disp[o].t]), disp[o].i <= i
        PROVE  \/ disp'[o].t = disp[o].t /\ disp'[o].i <= i
               \/ \E s \in Pending' : Id(s) = <<disp[o].t, i>>
    <3>1. CASE o # p
      BY <2>1, <2>3, <3>1
    <3>2. CASE o = p /\ i = d.i
      BY <2>2, <3>2
    <3>3. CASE o = p /\ i # d.i
      <4>1. d.i \in Nat /\ i \in Nat /\ Len(KeysOf[d.t]) \in Nat /\ i <= Len(KeysOf[d.t]) /\ d.i <= i
        BY <1>3, <2>3, <3>3, InPlaces
      <4>2. d.i + 1 <= i /\ d.i # Len(KeysOf[d.t])
        BY <3>3, <4>1
      <4> QED BY <1>3, <1>4, <2>1, <3>3, <4>2
    <3> QED BY <3>1, <3>2, <3>3
  <2>4. \A u \in Pending : u \in Pending' \cup h2d'
    BY <1>8
  <2> QED BY <1>1, <2>3, <2>4, ReachesKeep
<1>12. TasksRight'
  BY <1>1, <1>10, <1>11, TasksKeep
<1> QED BY <1>9, <1>12 DEF Contents

----------------------------------------------------------------------------
(* The transfer thread                                                      *)

(* It never touches the waiting tasks nor the dispatcher.                   *)
LEMMA TransferReaches ==
  ASSUME Structure, sc' = sc, dev' = dev, waiting' = waiting, disp' = disp, h2d \in SUBSET h2d',
         \A s \in Pending : s \in Pending' \cup h2d' \/ s.t \in failureSet'
  PROVE  Reaches
BY ReachesKeep

LEMMA TransferTakeRight ==
  ASSUME Structure, Contents, NEW p \in Procs, TransferTake(p), sc' = sc
  PROVE  Contents'
<1> DEFINE s == Head(running[p])
           x == [s |-> s, stage |-> "wait"]
<1>1. /\ xfer[p] = None /\ running[p] # <<>>
      /\ running' = Step(running, p, Tail(running[p])) /\ xfer' = Step(xfer, p, x)
      /\ disp' = disp /\ holder' = holder /\ data' = data /\ disk' = disk /\ bload' = bload
      /\ h2d' = h2d /\ dev' = dev /\ d2h' = d2h
      /\ dump' = dump /\ dumping' = dumping /\ dumper' = dumper /\ bdump' = bdump
      /\ waiting' = waiting /\ st' = st /\ failureSet' = failureSet /\ done' = done /\ tab' = tab
  BY DEF TransferTake, dumpVars, backend, api, buffer
<1>2. x # None /\ x.s = s /\ x.stage = "wait" /\ Rng(running[p]) = {s} \cup Rng(Tail(running[p]))
  <2>1. running[p] \in Seq(ShardTasks)
    BY InPlaces DEF LoadType
  <2>2. s \in ShardTasks /\ Rng(running[p]) = {s} \cup Rng(Tail(running[p]))
    BY <1>1, <2>1, RngTail
  <2>3. x \in Xfers
    BY <2>2 DEF Xfers
  <2>4. x # None
    BY <2>3, NoneIsNothing
  <2> QED BY <2>2, <2>4
<1> HIDE DEF x
<1>3. LoadsMove(p, disp[p], Tail(running[p]), x, holder[p])
  BY <1>1, Stays, InPlaces DEF LoadsMove
<1>4. /\ OutOf(disp[p]) \cup Rng(Tail(running[p])) \cup WaitsIn(x) = PendingOf(p)
      /\ holder[p] \cup SyncsIn(x) = CopiedOf(p)
  BY <1>1, <1>2 DEF PendingOf, CopiedOf, WaitsIn, SyncsIn
<1>5. Pending' = Pending /\ Copied' = Copied /\ Held' = Held /\ Sent' = Sent /\ SentShards' = SentShards
      /\ \A u : InHand(u)' => InHand(u) \/ u = disp[p].t
  BY <1>3, <1>4, LoadUnions
<1>6. NodesRight'
  <2>1. SameBut(tab', tab)
    BY <1>1, InPlaces DEF SameBut
  <2> QED BY <1>1, <1>5, <2>1, NodesSame DEF Contents, SamePlaces
<1>7. \A u \in Tasks : Active(u)' => Active(u)
  BY <1>1, <1>5 DEF Active, Lined, InHand
<1>8. Reaches
  BY <1>1, <1>5, TransferReaches
<1>9. TasksRight'
  BY <1>1, <1>7, <1>8, TasksKeep
<1> QED BY <1>6, <1>9 DEF Contents

(* Behind the shard the transfer thread works on are later shards only.     *)
LEMMA Behind ==
  ASSUME Structure, NEW p \in Procs, xfer[p] # None
  PROVE  LET s == xfer[p].s
         IN  /\ s \in ShardTasks /\ s.t \in Tasks /\ s.t \in Loads /\ ProcOf[s.t] = p /\ s.node \in Nodes
             /\ s.t \in Touched(p) /\ s.t \notin Lined /\ st[s.t] # "new"
             /\ s.i \in 1 .. Len(KeysOf[s.t]) /\ s.last = (s.i = Len(KeysOf[s.t]))
             /\ s \notin OutOf(disp[p]) \cup Rng(running[p])
             /\ s.last => disp[p].t # s.t /\ \A u \in OutOf(disp[p]) \cup Rng(running[p]) : u.t # s.t
             /\ \A u \in holder[p] : u.t = s.t => u.i < s.i
             /\ xfer[p].stage \in {"wait", "sync"}
<1> DEFINE s == xfer[p].s
           d == disp[p]
<1>1. /\ LoadShape(KeysOf, p, disp[p], running[p], xfer[p], holder[p])
      /\ s \in LoadsOf(p) /\ s \in ShardTasks /\ s.t \in Tasks /\ s.node \in Nodes
  BY AtTransfer
<1>2. s.t \in Loads /\ ProcOf[s.t] = p /\ s.i \in 1 .. Len(KeysOf[s.t]) /\ s.last = (s.i = Len(KeysOf[s.t]))
  BY <1>1 DEF LoadShape, LoadsOf, ShardOf
<1>3. s.t \in Touched(p)
  BY <1>1 DEF Touched
<1>4. s.t \notin Lined /\ st[s.t] # "new"
  BY <1>3, Elsewhere DEF Structure, Places, Started
<1>5. s \in InOf(xfer[p]) /\ xfer[p].stage \in {"wait", "sync"}
  BY <1>1 DEF InOf, LoadShape, Xfers
<1>6. s.i \in Nat /\ Len(KeysOf[s.t]) \in Nat /\ s.i <= Len(KeysOf[s.t])
  BY <1>1, <1>2, InPlaces
<1>7. d.t = s.t => s.i < d.i /\ d.t # None /\ d.i \in 1 .. Len(KeysOf[s.t])
  BY <1>1, <1>5, NoneIsNothing DEF LoadShape, DispShape, Ahead
<1>8. \A u \in Rng(running[p]) : u.t = s.t => s.i < u.i
  BY <1>1, <1>5 DEF LoadShape, Ahead
<1>9. \A u \in OutOf(d) : u.t = d.t /\ u.i = d.i
  BY <1>1 DEF LoadShape, DispShape, OutOf
<1>10. \A u \in holder[p] : u.t = s.t => u.i < s.i
  BY <1>1, <1>5 DEF LoadShape, Ahead
<1>11. s \notin OutOf(d) \cup Rng(running[p])
  BY <1>6, <1>7, <1>8, <1>9
<1>12. ASSUME s.last  PROVE d.t # s.t /\ \A u \in OutOf(d) \cup Rng(running[p]) : u.t # s.t
  <2>1. s.i = Len(KeysOf[s.t])
    BY <1>2, <1>12
  <2>2. d.t # s.t
    BY <1>6, <1>7, <2>1
  <2>3. ASSUME NEW u \in Rng(running[p]), u.t = s.t  PROVE FALSE
    <3>1. u.i \in 1 .. Len(KeysOf[s.t])
      BY <1>1, <2>3 DEF LoadShape, LoadSet, ShardOf
    <3> QED BY <1>6, <1>8, <2>1, <2>3, <3>1
  <2> QED BY <1>9, <2>2, <2>3
<1> QED BY <1>1, <1>2, <1>3, <1>4, <1>5, <1>10, <1>11, <1>12

(* It waits for the node of its shard.                                      *)
LEMMA AtWait ==
  ASSUME Structure, NEW p \in Procs, xfer[p] # None, xfer[p].stage = "wait"
  PROVE  LET s == xfer[p].s
         IN  /\ s \in PendingOf(p) /\ s \in Pending
             /\ OutOf(disp[p]) \cup Rng(running[p]) = But(PendingOf(p), s) /\ CopiedOf(p) = holder[p]
<1> DEFINE s == xfer[p].s
<1>1. s \notin OutOf(disp[p]) \cup Rng(running[p])
  BY Behind
<1>2. PendingOf(p) = OutOf(disp[p]) \cup Rng(running[p]) \cup {s} /\ CopiedOf(p) = holder[p]
  BY DEF PendingOf, CopiedOf, WaitsIn, SyncsIn
<1>3. s \in Pending
  BY <1>2 DEF Pending
<1> QED BY <1>1, <1>2, <1>3 DEF But

LEMMA TransferCopyRight ==
  ASSUME Structure, Contents, NEW p \in Procs, TransferCopy(p), sc' = sc
  PROVE  Contents'
<1> DEFINE s == xfer[p].s
<1>1. /\ xfer[p] # None /\ xfer[p].stage = "wait" /\ NodeReady(s) /\ tab' = Settle(tab, s, "READY")
      /\ h2d' = h2d \cup {s} /\ disp' = disp /\ running' = running /\ data' = data /\ disk' = disk
      /\ bload' = bload /\ dev' = dev /\ d2h' = d2h
      /\ dump' = dump /\ dumping' = dumping /\ dumper' = dumper /\ bdump' = bdump
      /\ waiting' = waiting /\ st' = st /\ failureSet' = failureSet /\ done' = done
  BY DEF TransferCopy, dumpVars, backend, api
<1>2. s.node \in Nodes /\ s.t \in Tasks
  BY <1>1, Behind
<1>3. /\ s \in PendingOf(p) /\ s \in Pending
      /\ OutOf(disp[p]) \cup Rng(running[p]) = But(PendingOf(p), s) /\ CopiedOf(p) = holder[p]
  BY <1>1, AtWait
<1>4. PICK x, h : /\ LoadsMove(p, disp[p], running[p], x, h)
                  /\ WaitsIn(x) = {} /\ h \cup SyncsIn(x) = With(CopiedOf(p), s)
  <2>1. CASE s.last
    <3> DEFINE y == [xfer[p] EXCEPT !.stage = "sync"]
    <3>1. xfer[p] \in Xfers
      BY <1>1, InPlaces DEF LoadType
    <3>2. y \in Xfers /\ y.s = s /\ y.stage = "sync"
      BY <3>1 DEF Xfers
    <3>3. y # None
      BY <3>2, NoneIsNothing
    <3>4. xfer' = Step(xfer, p, y) /\ holder' = holder
      BY <2>1 DEF TransferCopy, Step
    <3> HIDE DEF y
    <3>5. LoadsMove(p, disp[p], running[p], y, holder[p])
      BY <1>1, <3>4, Stays, InPlaces DEF LoadsMove
    <3>6. WaitsIn(y) = {} /\ holder[p] \cup SyncsIn(y) = With(CopiedOf(p), s)
      BY <1>3, <3>2, <3>3 DEF WaitsIn, SyncsIn, With
    <3> QED BY <3>5, <3>6
  <2>2. CASE ~s.last
    <3> DEFINE h == With(holder[p], s)
    <3>1. xfer' = Step(xfer, p, None) /\ holder' = Step(holder, p, h)
      BY <2>2 DEF TransferCopy, With
    <3>2. WaitsIn(None) = {} /\ h \cup SyncsIn(None) = With(CopiedOf(p), s)
      BY <1>3 DEF WaitsIn, SyncsIn
    <3> HIDE DEF h
    <3>3. LoadsMove(p, disp[p], running[p], None, h)
      BY <1>1, <3>1, Stays, InPlaces DEF LoadsMove
    <3> QED BY <3>2, <3>3
  <2> QED BY <2>1, <2>2
<1>5. OutOf(disp[p]) \cup Rng(running[p]) \cup WaitsIn(x) = But(PendingOf(p), s)
  BY <1>3, <1>4
<1>6. Pending' = But(Pending, s) /\ Copied' = With(Copied, s) /\ Held' = Held /\ Sent' = Sent
      /\ SentShards' = SentShards /\ \A u : InHand(u)' => InHand(u) \/ u = disp[p].t
  BY <1>3, <1>4, <1>5, LoadUnions
<1>7. NodesRight'
  <2> DEFINE C == {s}
  <2>1. \A n \in Nodes : /\ tab'[n].key = tab[n].key
                         /\ tab'[n].st = IF s.own /\ n = s.node /\ tab[n].st = "LOADING" THEN "READY" ELSE tab[n].st
    <3>1. tab \in Tables /\ tab' = Settle(tab, s, "READY") /\ s.node \in Nodes
      BY <1>1, <1>2, InPlaces
    <3> HIDE DEF s
    <3> QED BY <3>1, SettleSets
  <2>2. Copied' = Copied \cup C /\ h2d' = h2d \cup C
    BY <1>1, <1>6 DEF With
  <2>3. /\ s.own => bload[Id(s)].st = "ok"
        /\ ~s.own => tab[s.node].st = "READY"
    BY <1>1 DEF NodeReady
  <2>4. Settles(s, "READY", C)
    BY <1>6, <2>1, <2>2, <2>3 DEF Settles
  <2> HIDE DEF C, s
  <2> QED BY <1>1, <1>3, <2>4, NodesSettle DEF Contents
<1>8. \A u \in Tasks : Active(u)' => Active(u)
  BY <1>1, <1>3, <1>6 DEF Active, Lined, InHand, With, But
<1>9. Reaches
  <2>1. \A u \in Pending : u \in Pending' \cup h2d'
    BY <1>1, <1>6 DEF But
  <2> QED BY <1>1, <2>1, TransferReaches
<1>10. TasksRight'
  BY <1>1, <1>8, <1>9, TasksKeep
<1> QED BY <1>7, <1>10 DEF Contents

LEMMA TransferBackendFailedRight ==
  ASSUME Structure, Contents, Tolerated, NEW p \in Procs, TransferBackendFailed(p), sc' = sc, Structure'
  PROVE  Contents'
<1>a. PICK s : s = xfer[p].s
  OBVIOUS
<1>1. /\ xfer[p] # None /\ xfer[p].stage = "wait" /\ NodeFailed(s)
      /\ tab' = Release(Settle(tab, s, "FAILED"), s.node) /\ failureSet' = failureSet \cup {s.t}
      /\ xfer' = Step(xfer, p, None) /\ holder' = holder
      /\ h2d' = h2d /\ disp' = disp /\ running' = running /\ data' = data /\ disk' = disk
      /\ bload' = bload /\ dev' = dev /\ d2h' = d2h
      /\ dump' = dump /\ dumping' = dumping /\ dumper' = dumper /\ bdump' = bdump
      /\ waiting' = waiting /\ st' = st
  BY <1>a DEF TransferBackendFailed, TransferFails, Fails, dumpVars, backend
<1>2. /\ s \in ShardTasks /\ s.t \in Tasks /\ s.t \in Loads /\ ProcOf[s.t] = p /\ s.node \in Nodes
      /\ s.t \notin Lined /\ st[s.t] # "new"
      /\ s.i \in 1 .. Len(KeysOf[s.t]) /\ s.last = (s.i = Len(KeysOf[s.t]))
      /\ s.last => disp[p].t # s.t /\ \A u \in OutOf(disp[p]) \cup Rng(running[p]) : u.t # s.t
      /\ \A u \in holder[p] : u.t = s.t => u.i < s.i
  BY <1>1, <1>a, Behind
<1>3. /\ s \in PendingOf(p) /\ s \in Pending
      /\ OutOf(disp[p]) \cup Rng(running[p]) = But(PendingOf(p), s) /\ CopiedOf(p) = holder[p]
  BY <1>1, <1>a, AtWait
<1>4. s.t \notin failureSet
  BY <1>3 DEF Contents, TasksRight, Open, Active
<1>5. /\ ~Faultless
      /\ s.own => bload[Id(s)].st = "fail"
  <2>1. Id(s) \in Shards
    BY <1>3, PinnedShards DEF Pinned
  <2>2. IF s.own THEN bload[Id(s)].st = "fail" ELSE tab[s.node].st = "FAILED"
    BY <1>1, <1>4 DEF NodeFailed
  <2> QED BY <1>2, <2>1, <2>2 DEF Contents, NodesRight, Sound
<1>6. s.i = 1 /\ s.last
  BY <1>2, <1>5, OneShard
<1>7. done' = done \cup {s.t}
  BY <1>6, <1>a DEF TransferBackendFailed, TransferFails, Done
<1>8. LoadsMove(p, disp[p], running[p], None, holder[p])
  BY <1>1, Stays, InPlaces DEF LoadsMove
<1>9. /\ OutOf(disp[p]) \cup Rng(running[p]) \cup WaitsIn(None) = But(PendingOf(p), s)
      /\ holder[p] \cup SyncsIn(None) = CopiedOf(p)
  BY <1>3 DEF WaitsIn, SyncsIn
<1>10. Pending' = But(Pending, s) /\ Copied' = Copied /\ Held' = Held /\ Sent' = Sent
       /\ SentShards' = SentShards /\ \A u : InHand(u)' => InHand(u) \/ u = disp[p].t
  BY <1>3, <1>8, <1>9, LoadUnions
<1>11. NodesRight'
  <2> DEFINE M == Settle(tab, s, "FAILED")
  <2>1. M \in Tables
        /\ \A n \in Nodes : /\ M[n].key = tab[n].key
                            /\ M[n].st = IF s.own /\ n = s.node /\ tab[n].st = "LOADING" THEN "FAILED" ELSE tab[n].st
    BY <1>2, SettleSets, InPlaces
  <2>2. tab' = Release(M, s.node)
    BY <1>1
  <2> HIDE DEF M
  <2>3. \A n \in Nodes : tab'[n].key = M[n].key /\ tab'[n].st = M[n].st
    BY <1>2, <2>1, <2>2, ReleaseOne DEF SameBut
  <2>4. \A n \in Nodes : /\ tab'[n].key = tab[n].key
                         /\ tab'[n].st = IF s.own /\ n = s.node /\ tab[n].st = "LOADING" THEN "FAILED" ELSE tab[n].st
    BY <2>1, <2>3
  <2>5. Settles(s, "FAILED", {})
    BY <1>1, <1>5, <1>10, <2>4 DEF Settles
  <2> QED BY <1>1, <1>3, <2>5, NodesSettle DEF Contents
<1>12. \A u \in Tasks : Active(u)' => Active(u)
  BY <1>1, <1>10 DEF Active, Lined, InHand, But
<1>13. ~Active(s.t)'
  <2>1. PICK t \in Tasks : t = s.t
    BY <1>2
  <2>2. ~InHand(t)'
    <3>1. ASSUME InHand(t)'  PROVE disp'[p].t = t
      <4>1. Handy(t)'
        BY <3>1, HandyNext DEF AllHandy
      <4> QED BY <1>2, <2>1, <4>1 DEF Handy
    <3> QED BY <1>1, <1>2, <1>6, <2>1, <3>1
  <2>3. ASSUME NEW u \in Pending' \cup Copied', u.t = t  PROVE FALSE
    <3>1. u \in But(PendingOf(p), s) \cup CopiedOf(p) /\ u.i \in 1 .. Len(KeysOf[t])
      <4>1. u \in Pending \cup Copied
        BY <1>10 DEF But
      <4>2. u \in PendingOf(p) \cup CopiedOf(p) /\ u.i \in 1 .. Len(KeysOf[t])
        BY <1>2, <2>1, <2>3, <4>1, ShardsAt
      <4>3. CASE u # s
        BY <4>2, <4>3 DEF But
      <4>4. CASE u = s
        <5>1. s \in Copied
          BY <1>10, <4>4 DEF But
        <5>2. s \in PendingOf(p) \cup CopiedOf(p)
          BY <1>3
        <5>3. PICK o \in Procs : s \in CopiedOf(o)
          BY <5>1 DEF Copied
        <5>4. o = p
          BY <1>2, <5>3, Located DEF Whereabouts, Places1, ShardOf
        <5> QED BY <4>2, <4>4, <5>3, <5>4
      <4> QED BY <4>3, <4>4
    <3>2. u \in holder[p]
      BY <1>2, <1>3, <1>6, <2>1, <2>3, <3>1
    <3>3. u.i < 1
      BY <1>2, <1>6, <2>1, <2>3, <3>2
    <3> QED BY <3>1, <3>3
  <2>4. Lined' = Lined
    BY <1>1 DEF Lined
  <2>5. ~Active(t)'
    BY <1>2, <2>1, <2>2, <2>3, <2>4 DEF Active
  <2> QED BY <2>1, <2>5
<1>14. Reaches
  <2>1. \A u \in Pending : u \in Pending' \cup h2d' \/ u.t \in failureSet'
    BY <1>1, <1>10 DEF But
  <2> QED BY <1>1, <2>1, TransferReaches
<1>15. TasksRight'
  <2> DEFINE D == {s.t}
  <2>1. done' = done \cup D /\ failureSet' = failureSet \cup D
    BY <1>1, <1>7
  <2>2. \A u \in D \cup D : ~Active(u)' /\ (u \in Tasks => st[u] # "new")
    BY <1>2, <1>13
  <2> HIDE DEF D
  <2> QED BY <1>1, <1>12, <1>14, <2>1, <2>2, TasksMove
<1> QED BY <1>11, <1>15 DEF Contents

LEMMA TransferSyncRight ==
  ASSUME Structure, Contents, NEW p \in Procs, TransferSync(p), sc' = sc, Structure'
  PROVE  Contents'
<1>a. PICK s : s = xfer[p].s
  OBVIOUS
<1>1. /\ xfer[p] # None /\ xfer[p].stage = "sync" /\ Landed(p)
      /\ tab' = ReleaseAll(tab, holder[p] \cup {s}) /\ failureSet' = failureSet /\ done' = done \cup {s.t}
      /\ xfer' = Step(xfer, p, None) /\ holder' = Step(holder, p, {})
      /\ h2d' = h2d /\ disp' = disp /\ running' = running /\ data' = data /\ disk' = disk
      /\ bload' = bload /\ dev' = dev /\ d2h' = d2h
      /\ dump' = dump /\ dumping' = dumping /\ dumper' = dumper /\ bdump' = bdump
      /\ waiting' = waiting /\ st' = st
  BY <1>a DEF TransferSync, Done, dumpVars, backend
<1>2. /\ s.t \in Tasks /\ s.t \in Loads /\ ProcOf[s.t] = p
      /\ s.t \notin Lined /\ st[s.t] # "new"
      /\ s.last => disp[p].t # s.t /\ \A u \in OutOf(disp[p]) \cup Rng(running[p]) : u.t # s.t
  BY <1>1, <1>a, Behind
<1>3. s.last /\ LoadShape(KeysOf, p, disp[p], running[p], xfer[p], holder[p])
  BY <1>1, <1>a, InPlaces DEF Loading, LoadShape
<1>4. PendingOf(p) = OutOf(disp[p]) \cup Rng(running[p]) /\ CopiedOf(p) = holder[p] \cup {s}
  BY <1>1, <1>a DEF PendingOf, CopiedOf, WaitsIn, SyncsIn
<1>5. LoadsMove(p, disp[p], running[p], None, {})
  BY <1>1, Stays, InPlaces DEF LoadsMove
<1>6. /\ OutOf(disp[p]) \cup Rng(running[p]) \cup WaitsIn(None) = PendingOf(p)
      /\ {} \cup SyncsIn(None) = {}
  BY <1>4 DEF WaitsIn, SyncsIn
<1>7. Pending' = Pending /\ Copied' = Less(Copied, CopiedOf(p)) /\ Held' = Held /\ Sent' = Sent
      /\ SentShards' = SentShards /\ \A u : InHand(u)' => InHand(u) \/ u = disp[p].t
  BY <1>5, <1>6, LoadUnions
<1>8. NodesRight'
  <2>1. SameBut(tab', tab)
    <3>1. holder[p] \cup {s} \in SUBSET Live
      BY <1>4, Parts, LiveIs DEF Live
    <3>2. IsFiniteSet(holder[p] \cup {s})
      BY <3>1, FS_Subset, InPlaces DEF Counts
    <3> QED BY <1>1, <3>2, ReleaseAllSets, InPlaces
  <2>2. \A u \in CopiedOf(p) : ProcOf[u.t] = p
    BY Located DEF Whereabouts, Places1, ShardOf
  <2>3. h2d' \in SUBSET Copied'
    BY <1>1, <1>7, <2>2 DEF Landed, Less, Contents, NodesRight, Filled
  <2>4. Shrinks
    BY <1>7 DEF Shrinks, Less
  <2>5. dev' \in [Shards -> Keys \cup {None}]
    BY <1>1 DEF Contents, NodesRight, ContentType
  <2> QED BY <1>1, <2>1, <2>3, <2>4, <2>5, NodesShrink DEF Contents
<1>9. \A u \in Tasks : Active(u)' => Active(u)
  BY <1>1, <1>7 DEF Active, Lined, InHand, Less
<1>10. ~Active(s.t)'
  <2>1. PICK t \in Tasks : t = s.t
    BY <1>2
  <2>2. ~InHand(t)'
    <3>1. ASSUME InHand(t)'  PROVE disp'[p].t = t
      <4>1. Handy(t)'
        BY <3>1, HandyNext DEF AllHandy
      <4> QED BY <1>2, <2>1, <4>1 DEF Handy
    <3> QED BY <1>1, <1>2, <1>3, <2>1, <3>1
  <2>3. ASSUME NEW u \in Pending' \cup Copied', u.t = t  PROVE FALSE
    <3>1. (u \in Pending \cup Copied /\ u \notin CopiedOf(p)) \/ u \in PendingOf(p)
      <4>1. u \in Pending \cup Copied
        BY <1>7 DEF Less
      <4>2. u \in PendingOf(p) \cup CopiedOf(p)
        BY <1>2, <2>1, <2>3, <4>1, ShardsAt
      <4>3. CASE u \in Pending
        <5>1. PICK o \in Procs : u \in PendingOf(o)
          BY <4>3 DEF Pending
        <5>2. o = p
          BY <1>2, <2>1, <2>3, <5>1, Located DEF Whereabouts, Places1, ShardOf
        <5> QED BY <5>1, <5>2
      <4>4. CASE u \notin Pending
        BY <1>7, <4>1, <4>4 DEF Less
      <4> QED BY <4>3, <4>4
    <3>2. u \in PendingOf(p)
      BY <1>2, <2>1, <2>3, <3>1, ShardsAt
    <3> QED BY <1>2, <1>3, <1>4, <2>1, <2>3, <3>2
  <2>4. Lined' = Lined
    BY <1>1 DEF Lined
  <2>5. ~Active(t)'
    BY <1>2, <2>1, <2>2, <2>3, <2>4 DEF Active
  <2> QED BY <2>1, <2>5
<1>11. Reaches
  BY <1>1, <1>7, TransferReaches
<1>12. TasksRight'
  <2> DEFINE D == {s.t}
             F == {}
  <2>1. done' = done \cup D /\ failureSet' = failureSet \cup F
    BY <1>1
  <2>2. \A u \in D \cup F : ~Active(u)' /\ (u \in Tasks => st[u] # "new")
    BY <1>2, <1>10
  <2> HIDE DEF D, F
  <2> QED BY <1>1, <1>9, <1>11, <2>1, <2>2, TasksMove
<1> QED BY <1>8, <1>12 DEF Contents

----------------------------------------------------------------------------
(* The dump thread                                                          *)

(* One process moves dump shards.                                           *)
LEMMA DumpUnions ==
  ASSUME Structure, NEW p \in Procs, NEW m, NEW q, NEW w, DumpsMove(p, m, q, w)
  PROVE  /\ Gathers(m) = HeldOf(p) => Held' = Held
         /\ \A s : Gathers(m) = With(HeldOf(p), s) => Held' = With(Held, s)
         /\ Gathers(m) = {} => Held' = Less(Held, HeldOf(p))
         /\ Sends(m) \cup LateOf(q, w) = SentOf(p) => Sent' = Sent
         /\ \A t : Sends(m) \cup LateOf(q, w) = With(SentOf(p), t) => Sent' = With(Sent, t)
         /\ \A t \in SentOf(p) : Sends(m) \cup LateOf(q, w) = But(SentOf(p), t) => Sent' = But(Sent, t)
         /\ Pending' = Pending /\ Copied' = Copied
         /\ \A t : InHand(t)' => InHand(t) \/ t = m.t
<1> DEFINE A == Gathers(m)
           B == Sends(m) \cup LateOf(q, w)
<1>1. /\ \A o \in Procs : o # p => HeldOf(o)' = HeldOf(o) /\ SentOf(o)' = SentOf(o)
      /\ \A o \in Procs : o # p => dump'[o] = dump[o]
      /\ HeldOf(p)' = A /\ SentOf(p)' = B /\ dump'[p] = m
      /\ Pending' = Pending /\ Copied' = Copied
  BY DumpPlaces, InPlaces
<1>2. /\ \A o \in Procs : \A s \in HeldOf(o) : ProcOf[s.t] = o
      /\ \A o \in Procs : \A t \in SentOf(o) : ProcOf[t] = o
  BY Located DEF Whereabouts, Places1, ShardOf
<1> HIDE DEF A, B
<1>3. Held = UNION {HeldOf(o) : o \in Procs} /\ Sent = UNION {SentOf(o) : o \in Procs}
  BY DEF Held, Sent
<1>4. /\ \A y : y \in Held' <=> y \in A \/ \E o \in Procs : o # p /\ y \in HeldOf(o)
      /\ \A y : y \in Sent' <=> y \in B \/ \E o \in Procs : o # p /\ y \in SentOf(o)
  BY <1>1 DEF Held, Sent
<1>5. A = HeldOf(p) => Held' = Held
  BY <1>3, <1>4
<1>6. ASSUME NEW s, A = With(HeldOf(p), s)  PROVE Held' = With(Held, s)
  BY <1>3, <1>4, <1>6 DEF With
<1>7. A = {} => Held' = Less(Held, HeldOf(p))
  <2>1. \A o \in Procs : \A y : o # p /\ y \in HeldOf(o) => y \notin HeldOf(p)
    BY <1>2
  <2> QED BY <1>3, <1>4, <2>1 DEF Less
<1>8. B = SentOf(p) => Sent' = Sent
  BY <1>3, <1>4
<1>9. ASSUME NEW t, B = With(SentOf(p), t)  PROVE Sent' = With(Sent, t)
  BY <1>3, <1>4, <1>9 DEF With
<1>10. ASSUME NEW t \in SentOf(p), B = But(SentOf(p), t)  PROVE Sent' = But(Sent, t)
  <2>1. \A o \in Procs : o # p => t \notin SentOf(o)
    BY <1>2
  <2> QED BY <1>3, <1>4, <1>10, <2>1 DEF But
<1>11. \A t : InHand(t)' => InHand(t) \/ t = m.t
  <2>1. disp' = disp
    BY DEF DumpsMove
  <2> QED BY <1>1, <2>1 DEF InHand
<1> QED BY <1>1, <1>5, <1>6, <1>7, <1>8, <1>9, <1>10, <1>11 DEF A, B

(* It keeps its task.                                                       *)
LEMMA DumpTasks ==
  ASSUME Structure, Contents, NEW p \in Procs, NEW m, NEW q, NEW w, DumpsMove(p, m, q, w),
         m.t \in {dump[p].t, None}, waiting' = waiting, st' = st, failureSet' = failureSet, done' = done,
         dev' = dev, h2d' = h2d
  PROVE  TasksRight'
<1>1. Pending' = Pending /\ Copied' = Copied /\ \A t : InHand(t)' => InHand(t) \/ t = m.t
  BY DumpUnions
<1>2. disp' = disp /\ sc' = sc
  BY DEF DumpsMove
<1>3. \A u \in Tasks : Active(u)' => Active(u)
  <2>1. ASSUME NEW u \in Tasks, InHand(u)'  PROVE InHand(u)
    <3>1. u # None
      BY NoneIsNothing
    <3> QED BY <1>1, <2>1, <3>1 DEF InHand
  <2> QED BY <1>1, <2>1 DEF Active, Lined
<1>4. Reaches
  BY <1>1, <1>2, TransferReaches
<1> QED BY <1>2, <1>3, <1>4, TasksKeep

(* It is done with its task.                                                *)
LEMMA DumpTaskEnds ==
  ASSUME Structure, Contents, Structure', NEW p \in Procs, NEW q, NEW w, DumpsMove(p, IdleDump, q, w),
         NEW t, t = dump[p].t, t # None, NEW F \in SUBSET {t}, waiting' = waiting, st' = st,
         failureSet' = failureSet \cup F, done' = done \cup {t}, dev' = dev, h2d' = h2d
  PROVE  TasksRight'
<1>1. /\ Pending' = Pending /\ Copied' = Copied
      /\ \A u : InHand(u)' => InHand(u) \/ u = IdleDump.t
  BY DumpUnions
<1>2. disp' = disp /\ sc' = sc /\ dump'[p] = IdleDump /\ IdleDump.t = None
  BY DumpPlaces, InPlaces DEF DumpsMove, IdleDump
<1>3. \A u \in Tasks : Active(u)' => Active(u)
  <2>1. ASSUME NEW u \in Tasks, InHand(u)'  PROVE InHand(u)
    <3>1. u # None
      BY NoneIsNothing
    <3> QED BY <1>1, <1>2, <2>1, <3>1
  <2> QED BY <1>1, <2>1 DEF Active, Lined
<1>4. Reaches
  BY <1>1, <1>2, TransferReaches
<1>5. t \in Dumps /\ ProcOf[t] = p /\ t \in Tasks /\ t \notin Loads
  BY Located, StoreAssumption DEF Whereabouts, Places1, Tasks
<1>6. t \in Touched(p) /\ t \notin Lined /\ st[t] # "new"
  <2>1. t \in Touched(p)
    BY DEF Touched
  <2> QED BY <2>1, Elsewhere DEF Structure, Places, Started
<1>7. ~InHand(t)'
  <2>1. ASSUME InHand(t)'  PROVE dump'[p].t = t
    <3>1. Handy(t)'
      BY <1>5, <2>1, HandyNext DEF AllHandy
    <3> QED BY <1>5, <3>1 DEF Handy
  <2> QED BY <1>2, <2>1
<1>8. ~Active(t)'
  <2>1. Lined' = Lined
    BY DEF Lined
  <2>2. \A s \in Pending \cup Copied : s.t \in Loads
    BY ShardsAt
  <2> QED BY <1>1, <1>5, <1>6, <1>7, <2>1, <2>2 DEF Active
<1> DEFINE D == {t}
<1>9. done' = done \cup D /\ \A u \in D \cup F : ~Active(u)' /\ (u \in Tasks => st[u] # "new")
  BY <1>6, <1>8
<1> HIDE DEF D
<1> QED BY <1>2, <1>3, <1>4, <1>9, TasksMove

LEMMA DumpTakeRight ==
  ASSUME Structure, Contents, NEW p \in Procs, DumpTake(p), sc' = sc
  PROVE  Contents'
<1> DEFINE t == Head(waiting["dump"][p])
           m == [IdleDump EXCEPT !.t = t]
<1>1. /\ dump[p] = IdleDump /\ waiting["dump"][p] # <<>> /\ st' = st /\ tab' = tab /\ data' = data
      /\ waiting' = [waiting EXCEPT !["dump"][p] = Tail(@)] /\ failureSet' = failureSet
      /\ disp' = disp /\ running' = running /\ xfer' = xfer /\ holder' = holder /\ h2d' = h2d /\ dev' = dev
      /\ dumping' = dumping /\ dumper' = dumper /\ disk' = disk /\ bload' = bload /\ bdump' = bdump /\ d2h' = d2h
  BY DEF DumpTake, buffer, loadVars, backend
<1>2. /\ t \in Lined /\ Lined' \in SUBSET Lined
      /\ \A o \in Procs, y \in {"load", "dump"} : \A u \in Rng(waiting[y][o]) :
           u \in Rng(waiting'[y][o]) \/ (o = p /\ y = "dump" /\ u = t)
  <2>1. "dump" \in {"load", "dump"} /\ waiting' = [waiting EXCEPT !["dump"][p] = Tail(@)] /\ waiting["dump"][p] # <<>>
    BY <1>1
  <2> QED BY <2>1, LineTake
<1>3. Active(t)
  BY <1>2 DEF Active
<1>4. dump' = Step(dump, p, m) /\ done' = done
  BY <1>3 DEF DumpTake, Contents, TasksRight, Open
<1>5. m.t = t /\ Gathers(m) = {} /\ Gathers(dump[p]) = {} /\ Sends(m) = {} /\ Sends(dump[p]) = {}
  BY <1>1 DEF IdleDump, Gathers, Sends
<1> HIDE DEF m
<1>6. DumpsMove(p, m, dumping[p], dumper[p])
  BY <1>1, <1>4, Stays, InPlaces DEF DumpsMove, DumpType
<1>7. Gathers(m) = HeldOf(p) /\ Sends(m) \cup LateOf(dumping[p], dumper[p]) = SentOf(p)
  BY <1>5 DEF HeldOf, SentOf
<1>8. /\ Held' = Held /\ Sent' = Sent /\ Pending' = Pending /\ Copied' = Copied
      /\ \A u : InHand(u)' => InHand(u) \/ u = m.t
  BY <1>6, <1>7, DumpUnions
<1>9. SentShards' = SentShards
  BY <1>1, <1>8 DEF SentShards
<1>10. NodesRight'
  <2>1. SameBut(tab', tab)
    BY <1>1, InPlaces DEF SameBut
  <2> QED BY <1>1, <1>8, <1>9, <2>1, NodesSame DEF Contents, SamePlaces
<1>11. \A u \in Tasks : Active(u)' => Active(u)
  BY <1>2, <1>3, <1>5, <1>8 DEF Active
<1>12. Reaches
  <2>1. \A o \in Procs : \A u \in Rng(waiting["load"][o]) : u \in Rng(waiting'["load"][o])
    BY <1>2
  <2>2. \A s \in Pending : s \in Pending' \cup h2d'
    BY <1>8
  <2> QED BY <1>1, <2>1, <2>2, ReachesKeep
<1>13. TasksRight'
  BY <1>1, <1>4, <1>11, <1>12, TasksKeep
<1> QED BY <1>10, <1>13 DEF Contents

LEMMA DumpFindsBusyRight ==
  ASSUME Structure, Contents, NEW p \in Procs, DumpFindsBusy(p), sc' = sc
  PROVE  Contents'
<1>1. /\ DumpsShard(p) /\ data' = data /\ disk' = disk /\ bload' = bload /\ bdump' = bdump /\ d2h' = d2h
      /\ disp' = disp /\ running' = running /\ xfer' = xfer /\ holder' = holder /\ h2d' = h2d /\ dev' = dev
      /\ dumping' = dumping /\ dumper' = dumper
      /\ waiting' = waiting /\ st' = st /\ failureSet' = failureSet /\ done' = done
  BY DEF DumpFindsBusy, backend, loadVars, api
<1>2. PICK r \in Get(NextKey(p), FALSE) :
         tab' = r.tab /\ dump' = [dump EXCEPT ![p].skip = {NextShard(p, r.node)}]
  BY DEF DumpFindsBusy
<1>3. PICK s : s = NextShard(p, r.node)
  OBVIOUS
<1> DEFINE m == Skipping(dump[p], s)
<1>4. dump[p] \in DumpRecs /\ Got(tab, NextKey(p), FALSE, r)
  BY <1>1, AtDump DEF DumpShape, MakerShape
<1>5. dump' = Step(dump, p, m)
  BY <1>2, <1>3 DEF Step, Skipping
<1>6. m.t = dump[p].t /\ m.held = dump[p].held /\ m.stage = dump[p].stage
  BY <1>4 DEF Skipping, DumpRecs
<1> HIDE DEF m
<1>7. DumpsMove(p, m, dumping[p], dumper[p])
  BY <1>1, <1>5, Stays, InPlaces DEF DumpsMove, DumpType
<1>8. Gathers(m) = HeldOf(p) /\ Sends(m) \cup LateOf(dumping[p], dumper[p]) = SentOf(p)
  BY <1>6 DEF HeldOf, SentOf, Gathers, Sends
<1>9. Held' = Held /\ Sent' = Sent /\ Pending' = Pending /\ Copied' = Copied
  BY <1>7, <1>8, DumpUnions
<1>10. SentShards' = SentShards
  BY <1>1, <1>9 DEF SentShards
<1>11. Steady /\ \A n \in Nodes : tab'[n].st = "FAILED" => tab[n].st = "FAILED"
  BY <1>2, <1>4, GotSteady
<1>12. NodesRight'
  <2>1. bload \in [Shards -> [st : {"none", "run", "ok", "fail"}, node : Nodes \cup {None}]]
    BY DEF Contents, NodesRight, ContentType
  <2>2. Grows({}, {})
    BY <1>1, <1>9, <1>10, <2>1 DEF Grows
  <2>3. Faultless => \A n \in Nodes : tab'[n].st # "FAILED"
    BY <1>11 DEF Contents, NodesRight, Sound
  <2> QED BY <1>1, <1>11, <2>2, <2>3, NodesGrow DEF Contents
<1>13. TasksRight'
  BY <1>1, <1>6, <1>7, DumpTasks
<1> QED BY <1>12, <1>13 DEF Contents

LEMMA DumpSkipsRight ==
  ASSUME Structure, Contents, NEW p \in Procs, DumpSkips(p), sc' = sc
  PROVE  Contents'
<1> DEFINE m == Skipped(dump[p])
           S == dump[p].skip
<1>1. /\ tab' = ReleaseAll(tab, S) /\ dump' = [dump EXCEPT ![p].skip = {}, ![p].i = @ + 1]
      /\ data' = data /\ disk' = disk /\ bload' = bload /\ bdump' = bdump /\ d2h' = d2h
      /\ disp' = disp /\ running' = running /\ xfer' = xfer /\ holder' = holder /\ h2d' = h2d /\ dev' = dev
      /\ dumping' = dumping /\ dumper' = dumper
      /\ waiting' = waiting /\ st' = st /\ failureSet' = failureSet /\ done' = done
  BY DEF DumpSkips, backend, loadVars, api
<1>2. dump[p] \in DumpRecs /\ dump \in [Procs -> DumpRecs]
  BY InPlaces DEF DumpType
<1>3. dump' = Step(dump, p, m)
  BY <1>1, <1>2 DEF Step, Skipped
<1>4. m.t = dump[p].t /\ m.held = dump[p].held /\ m.stage = dump[p].stage
  <2>1. {} \in SUBSET ShardTasks
    OBVIOUS
  <2> QED BY <1>2, <2>1, DumpAdvance DEF Skipped
<1> HIDE DEF m
<1>5. DumpsMove(p, m, dumping[p], dumper[p])
  BY <1>1, <1>3, Stays, InPlaces DEF DumpsMove, DumpType
<1>6. Gathers(m) = HeldOf(p) /\ Sends(m) \cup LateOf(dumping[p], dumper[p]) = SentOf(p)
  BY <1>4 DEF HeldOf, SentOf, Gathers, Sends
<1>7. Held' = Held /\ Sent' = Sent /\ Pending' = Pending /\ Copied' = Copied
  BY <1>5, <1>6, DumpUnions
<1>8. SentShards' = SentShards
  BY <1>1, <1>7 DEF SentShards
<1>9. SameBut(tab', tab)
  <2>1. S \in SUBSET Live
    BY LiveIs DEF DumpsOf, DumpSet, Live
  <2>2. IsFiniteSet(S)
    BY <2>1, FS_Subset, InPlaces DEF Counts
  <2> QED BY <1>1, <2>2, ReleaseAllSets, InPlaces
<1>10. NodesRight'
  BY <1>1, <1>7, <1>8, <1>9, NodesSame DEF Contents, SamePlaces
<1>11. TasksRight'
  BY <1>1, <1>4, <1>5, DumpTasks
<1> QED BY <1>10, <1>11 DEF Contents

LEMMA DumpGetRight ==
  ASSUME Structure, Contents, NEW p \in Procs, DumpGet(p), sc' = sc
  PROVE  Contents'
<1>1. /\ DumpsShard(p) /\ data' = data /\ disk' = disk /\ bload' = bload /\ bdump' = bdump
      /\ disp' = disp /\ running' = running /\ xfer' = xfer /\ holder' = holder /\ h2d' = h2d /\ dev' = dev
      /\ dumping' = dumping /\ dumper' = dumper
      /\ waiting' = waiting /\ st' = st /\ failureSet' = failureSet /\ done' = done
  BY DEF DumpGet, backend, loadVars, api
<1>2. PICK r \in Get(NextKey(p), FALSE) :
         /\ r.own /\ tab' = r.tab
         /\ d2h' = IF NeedsLoad(r) THEN d2h \cup {NextShard(p, r.node)} ELSE d2h
         /\ dump' = [dump EXCEPT ![p].i = @ + 1, ![p].held = @ \cup {NextShard(p, r.node)}]
  BY DEF DumpGet
<1>3. PICK s : s = NextShard(p, r.node)
  OBVIOUS
<1> DEFINE m == Holding(dump[p], s)
<1>4. /\ dump[p] \in DumpRecs /\ Got(tab, NextKey(p), FALSE, r)
      /\ s \in ShardTasks /\ s.t = dump[p].t /\ s.i = dump[p].i /\ s.node = r.node
      /\ dump[p].stage = "get"
  <2>1. /\ DumpShape(KeysOf, p, dump[p], dumping[p], dumper[p], bdump)
        /\ dump[p].t # None /\ dump[p].i <= Len(KeysOf[dump[p].t]) /\ dump[p].i \in 1 .. Len(KeysOf[dump[p].t])
        /\ dump[p].t \in Tasks /\ Got(tab, NextKey(p), FALSE, r)
        /\ ShardOf(KeysOf, p, Dumps, s) /\ s.t = dump[p].t /\ s.i = dump[p].i /\ s.node = r.node
    BY <1>1, <1>3, AtDump
  <2>2. Len(KeysOf[dump[p].t]) \in Nat
    BY <2>1, InPlaces
  <2>3. dump[p] \in DumpRecs /\ (dump[p].stage = "push" => dump[p].i > Len(KeysOf[dump[p].t]))
    BY <2>1 DEF DumpShape, MakerShape
  <2>4. dump[p].stage # "push"
    BY <2>1, <2>2, <2>3
  <2> QED BY <2>1, <2>3, <2>4 DEF ShardOf, DumpRecs
<1>5. dump' = Step(dump, p, m)
  <2>1. dump \in [Procs -> DumpRecs]
    BY InPlaces DEF DumpType
  <2> QED BY <1>2, <1>3, <2>1 DEF Step, Holding
<1>6. m.t = dump[p].t /\ m.held = dump[p].held \cup {s} /\ m.stage = "get"
  <2>1. {s} \in SUBSET ShardTasks
    BY <1>4
  <2> QED BY <1>4, <2>1, DumpAdvance DEF Holding
<1> HIDE DEF m
<1>7. DumpsMove(p, m, dumping[p], dumper[p])
  BY <1>1, <1>5, Stays, InPlaces DEF DumpsMove, DumpType
<1>8. Gathers(m) = With(HeldOf(p), s) /\ Sends(m) \cup LateOf(dumping[p], dumper[p]) = SentOf(p)
  BY <1>4, <1>6 DEF HeldOf, SentOf, Gathers, Sends, With
<1>9. Held' = With(Held, s) /\ Sent' = Sent /\ Pending' = Pending /\ Copied' = Copied
  BY <1>7, <1>8, DumpUnions
<1>10. SentShards' = SentShards
  BY <1>1, <1>9 DEF SentShards
<1>11. /\ Steady /\ tab'[r.node].key = NextKey(p) /\ r.node \in Nodes
       /\ Nobody(r.node) /\ tab'[r.node].st \in {"LOADING", "READY"}
       /\ \A n \in Nodes : tab'[n].st = "FAILED" => tab[n].st = "FAILED"
  BY <1>2, <1>4, GotSteady
<1>12. NodesRight'
  <2> DEFINE H == {s}
  <2>1. bload \in [Shards -> [st : {"none", "run", "ok", "fail"}, node : Nodes \cup {None}]]
    BY DEF Contents, NodesRight, ContentType
  <2>2. KeyOf(s) = NextKey(p)
    BY <1>4 DEF KeyOf, NextKey
  <2>3. IF tab'[s.node].st = "READY" THEN d2h' = d2h ELSE d2h' = d2h \cup H
    BY <1>2, <1>3, <1>4 DEF NeedsLoad
  <2>4. Pending' = Pending \cup {} /\ Held' = Held \cup H
    BY <1>9 DEF With
  <2>5. /\ \A u \in H : u.node \in Nodes /\ tab'[u.node].key = KeyOf(u)
        /\ \A u \in H : Nobody(u.node) /\ (tab'[u.node].st = "READY" \/ (tab'[u.node].st = "LOADING" /\ u \in d2h'))
        /\ d2h \in SUBSET d2h' /\ \A u \in d2h' : u \in d2h \/ (u \in H /\ tab'[u.node].st = "LOADING")
    BY <1>4, <1>11, <2>2, <2>3
  <2>6. Grows({}, H)
    BY <1>1, <1>9, <1>10, <2>1, <2>4, <2>5 DEF Grows
  <2> HIDE DEF H
  <2>7. Faultless => \A n \in Nodes : tab'[n].st # "FAILED"
    BY <1>11 DEF Contents, NodesRight, Sound
  <2> QED BY <1>1, <1>11, <2>6, <2>7, NodesGrow DEF Contents
<1>13. TasksRight'
  BY <1>1, <1>6, <1>7, DumpTasks
<1> QED BY <1>12, <1>13 DEF Contents

LEMMA DumpNothingRight ==
  ASSUME Structure, Contents, NEW p \in Procs, DumpNothing(p), sc' = sc, Structure'
  PROVE  Contents'
<1>1. /\ dump[p].t # None /\ dump[p].stage = "get" /\ dump[p].held = {} /\ dump' = Step(dump, p, IdleDump)
      /\ data' = data /\ disk' = disk /\ bload' = bload /\ bdump' = bdump /\ d2h' = d2h /\ tab' = tab
      /\ disp' = disp /\ running' = running /\ xfer' = xfer /\ holder' = holder /\ h2d' = h2d /\ dev' = dev
      /\ dumping' = dumping /\ dumper' = dumper /\ done' = done \cup {dump[p].t}
      /\ waiting' = waiting /\ st' = st /\ failureSet' = failureSet
  BY DEF DumpNothing, DumpsAll, NothingToDump, backend, loadVars, buffer, Done
<1>2. DumpsMove(p, IdleDump, dumping[p], dumper[p])
  BY <1>1, Stays, InPlaces DEF DumpsMove, DumpType
<1>3. Gathers(IdleDump) = HeldOf(p) /\ Sends(IdleDump) \cup LateOf(dumping[p], dumper[p]) = SentOf(p)
  BY <1>1 DEF HeldOf, SentOf, Gathers, Sends, IdleDump
<1>4. Held' = Held /\ Sent' = Sent /\ Pending' = Pending /\ Copied' = Copied
  BY <1>2, <1>3, DumpUnions
<1>5. SentShards' = SentShards
  BY <1>1, <1>4 DEF SentShards
<1>6. NodesRight'
  <2>1. SameBut(tab', tab)
    BY <1>1, InPlaces DEF SameBut
  <2> QED BY <1>1, <1>4, <1>5, <2>1, NodesSame DEF Contents, SamePlaces
<1>7. TasksRight'
  <2> DEFINE F == {}
  <2>1. PICK t : t = dump[p].t
    OBVIOUS
  <2>2. failureSet' = failureSet \cup F /\ F \in SUBSET {t}
    BY <1>1
  <2> HIDE DEF F
  <2> QED BY <1>1, <1>2, <2>1, <2>2, DumpTaskEnds
<1> QED BY <1>6, <1>7 DEF Contents

(* The dump thread is through with the nodes of its task.                   *)
LEMMA AtSubmit ==
  ASSUME Structure, Contents, NEW p \in Procs, DumpsAll(p), Synced(p), NEW t, t = dump[p].t
  PROVE  /\ t \in Dumps /\ t \in Tasks /\ t # None /\ ProcOf[t] = p /\ t \notin Sent /\ dump[p] \in DumpRecs
         /\ dump[p].stage = "get" /\ HeldOf(p) = dump[p].held /\ dump[p].held \in SUBSET Held
         /\ \A s \in d2h : s \notin dump[p].held
         /\ dump[p].held \in SUBSET Live /\ IsFiniteSet(dump[p].held)
<1>1. t # None /\ dump[p].stage = "get"
  BY DEF DumpsAll
<1>2. DumpShape(KeysOf, p, dump[p], dumping[p], dumper[p], bdump)
  BY InPlaces DEF Dumping
<1>3. t \in Dumps /\ t \in Tasks /\ ProcOf[t] = p /\ dump[p] \in DumpRecs
  BY <1>1, <1>2 DEF DumpShape, MakerShape, Tasks
<1>4. t \notin SentOf(p)
  BY <1>1, <1>2 DEF SentOf, Sends, DumpShape
<1>5. t \notin Sent
  <2>1. \A o \in Procs : \A u \in SentOf(o) : ProcOf[u] = o
    BY Located DEF Whereabouts, Places1
  <2> QED BY <1>3, <1>4, <2>1 DEF Sent
<1>6. HeldOf(p) = dump[p].held /\ dump[p].held \in SUBSET Held
  BY <1>1 DEF HeldOf, Gathers, Held
<1>7. \A s \in dump[p].held : ProcOf[s.t] = p
  BY <1>6, Located DEF Whereabouts, Places1, ShardOf
<1>8. dump[p].held \in SUBSET Live
  BY LiveIs DEF DumpsOf, DumpSet, Live
<1>9. IsFiniteSet(dump[p].held)
  BY <1>8, FS_Subset, InPlaces DEF Counts
<1> QED BY <1>1, <1>3, <1>5, <1>6, <1>7, <1>8, <1>9 DEF Synced

LEMMA DumpSubmitRight ==
  ASSUME Structure, Contents, NEW p \in Procs, DumpSubmit(p), sc' = sc
  PROVE  Contents'
<1>1. PICK t, H : t = dump[p].t /\ H = dump[p].held
  OBVIOUS
<1> DEFINE m == [dump[p] EXCEPT !.stage = "push"]
<1>2. /\ DumpsAll(p) /\ Synced(p) /\ tab' = MarkAll(tab, H) /\ bdump' = Step(bdump, t, [st |-> "run", held |-> H])
      /\ dump' = [dump EXCEPT ![p].stage = "push"]
      /\ data' = data /\ disk' = disk /\ bload' = bload /\ d2h' = d2h
      /\ disp' = disp /\ running' = running /\ xfer' = xfer /\ holder' = holder /\ h2d' = h2d /\ dev' = dev
      /\ dumping' = dumping /\ dumper' = dumper
      /\ waiting' = waiting /\ st' = st /\ failureSet' = failureSet /\ done' = done
  BY <1>1 DEF DumpSubmit, loadVars, api
<1>3. /\ t \in Tasks /\ ProcOf[t] = p /\ t \notin Sent /\ dump[p] \in DumpRecs /\ dump[p].stage = "get"
      /\ HeldOf(p) = H /\ H \in SUBSET Held /\ \A s \in d2h : s \notin H
  BY <1>1, <1>2, AtSubmit
<1>4. /\ bdump' \in [Tasks -> [st : {"none", "run", "ok", "fail"}, held : SUBSET ShardTasks]]
      /\ bdump'[t].held = H /\ bdump'[t].st = "run" /\ \A u \in Tasks : u # t => bdump'[u] = bdump[u]
  <2>1. bdump \in [Tasks -> [st : {"none", "run", "ok", "fail"}, held : SUBSET ShardTasks]]
    BY InPlaces DEF DumpType
  <2>2. H \in SUBSET ShardTasks
    BY <1>1, <1>3 DEF DumpRecs
  <2>3. [st |-> "run", held |-> H] \in [st : {"none", "run", "ok", "fail"}, held : SUBSET ShardTasks]
    BY <2>2
  <2> QED BY <1>2, <1>3, <2>1, <2>3 DEF Step
<1>5. dump' = Step(dump, p, m)
  BY <1>2 DEF Step
<1>6. m.t = t /\ m.held = H /\ m.stage = "push"
  BY <1>1, <1>3 DEF DumpRecs
<1> HIDE DEF m
<1>7. DumpsMove(p, m, dumping[p], dumper[p])
  BY <1>2, <1>3, <1>4, <1>5, Stays, InPlaces DEF DumpsMove
<1>8. Gathers(m) = {} /\ Sends(m) \cup LateOf(dumping[p], dumper[p]) = With(SentOf(p), t)
  BY <1>3, <1>6 DEF SentOf, Gathers, Sends, With
<1>9. Held' = Less(Held, H) /\ Sent' = With(Sent, t) /\ Pending' = Pending /\ Copied' = Copied
  BY <1>3, <1>7, <1>8, DumpUnions
<1>10. \A u \in Sent : u \in Tasks /\ u # t
  BY <1>3, Located DEF Sent, Whereabouts, Places1, Tasks
<1>11. SentShards' = SentShards \cup H
  BY <1>4, <1>9, <1>10 DEF SentShards, With
<1>12. Marks(H, H)
  <2>1. /\ \A n \in Nodes : tab'[n].key = tab[n].key
        /\ \A n \in Nodes : tab'[n].st = IF (\E s \in H : s.node = n) /\ tab[n].st = "LOADING"
                                         THEN "READY" ELSE tab[n].st
    BY <1>2, MarkAllSets, InPlaces
  <2>2. \A u \in Tasks : bdump'[u].st = "run" => u \in Sent'
    BY <1>4, <1>9 DEF With, Contents, NodesRight, Asked
  <2>3. Faultless => /\ \A u \in Tasks : bdump'[u].st # "fail"
                     /\ \A u \in Tasks : bdump'[u].st = "ok" => \A s \in bdump'[u].held : Stored(s)
                     /\ \A u \in Sent' : bdump'[u].st # "none"
    BY <1>4, <1>9, <1>10 DEF With, Contents, NodesRight, Sound
  <2> QED BY <1>3, <1>9, <1>11, <2>1, <2>2, <2>3 DEF Marks
<1>13. NodesRight'
  BY <1>2, <1>12, NodesMark DEF Contents
<1>14. TasksRight'
  BY <1>1, <1>2, <1>6, <1>7, DumpTasks
<1> QED BY <1>13, <1>14 DEF Contents

LEMMA DumpRejectedRight ==
  ASSUME Structure, Contents, NEW p \in Procs, DumpRejected(p), sc' = sc, Structure'
  PROVE  Contents'
<1>1. PICK t, H : t = dump[p].t /\ H = dump[p].held
  OBVIOUS
<1>2. /\ DumpsAll(p) /\ Synced(p) /\ tab' = ReleaseAll(MarkAll(tab, H), H)
      /\ dump' = Step(dump, p, IdleDump) /\ failureSet' = failureSet \cup {t} /\ done' = done \cup {t}
      /\ data' = data /\ disk' = disk /\ bload' = bload /\ d2h' = d2h /\ bdump' = bdump
      /\ disp' = disp /\ running' = running /\ xfer' = xfer /\ holder' = holder /\ h2d' = h2d /\ dev' = dev
      /\ dumping' = dumping /\ dumper' = dumper
      /\ waiting' = waiting /\ st' = st /\ "submit" \in Faults
  BY <1>1 DEF DumpRejected, DumpFails, Fails, Done, loadVars, backend
<1>3. /\ t # None /\ dump[p].stage = "get" /\ IsFiniteSet(H)
      /\ HeldOf(p) = H /\ H \in SUBSET Held /\ \A s \in d2h : s \notin H
  BY <1>1, <1>2, AtSubmit
<1>4. ~Faultless
  BY <1>2 DEF Faultless
<1>5. DumpsMove(p, IdleDump, dumping[p], dumper[p])
  BY <1>2, Stays, InPlaces DEF DumpsMove, DumpType
<1>6. Gathers(IdleDump) = {} /\ Sends(IdleDump) \cup LateOf(dumping[p], dumper[p]) = SentOf(p)
  BY <1>3 DEF SentOf, Gathers, Sends, IdleDump
<1>7. Held' = Less(Held, H) /\ Sent' = Sent /\ Pending' = Pending /\ Copied' = Copied
  BY <1>3, <1>5, <1>6, DumpUnions
<1>8. SentShards' = SentShards
  BY <1>2, <1>7 DEF SentShards
<1>9. Marks(H, {})
  <2>1. /\ MarkAll(tab, H) \in Tables
        /\ \A n \in Nodes : MarkAll(tab, H)[n].key = tab[n].key
        /\ \A n \in Nodes : MarkAll(tab, H)[n].st = IF (\E s \in H : s.node = n) /\ tab[n].st = "LOADING"
                                                    THEN "READY" ELSE tab[n].st
    BY MarkAllSets, InPlaces
  <2>2. SameBut(tab', MarkAll(tab, H))
    BY <1>2, <1>3, <2>1, ReleaseAllSets
  <2>3. /\ \A n \in Nodes : tab'[n].key = tab[n].key
        /\ \A n \in Nodes : tab'[n].st = IF (\E s \in H : s.node = n) /\ tab[n].st = "LOADING"
                                         THEN "READY" ELSE tab[n].st
    BY <2>1, <2>2 DEF SameBut
  <2>4. \A u \in Tasks : bdump'[u].st = "run" => u \in Sent'
    BY <1>2, <1>7 DEF Contents, NodesRight, Asked
  <2> QED BY <1>3, <1>4, <1>7, <1>8, <2>3, <2>4 DEF Marks
<1>10. NodesRight'
  BY <1>2, <1>9, NodesMark DEF Contents
<1>11. TasksRight'
  <2> DEFINE F == {t}
  <2>1. failureSet' = failureSet \cup F /\ F \in SUBSET {t}
    BY <1>2
  <2> HIDE DEF F
  <2> QED BY <1>1, <1>2, <1>3, <1>5, <2>1, DumpTaskEnds
<1> QED BY <1>10, <1>11 DEF Contents

LEMMA DumpPushRight ==
  ASSUME Structure, Contents, NEW p \in Procs, DumpPush(p), sc' = sc, Structure'
  PROVE  Contents'
<1>1. PICK t : t = dump[p].t
  OBVIOUS
<1> DEFINE q == Append(dumping[p], t)
<1>2. /\ dump[p].stage = "push" /\ dumping' = Step(dumping, p, q) /\ dump' = Step(dump, p, IdleDump)
      /\ data' = data /\ disk' = disk /\ bload' = bload /\ bdump' = bdump /\ d2h' = d2h /\ tab' = tab
      /\ disp' = disp /\ running' = running /\ xfer' = xfer /\ holder' = holder /\ h2d' = h2d /\ dev' = dev
      /\ dumper' = dumper /\ done' = done \cup {t}
      /\ waiting' = waiting /\ st' = st /\ failureSet' = failureSet
  BY <1>1 DEF DumpPush, backend, loadVars, buffer, Done
<1>3. t \in Tasks /\ t # None /\ dumping[p] \in Seq(Tasks)
  <2>1. DumpShape(KeysOf, p, dump[p], dumping[p], dumper[p], bdump)
    BY InPlaces DEF Dumping
  <2> QED BY <1>1, <1>2, <2>1 DEF DumpShape, MakerShape, LateShape, Tasks
<1>4. LateOf(q, dumper[p]) = LateOf(dumping[p], dumper[p]) \cup {t}
  BY <1>3, RngAppend DEF LateOf
<1> HIDE DEF q
<1>5. DumpsMove(p, IdleDump, q, dumper[p])
  BY <1>2, Stays, InPlaces DEF DumpsMove, DumpType
<1>6. Gathers(IdleDump) = HeldOf(p) /\ Sends(IdleDump) \cup LateOf(q, dumper[p]) = SentOf(p)
  BY <1>1, <1>2, <1>4 DEF HeldOf, SentOf, Gathers, Sends, IdleDump
<1>7. Held' = Held /\ Sent' = Sent /\ Pending' = Pending /\ Copied' = Copied
  BY <1>5, <1>6, DumpUnions
<1>8. SentShards' = SentShards
  BY <1>2, <1>7 DEF SentShards
<1>9. NodesRight'
  <2>1. SameBut(tab', tab)
    BY <1>2, InPlaces DEF SameBut
  <2> QED BY <1>2, <1>7, <1>8, <2>1, NodesSame DEF Contents, SamePlaces
<1>10. TasksRight'
  <2> DEFINE F == {}
  <2>1. failureSet' = failureSet \cup F /\ F \in SUBSET {t}
    BY <1>2
  <2> HIDE DEF F
  <2> QED BY <1>1, <1>2, <1>3, <1>5, <2>1, DumpTaskEnds
<1> QED BY <1>9, <1>10 DEF Contents

----------------------------------------------------------------------------
(* The dumper                                                               *)

LEMMA DumperTakeRight ==
  ASSUME Structure, Contents, NEW p \in Procs, DumperTake(p), sc' = sc
  PROVE  Contents'
<1> DEFINE q == Tail(dumping[p])
           w == Head(dumping[p])
<1>1. /\ dumper[p] = None /\ dumping[p] # <<>> /\ dumper' = Step(dumper, p, w) /\ dumping' = Step(dumping, p, q)
      /\ data' = data /\ disk' = disk /\ bload' = bload /\ bdump' = bdump /\ d2h' = d2h /\ tab' = tab
      /\ disp' = disp /\ running' = running /\ xfer' = xfer /\ holder' = holder /\ h2d' = h2d /\ dev' = dev
      /\ dump' = dump /\ waiting' = waiting /\ st' = st /\ failureSet' = failureSet /\ done' = done
  BY DEF DumperTake, backend, loadVars, buffer, api
<1>2. LateOf(q, w) = LateOf(dumping[p], dumper[p])
  <2>1. DumpShape(KeysOf, p, dump[p], dumping[p], None, bdump)
    BY <1>1, InPlaces DEF Dumping
  <2> QED BY <1>1, <2>1, DumperTook
<1> HIDE DEF q, w
<1>3. DumpsMove(p, dump[p], q, w)
  BY <1>1, Stays, InPlaces DEF DumpsMove, DumpType
<1>4. Gathers(dump[p]) = HeldOf(p) /\ Sends(dump[p]) \cup LateOf(q, w) = SentOf(p)
  BY <1>2 DEF HeldOf, SentOf
<1>5. Held' = Held /\ Sent' = Sent /\ Pending' = Pending /\ Copied' = Copied
  BY <1>3, <1>4, DumpUnions
<1>6. SentShards' = SentShards
  BY <1>1, <1>5 DEF SentShards
<1>7. NodesRight'
  <2>1. SameBut(tab', tab)
    BY <1>1, InPlaces DEF SameBut
  <2> QED BY <1>1, <1>5, <1>6, <2>1, NodesSame DEF Contents, SamePlaces
<1>8. TasksRight'
  BY <1>1, <1>3, DumpTasks
<1> QED BY <1>7, <1>8 DEF Contents

LEMMA DumperFinishesRight ==
  ASSUME Structure, Contents, NEW p \in Procs, DumperFinishes(p), sc' = sc
  PROVE  Contents'
<1>1. PICK w : w = dumper[p]
  OBVIOUS
<1>2. /\ w # None /\ Ended(w) /\ tab' = ReleaseAll(tab, bdump[w].held) /\ dumper' = Step(dumper, p, None)
      /\ data' = data /\ disk' = disk /\ bload' = bload /\ bdump' = bdump /\ d2h' = d2h
      /\ disp' = disp /\ running' = running /\ xfer' = xfer /\ holder' = holder /\ h2d' = h2d /\ dev' = dev
      /\ dump' = dump /\ dumping' = dumping /\ waiting' = waiting /\ st' = st /\ failureSet' = failureSet /\ done' = done
  BY <1>1 DEF DumperFinishes, backend, loadVars, api
<1>3. DumpShape(KeysOf, p, dump[p], dumping[p], w, bdump)
  BY <1>1, InPlaces DEF Dumping
<1>4. w \in Tasks /\ w \notin Rng(dumping[p]) /\ w # dump[p].t
  BY <1>2, <1>3 DEF DumpShape, LateShape, LateOf
<1>5. DumpsMove(p, dump[p], dumping[p], None)
  BY <1>2, Stays, InPlaces DEF DumpsMove, DumpType
<1>6. Gathers(dump[p]) = HeldOf(p) /\ w \in SentOf(p) /\ Sends(dump[p]) \cup LateOf(dumping[p], None) = But(SentOf(p), w)
  BY <1>1, <1>2, <1>4 DEF HeldOf, SentOf, LateOf, Sends, But
<1>7. Held' = Held /\ Sent' = But(Sent, w) /\ Pending' = Pending /\ Copied' = Copied
  BY <1>5, <1>6, DumpUnions
<1>8. Shrinks
  <2>1. \A u \in Sent \ Sent' : u = w
    BY <1>7 DEF But
  <2>2. bdump[w].st # "run"
    BY <1>2 DEF Ended
  <2>3. Sent' \in SUBSET Sent
    BY <1>7 DEF But
  <2>4. SentShards' \in SUBSET SentShards
    BY <1>2, <2>3 DEF SentShards
  <2>5. \A s \in SentShards \ SentShards' : s \in bdump[w].held
    BY <1>2, <2>1 DEF SentShards
  <2>6. Faultless => \A s \in bdump[w].held : Stored(s)
    BY <1>2, <1>4 DEF Ended, Contents, NodesRight, Sound
  <2> QED BY <1>7, <2>1, <2>2, <2>3, <2>4, <2>5, <2>6 DEF Shrinks
<1>9. NodesRight'
  <2>1. bdump[w].held \in SUBSET DumpsOf(p)
    BY <1>6, Parts
  <2>2. bdump[w].held \in SUBSET Live
    BY <2>1, LiveIs DEF Live
  <2>3. IsFiniteSet(bdump[w].held)
    BY <2>2, FS_Subset, InPlaces DEF Counts
  <2>4. SameBut(tab', tab)
    BY <1>2, <2>3, ReleaseAllSets, InPlaces
  <2>5. h2d' \in SUBSET Copied' /\ dev' \in [Shards -> Keys \cup {None}]
    BY <1>2, <1>7 DEF Contents, NodesRight, Filled, ContentType
  <2> QED BY <1>2, <1>8, <2>4, <2>5, NodesShrink DEF Contents
<1>10. TasksRight'
  BY <1>2, <1>5, DumpTasks
<1> QED BY <1>9, <1>10 DEF Contents

----------------------------------------------------------------------------
(* What tolerated faults rule out                                           *)

LEMMA NotTolerated ==
  ASSUME Structure, Tolerated
  PROVE  "device" \notin Faults /\ "timeout" \notin Faults
BY OneShard DEF Faultless

(* No shard of a failed task is queued.                                     *)
LEMMA NothingSkipped ==
  ASSUME Structure, Contents, NEW p \in Procs
  PROVE  ~TransferSkip(p)
<1> SUFFICES ASSUME running[p] # <<>>, Head(running[p]).t \in failureSet  PROVE FALSE
  BY DEF TransferSkip
<1>1. running[p] \in Seq(ShardTasks)
  BY InPlaces DEF LoadType
<1>2. PICK s : s = Head(running[p])
  OBVIOUS
<1>3. s \in Rng(running[p])
  BY <1>1, <1>2, RngTail
<1>4. s \in Pending
  BY <1>3 DEF Pending, PendingOf
<1>5. Active(s.t)
  BY <1>4 DEF Active
<1> QED BY <1>2, <1>5 DEF Contents, TasksRight, Open

(* A task with a shard that is not yet handed down still runs.              *)
LEMMA StillRuns ==
  ASSUME Structure, Contents, NEW s \in Pending \cup Copied \cup Held
  PROVE  st[s.t] = "run" /\ s.t \in Tasks
<1>1. CASE s \in Held
  <2>1. PICK p \in Procs : s \in HeldOf(p)
    BY <1>1 DEF Held
  <2>2. s.t = dump[p].t /\ s.t \in Dumps /\ s.t \in Tasks
    BY <2>1, Located DEF Whereabouts, Places1, ShardOf, Tasks
  <2>3. s.t \in Touched(p)
    BY <2>2, NoneIsNothing DEF Touched
  <2>4. st[s.t] # "new"
    BY <2>3 DEF Structure, Places, Started
  <2>5. Active(s.t)
    BY <2>2 DEF Active, InHand
  <2> QED BY <2>2, <2>4, <2>5 DEF Contents, TasksRight, Open
<1>2. CASE s \in Pending \cup Copied
  <2>1. s.t \in Tasks /\ s.t \in Touched(ProcOf[s.t]) /\ ProcOf[s.t] \in Procs
    BY <1>2, ShardsAt
  <2>2. st[s.t] # "new"
    BY <2>1 DEF Structure, Places, Started
  <2>3. Active(s.t)
    BY <1>2 DEF Active
  <2> QED BY <2>1, <2>2, <2>3 DEF Contents, TasksRight, Open
<1> QED BY <1>1, <1>2

----------------------------------------------------------------------------
(* The backend and the copies                                               *)

(* Nobody moves.                                                            *)
LEMMA StillTasks ==
  ASSUME Structure, Contents, sc' = sc, SamePlaces, \A t : InHand(t)' = InHand(t), Reaches,
         waiting' = waiting, st' = st, done' = done, failureSet' = failureSet
  PROVE  TasksRight'
<1>1. \A t \in Tasks : Active(t)' => Active(t)
  BY DEF Active, Lined, SamePlaces
<1> QED BY <1>1, TasksKeep

LEMMA StillReaches ==
  ASSUME Structure, sc' = sc, SamePlaces, dev' = dev, waiting' = waiting, disp' = disp, h2d' = h2d
  PROVE  Reaches
BY TransferReaches DEF SamePlaces

LEMMA BackendLoadRight ==
  ASSUME Structure, Contents, NEW x \in Shards, BackendStep(x), sc' = sc
  PROVE  Contents'
<1> DEFINE k == KeysOf[x[1]][x[2]]
<1>1. /\ disp' = disp /\ running' = running /\ xfer' = xfer /\ holder' = holder /\ h2d' = h2d /\ dev' = dev
      /\ dump' = dump /\ dumping' = dumping /\ dumper' = dumper /\ bdump' = bdump /\ disk' = disk /\ d2h' = d2h
      /\ waiting' = waiting /\ st' = st /\ failureSet' = failureSet /\ done' = done /\ tab' = tab
      /\ bload[x].st = "run"
  BY DEF BackendStep, BackendLoads, BackendLoadFails, loadVars, dumpVars, api
<1>2. SamePlaces /\ \A t : InHand(t)' = InHand(t)
  BY <1>1, StillPlaces
<1>3. PICK s \in Pending : s.own /\ Id(s) = x /\ s.node = bload[x].node
  BY <1>1 DEF Contents, NodesRight, Asked
<1>4. k = KeyOf(s) /\ k \in Keys /\ s.node \in Nodes /\ s.t \in Loads /\ s.i \in 1 .. Len(KeysOf[s.t])
  BY <1>3, PinnedShards, ShardsAt DEF Id, KeyOf, Pinned
<1>5. PICK v \in Keys \cup {None}, e \in {"ok", "fail"} :
        /\ data' = [data EXCEPT ![bload[x].node] = v] /\ bload' = [bload EXCEPT ![x].st = e]
        /\ e = "ok" => v = disk[k] /\ v # None
        /\ e = "fail" => disk[k] = None \/ "backend" \in Faults
  <2>1. disk[k] \in Keys \cup {None} /\ data \in [Nodes -> Keys \cup {None}]
    BY <1>4 DEF Contents, NodesRight, ContentType
  <2>2. CASE BackendLoads(x)
    BY <2>1, <2>2 DEF BackendLoads
  <2>3. CASE BackendLoadFails(x) /\ data' = data
    <3>1. data' = [data EXCEPT ![bload[x].node] = data[bload[x].node]]
      BY <2>1, <2>3
    <3>2. data[bload[x].node] \in Keys \cup {None}
      BY <1>3, <1>4, <2>1
    <3>3. bload' = [bload EXCEPT ![x].st = "fail"] /\ (disk[k] = None \/ "backend" \in Faults)
      BY <2>3 DEF BackendLoadFails
    <3> QED BY <3>1, <3>2, <3>3
  <2>4. CASE BackendLoadFails(x) /\ "backend" \in Faults /\ data' = [data EXCEPT ![bload[x].node] = None]
    BY <2>4 DEF BackendLoadFails
  <2> QED BY <2>2, <2>3, <2>4 DEF BackendStep, BackendLoadFails
<1>6. e = "fail" => ~Faultless
  <2> SUFFICES ASSUME Faultless, disk[k] = None \/ "backend" \in Faults  PROVE FALSE
    BY <1>5
  <2>1. Faults = {} /\ k \in OnDisk
    BY <1>4 DEF Faultless, KeyOf
  <2>2. disk[k] = k /\ k # None
    BY <1>4, <2>1, StoreAssumption DEF Contents, NodesRight, Sound
  <2> QED BY <2>1, <2>2
<1>7. NodesRight'
  BY <1>1, <1>2, <1>5, <1>6, NodesLoaded DEF Contents
<1>8. TasksRight'
  BY <1>1, <1>2, StillReaches, StillTasks
<1> QED BY <1>7, <1>8 DEF Contents

LEMMA BackendDumpRight ==
  ASSUME Structure, Contents, NEW t \in Tasks, BackendDumpStep(t), sc' = sc
  PROVE  Contents'
<1>1. /\ disp' = disp /\ running' = running /\ xfer' = xfer /\ holder' = holder /\ h2d' = h2d /\ dev' = dev
      /\ dump' = dump /\ dumping' = dumping /\ dumper' = dumper /\ d2h' = d2h
      /\ waiting' = waiting /\ st' = st /\ failureSet' = failureSet /\ done' = done /\ tab' = tab
      /\ data' = data /\ bload' = bload /\ bdump[t].st = "run"
  BY DEF BackendDumpStep, BackendDumps, BackendDumpFails, loadVars, dumpVars, api, buffer
<1>2. PICK e \in {"ok", "fail"} : /\ bdump' = [bdump EXCEPT ![t].st = e]
                                  /\ e = "ok" => BackendDumps(t)
                                  /\ e = "fail" => BackendDumpFails(t)
  BY DEF BackendDumpStep, BackendDumps, BackendDumpFails
<1>3. \A u \in Tasks : bdump'[u].held = bdump[u].held /\ bdump'[u].st = IF u = t THEN e ELSE bdump[u].st
  <2>1. bdump \in [Tasks -> [st : {"none", "run", "ok", "fail"}, held : SUBSET ShardTasks]]
    BY InPlaces DEF DumpType
  <2> QED BY <1>2, <2>1
<1>4. SamePlaces /\ \A u : InHand(u)' = InHand(u)
  BY <1>1, <1>3, StillPlaces
<1>5. \A s \in bdump[t].held : KeyOf(s) \in Keys /\ data[s.node] = KeyOf(s)
  <2> SUFFICES ASSUME NEW s \in bdump[t].held  PROVE KeyOf(s) \in Keys /\ data[s.node] = KeyOf(s)
    OBVIOUS
  <2>1. t \in Sent
    BY <1>1 DEF Contents, NodesRight, Asked
  <2>2. s \in SentShards /\ s \in Pinned
    BY <2>1 DEF SentShards, Pinned
  <2>3. s.node \in Nodes /\ KeyOf(s) \in Keys
    BY <2>2, PinnedShards
  <2>4. tab[s.node].st = "READY" /\ tab[s.node].key = KeyOf(s)
    BY <2>2 DEF Contents, NodesRight, Filled, Bound
  <2> QED BY <2>3, <2>4 DEF Contents, NodesRight, Right, CacheCoherent
<1>6. /\ disk' \in [Keys -> Keys \cup {None}]
      /\ \A k \in Keys : disk'[k] = disk[k] \/ disk'[k] = k
      /\ e = "ok" => \A s \in bdump[t].held : KeyOf(s) \in Keys /\ disk'[KeyOf(s)] = KeyOf(s)
  <2>1. disk \in [Keys -> Keys \cup {None}]
    BY DEF Contents, NodesRight, ContentType
  <2>2. CASE e = "fail"
    BY <1>2, <2>1, <2>2 DEF BackendDumpFails
  <2>3. CASE e = "ok"
    <3> DEFINE Dumped(k) == \E s \in bdump[t].held : KeyOf(s) = k
               from(k) == data[(CHOOSE s \in bdump[t].held : KeyOf(s) = k).node]
    <3>1. disk' = [k \in Keys |-> IF Dumped(k) THEN from(k) ELSE disk[k]]
      BY <1>2, <2>3 DEF BackendDumps
    <3>2. ASSUME NEW k \in Keys, Dumped(k)  PROVE from(k) = k
      <4>1. PICK s : s \in bdump[t].held /\ KeyOf(s) = k /\ s = CHOOSE u \in bdump[t].held : KeyOf(u) = k
        BY <3>2
      <4> QED BY <1>5, <4>1
    <3>3. \A s \in bdump[t].held : Dumped(KeyOf(s))
      OBVIOUS
    <3> HIDE DEF Dumped, from
    <3>4. \A k \in Keys : disk'[k] = IF Dumped(k) THEN k ELSE disk[k]
      BY <3>1, <3>2
    <3>5. disk' \in [Keys -> Keys \cup {None}]
      BY <2>1, <3>1, <3>2
    <3> QED BY <1>5, <3>3, <3>4, <3>5
  <2> QED BY <2>2, <2>3
<1>7. e = "fail" => ~Faultless
  BY <1>2 DEF BackendDumpFails, Faultless
<1>8. NodesRight'
  BY <1>1, <1>3, <1>4, <1>6, <1>7, NodesDumped DEF Contents
<1>9. TasksRight'
  BY <1>1, <1>4, StillReaches, StillTasks
<1> QED BY <1>8, <1>9 DEF Contents

LEMMA CopyToDeviceRight ==
  ASSUME Structure, Contents, NEW s, CopyToDevice(s), sc' = sc
  PROVE  Contents'
<1>1. /\ disp' = disp /\ running' = running /\ xfer' = xfer /\ holder' = holder
      /\ dump' = dump /\ dumping' = dumping /\ dumper' = dumper /\ bdump' = bdump /\ d2h' = d2h
      /\ waiting' = waiting /\ st' = st /\ failureSet' = failureSet /\ done' = done /\ tab' = tab
      /\ data' = data /\ bload' = bload /\ disk' = disk
      /\ s \in h2d /\ h2d' = But(h2d, s) /\ dev' = Step(dev, Id(s), data[s.node])
  BY DEF CopyToDevice, dumpVars, api, buffer, backend, But
<1>2. SamePlaces /\ \A t : InHand(t)' = InHand(t)
  BY <1>1, StillPlaces
<1>3. s \in Copied /\ s \in Pinned
  BY <1>1 DEF Contents, NodesRight, Filled, Pinned
<1>4. Id(s) \in Shards /\ s.node \in Nodes /\ KeyOf(s) \in Keys
  BY <1>3, PinnedShards
<1>5. data[s.node] = KeyOf(s)
  BY <1>3, <1>4 DEF Contents, NodesRight, Filled, Bound, Right, CacheCoherent
<1>6. dev \in [Shards -> Keys \cup {None}]
  BY DEF Contents, NodesRight, ContentType
<1>7. dev' \in [Shards -> Keys \cup {None}] /\ \A y \in Shards : dev'[y] = IF y = Id(s) THEN KeyOf(s) ELSE dev[y]
  BY <1>1, <1>4, <1>5, <1>6 DEF Step
<1>8. NodesRight'
  <2>1. SameBut(tab', tab)
    BY <1>1, InPlaces DEF SameBut
  <2>2. h2d' \in SUBSET Copied'
    BY <1>1, <1>2 DEF SamePlaces, Contents, NodesRight, Filled, But
  <2>3. Shrinks
    BY <1>2 DEF SamePlaces, Shrinks
  <2> QED BY <1>1, <1>7, <2>1, <2>2, <2>3, NodesShrink DEF Contents
<1>9. Reaches
  <2> SUFFICES ASSUME NEW t \in Loads, NEW i \in 1 .. Len(KeysOf[t])
               PROVE  /\ Arrived(t, i) => Arrived(t, i)'
                      /\ OnItsWay(t, i) => Arrived(t, i)' \/ OnItsWay(t, i)'
    BY DEF Reaches
  <2>1. KeysOf' = KeysOf
    BY SameKeys
  <2>2. <<t, i>> = Id(s) => Arrived(t, i)'
    <3>1. <<t, i>> = Id(s) => KeyOf(s) = KeysOf[t][i]
      BY DEF Id, KeyOf
    <3> QED BY <1>4, <1>7, <2>1, <3>1 DEF Arrived
  <2>3. ASSUME Arrived(t, i), <<t, i>> # Id(s)  PROVE Arrived(t, i)'
    <3>1. t \in Tasks /\ i \in 1 .. MaxShards
      <4>1. PICK n \in Nat : n = Len(KeysOf[t]) /\ t \in Tasks
        BY InPlaces DEF Tasks
      <4>2. n <= MaxShards /\ MaxShards \in Nat
        <5>1. sc \in Scenarios
          BY InPlaces DEF ApiType
        <5> QED BY <4>1, <5>1, StoreAssumption DEF KeysOf
      <4>3. i \in 1 .. n
        BY <4>1
      <4>4. i \in 1 .. MaxShards
        BY <4>2, <4>3
      <4> QED BY <4>1, <4>4
    <3>2. <<t, i>> \in Shards
      BY <3>1 DEF Shards
    <3> QED BY <1>7, <2>1, <2>3, <3>2 DEF Arrived
  <2>4. ASSUME OnItsWay(t, i), <<t, i>> # Id(s)  PROVE OnItsWay(t, i)'
    <3>1. \A u \in Pending \cup h2d : Id(u) = <<t, i>> => u \in Pending' \cup h2d' /\ Id(u)' = Id(u)
      BY <1>1, <1>2, <2>4 DEF SamePlaces, But, Id
    <3> QED BY <1>1, <2>4, <3>1 DEF OnItsWay
  <2> QED BY <2>2, <2>3, <2>4
<1>10. TasksRight'
  BY <1>1, <1>2, <1>9, StillTasks
<1> QED BY <1>8, <1>10 DEF Contents

LEMMA CopyFromDeviceRight ==
  ASSUME Structure, Contents, NEW s, CopyFromDevice(s), sc' = sc
  PROVE  Contents'
<1>1. /\ disp' = disp /\ running' = running /\ xfer' = xfer /\ holder' = holder /\ h2d' = h2d /\ dev' = dev
      /\ dump' = dump /\ dumping' = dumping /\ dumper' = dumper /\ bdump' = bdump
      /\ waiting' = waiting /\ st' = st /\ failureSet' = failureSet /\ done' = done /\ tab' = tab
      /\ bload' = bload /\ disk' = disk
      /\ s \in d2h /\ d2h' = But(d2h, s) /\ data' = Step(data, s.node, Content(s))
  BY DEF CopyFromDevice, loadVars, api, backend, But
<1>2. SamePlaces /\ \A t : InHand(t)' = InHand(t)
  BY <1>1, StillPlaces
<1>3. s \in Held
  BY <1>1 DEF Contents, NodesRight, Filled
<1>4. Content(s) = KeyOf(s)
  BY <1>3, StillRuns DEF Content
<1>5. data' = [data EXCEPT ![s.node] = KeyOf(s)]
  BY <1>1, <1>4 DEF Step
<1>6. NodesRight'
  BY <1>1, <1>2, <1>5, NodesFilled DEF Contents
<1>7. TasksRight'
  BY <1>1, <1>2, StillReaches, StillTasks
<1> QED BY <1>6, <1>7 DEF Contents

----------------------------------------------------------------------------
(* The invariant holds at the start and every step keeps it                 *)

LEMMA InitContents ==
  ASSUME Init
  PROVE  Contents
<1>1. Rng(<<>>) = {}
  <2>1. 1 .. Len(<<>>) = {}
    OBVIOUS
  <2> QED BY <2>1 DEF Rng
<1>2. ASSUME NEW p \in Procs
      PROVE  /\ disp[p] = IdleDisp /\ running[p] = <<>> /\ xfer[p] = None /\ holder[p] = {}
             /\ dump[p] = IdleDump /\ dumping[p] = <<>> /\ dumper[p] = None
             /\ waiting["load"][p] = <<>> /\ waiting["dump"][p] = <<>>
  BY <1>2 DEF Init
<1>3. /\ IdleDisp.t = None /\ OutOf(IdleDisp) = {} /\ WaitsIn(None) = {} /\ SyncsIn(None) = {}
      /\ IdleDump.t = None /\ Gathers(IdleDump) = {} /\ Sends(IdleDump) = {}
  BY DEF IdleDisp, IdleDump, OutOf, WaitsIn, SyncsIn, Gathers, Sends
<1>4. \A p \in Procs : PendingOf(p) = {} /\ CopiedOf(p) = {} /\ HeldOf(p) = {} /\ SentOf(p) = {}
  BY <1>1, <1>2, <1>3 DEF PendingOf, CopiedOf, HeldOf, SentOf, LateOf
<1>5. Pending = {} /\ Copied = {} /\ Held = {} /\ Sent = {}
  BY <1>4 DEF Pending, Copied, Held, Sent
<1>6. SentShards = {}
  BY <1>5 DEF SentShards
<1>7. h2d = {} /\ d2h = {} /\ failureSet = {} /\ done = {} /\ \A t \in Tasks : st[t] = "new"
  BY DEF Init
<1>8. \A n \in Nodes : tab[n].st \notin {"READY", "FAILED"}
  BY DEF Init, FreshNode
<1>9. /\ \A x \in Shards : bload[x].st = "none"
      /\ \A t \in Tasks : bdump[t].st = "none"
      /\ \A k \in Keys : disk[k] = IF k \in OnDisk THEN k ELSE None
  BY DEF Init
<1>10. ContentType
  <2>1. bload \in [Shards -> [st : {"none", "run", "ok", "fail"}, node : Nodes \cup {None}]]
    BY DEF Init
  <2>2. /\ data \in [Nodes -> Keys \cup {None}] /\ disk \in [Keys -> Keys \cup {None}]
        /\ dev \in [Shards -> Keys \cup {None}]
    BY DEF Init
  <2> QED BY <2>1, <2>2 DEF ContentType
<1>11. Bound /\ Alone /\ Filled
  BY <1>5, <1>6, <1>7 DEF Bound, Alone, Filled, Pinned
<1>12. Right
  BY <1>8, <1>9 DEF Right, CacheCoherent
<1>13. Answered /\ Asked
  BY <1>5, <1>9 DEF Answered, Asked
<1>14. Sound /\ Kept
  BY <1>5, <1>8, <1>9, StoreAssumption DEF Sound, Kept
<1>15. NodesRight
  BY <1>10, <1>11, <1>12, <1>13, <1>14 DEF NodesRight
<1>16. Open /\ Coming
  BY <1>7 DEF Open, Coming, Tasks
<1> QED BY <1>15, <1>16 DEF Contents, TasksRight

LEMMA LoadContents ==
  ASSUME Structure, Structure', Contents, Tolerated, NEW p \in Procs, Dispatcher(p) \/ Transfer(p), sc' = sc
  PROVE  Contents'
<1>1. CASE Dispatcher(p)
  BY <1>1, DispatchTakeRight, DispatchGetRight, DispatchRejectedRight, DispatchPushRight DEF Dispatcher
<1>2. ~TransferSkip(p)
  BY NothingSkipped
<1>3. ~TransferCopyFails(p) /\ ~TransferSyncFails(p)
  BY NotTolerated DEF TransferCopyFails, TransferSyncFails
<1>4. CASE Transfer(p)
  BY <1>2, <1>3, <1>4, TransferTakeRight, TransferCopyRight, TransferBackendFailedRight,
     TransferSyncRight DEF Transfer
<1> QED BY <1>1, <1>4

LEMMA DumpContents ==
  ASSUME Structure, Structure', Contents, Tolerated, NEW p \in Procs, DumpThread(p) \/ Dumper(p), sc' = sc
  PROVE  Contents'
<1>1. ~DumpEventFails(p) /\ ~DumpCopyFails(p) /\ ~DumpSyncFails(p)
  BY NotTolerated DEF DumpEventFails, DumpCopyFails, DumpSyncFails
<1>2. CASE DumpThread(p)
  BY <1>1, <1>2, DumpTakeRight, DumpFindsBusyRight, DumpSkipsRight, DumpGetRight, DumpNothingRight,
     DumpSubmitRight, DumpRejectedRight, DumpPushRight DEF DumpThread
<1>3. CASE Dumper(p)
  BY <1>3, DumperTakeRight, DumperFinishesRight DEF Dumper
<1> QED BY <1>2, <1>3

LEMMA NextContents ==
  ASSUME Structure, Structure', Contents, Tolerated, [Next]_vars
  PROVE  Contents'
<1>1. sc' = sc
  BY DEF Next, vars
<1>2. CASE UNCHANGED vars
  <2>1. /\ disp' = disp /\ running' = running /\ xfer' = xfer /\ holder' = holder /\ h2d' = h2d /\ dev' = dev
        /\ dump' = dump /\ dumping' = dumping /\ dumper' = dumper /\ bdump' = bdump /\ disk' = disk /\ d2h' = d2h
        /\ waiting' = waiting /\ st' = st /\ failureSet' = failureSet /\ done' = done /\ tab' = tab
        /\ data' = data /\ bload' = bload
    BY <1>2 DEF vars, store, buffer, loadVars, dumpVars, api, backend
  <2>2. SamePlaces /\ \A t : InHand(t)' = InHand(t)
    BY <2>1, StillPlaces
  <2>3. SameBut(tab', tab)
    BY <2>1, InPlaces DEF SameBut
  <2>4. NodesRight'
    BY <1>1, <2>1, <2>2, <2>3, NodesSame DEF Contents
  <2>5. TasksRight'
    BY <1>1, <2>1, <2>2, StillReaches, StillTasks
  <2> QED BY <2>4, <2>5 DEF Contents
<1>3. CASE Next
  <2>1. \A t \in Tasks : ~WaitExpires(t)
    BY NotTolerated DEF WaitExpires
  <2>2. ASSUME NEW t \in Tasks, Submit(t) \/ WaitReturns(t) \/ WaitExpires(t) \/ BackendDumpStep(t)
        PROVE  Contents'
    BY <1>1, <2>1, <2>2, SubmitRight, WaitReturnsRight, BackendDumpRight
  <2>3. ASSUME NEW p \in Procs, Dispatcher(p) \/ Transfer(p) \/ DumpThread(p) \/ Dumper(p)
        PROVE  Contents'
    BY <1>1, <2>3, LoadContents, DumpContents
  <2>4. ASSUME NEW s \in Shards, BackendStep(s)
        PROVE  Contents'
    BY <1>1, <2>4, BackendLoadRight
  <2>5. CASE Copies
    BY <1>1, <2>5, CopyToDeviceRight, CopyFromDeviceRight DEF Copies
  <2> QED BY <1>3, <2>2, <2>3, <2>4, <2>5 DEF Next
<1> QED BY <1>2, <1>3

LEMMA ToleratedBefore ==
  ASSUME [Next]_vars
  PROVE  Tolerated' = Tolerated
<1>1. sc' = sc
  BY DEF Next, vars
<1> QED BY <1>1, SameKeys

(* While only tolerated faults happen, the nodes, the backend and the       *)
(* device hold what the places of the shards say, and no task that failed   *)
(* or is done has a shard under way.                                        *)
THEOREM ContentsHold == Spec => [](Tolerated => Contents)
<1> DEFINE I == Structure /\ (Tolerated => Contents)
<1>1. Init => I
  BY InitStructure, InitContents
<1>2. I /\ [Next]_vars => I'
  <2> SUFFICES ASSUME I, [Next]_vars  PROVE I'
    OBVIOUS
  <2>1. Structure'
    BY NextStructure
  <2>2. Tolerated' => Contents'
    BY <2>1, NextContents, ToleratedBefore
  <2> QED BY <2>1, <2>2
<1> QED BY <1>1, <1>2, PTL DEF Spec

----------------------------------------------------------------------------
(* What the invariant is for                                                *)

(* Every load reported as successful has put its shards on the device, and  *)
(* no cache hit is stale, for every number of processes, tasks, nodes and   *)
(* queue slots and every tolerated fault.                                   *)
THEOREM FaultsStayLocalHolds == Spec => []FaultsStayLocal
<1>1. Structure /\ (Tolerated => Contents) => FaultsStayLocal
  <2> SUFFICES ASSUME Structure, Contents  PROVE LoadCorrect /\ CacheCoherent
    BY DEF FaultsStayLocal
  <2>1. LoadCorrect
    BY OkArrived DEF LoadCorrect, Arrived
  <2>2. CacheCoherent
    BY DEF Contents, NodesRight, Right
  <2> QED BY <2>1, <2>2
<1> QED BY <1>1, StructureHolds, ContentsHold, PTL

(* A dump stores under a key nothing but the content of that key.           *)
THEOREM DiskCorrectHolds == Spec => []DiskCorrect
<1>1. (Tolerated => Contents) => DiskCorrect
  BY DEF DiskCorrect, Tolerated, Contents, NodesRight, Right
<1> QED BY <1>1, ContentsHold, PTL

(* No copy reads or writes device memory of a task whose Wait has returned. *)
THEOREM NoCopyAfterReturnHolds == Spec => []NoCopyAfterReturn
<1>1. Structure /\ (Tolerated => Contents) => NoCopyAfterReturn
  <2> SUFFICES ASSUME Structure, Contents, NEW s \in h2d \cup d2h  PROVE st[s.t] \in {"run", "drain"}
    BY DEF NoCopyAfterReturn, Tolerated
  <2>1. s \in Copied \cup Held
    BY DEF Contents, NodesRight, Filled
  <2>2. st[s.t] = "run"
    BY <2>1, StillRuns
  <2> QED BY <2>2
<1> QED BY <1>1, StructureHolds, ContentsHold, PTL

(* A READY node that nobody references can be given to another key: the     *)
(* backend has what it holds.                                               *)
THEOREM EvictionSafeHolds == Spec => []EvictionSafe
<1>1. Structure /\ (Tolerated => Contents) => EvictionSafe
  <2> SUFFICES ASSUME Structure, Contents, Faultless, NEW n \in Nodes, tab[n].st = "READY", tab[n].ref = 0
               PROVE  disk[tab[n].key] = tab[n].key
    BY DEF EvictionSafe, Tolerated
  <2>1. \A s \in Held \cup SentShards : s.node # n
    BY NobodyAt DEF Pinned
  <2>2. OnBackend(tab[n].key)
    BY <2>1 DEF Contents, NodesRight, Kept
  <2> QED BY <2>2 DEF OnBackend
<1> QED BY <1>1, StructureHolds, ContentsHold, PTL
=============================================================================
