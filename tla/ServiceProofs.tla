--------------------------- MODULE ServiceProofs ---------------------------
(***************************************************************************)
(* Five machines around the connector.  The  breaker opens and closes as   *)
(* the results recorded say (BreakerRight), for every window, threshold    *)
(* and number of threads; waits of the Mooncake store tell the truth and   *)
(* the store is closed last (MooncakeRight), for all clients and calls;    *)
(* loads, dumps and lookups of the posix store tell the truth              *)
(* (PosixRight), for all tasks, processes, workers and faults; pages that  *)
(* ranks of SGLang fetch are theirs (SglangRight), for all ranks and keys; *)
(* layers of a pipeline fit (PipelineRight), for all sizes.                *)
(***************************************************************************)
EXTENDS HealthBreaker, MooncakeStore, PosixStore, SglangStore, StorePipeline, FiniteSetTheorems, WellFoundedInduction, TLAPS

----------------------------------------------------------------------------
(* The breaker: the invariant                                               *)

KShape(r) == "ok" \in DOMAIN r /\ r.ok \in BOOLEAN
KTyped ==
  /\ kcfg \in BreakerSetups /\ kpc \in {"up", "stop", "gone"} /\ kon \in BOOLEAN
  /\ DOMAIN kth = KThreads /\ \A t \in KThreads : KShape(kth[t])
  /\ klog \in Seq(BOOLEAN) /\ kwin \in Seq(BOOLEAN) /\ IsFiniteSet(DOMAIN kwork)

(* The window holds the last results.                                       *)
KWindow ==
  LET n == Len(klog)
  IN  /\ Len(kwin) = n - KFirst(n) + 1
      /\ \A k \in 1 .. Len(kwin) : kwin[k] = klog[KFirst(n) + k - 1]
KCount == kfail = Cardinality(KFailures(Len(klog)))
KEnabled == kon <=> ~KOpened
KWorkers == Cardinality(DOMAIN kwork) <= kcfg.limit
KGone == kpc = "gone" => kwork = <<>> /\ \A t \in KThreads : kth[t].pc = "idle"
BreakerInv == KTyped /\ KWindow /\ KCount /\ KEnabled /\ KWorkers /\ KGone

----------------------------------------------------------------------------
(* The results                                                              *)

LEMMA Config ==
  ASSUME KTyped
  PROVE  /\ kcfg.window \in Nat /\ kcfg.window >= 1 /\ kcfg.limit \in Nat
         /\ kcfg.threshold \in Nat /\ kcfg.threshold >= 1
BY BreakerAssumption DEF KTyped

LEMMA FirstIs ==
  ASSUME KTyped, NEW i \in Nat
  PROVE  /\ KFirst(i) \in Nat /\ KFirst(i) >= 1 /\ KFirst(i) <= i + 1
         /\ KFirst(i + 1) = IF i >= kcfg.window THEN KFirst(i) + 1 ELSE KFirst(i)
         /\ i >= kcfg.window <=> i - KFirst(i) + 1 = kcfg.window
BY Config DEF KFirst

LEMMA FailuresFinite ==
  ASSUME KTyped, NEW i \in Nat
  PROVE  IsFiniteSet(KFailures(i)) /\ Cardinality(KFailures(i)) \in Nat
<1>1. IsFiniteSet(KFirst(i) .. i)
  BY FirstIs, FS_Interval
<1>2. IsFiniteSet(KFailures(i))
  BY <1>1, FS_Subset DEF KFailures
<1> QED BY <1>2, FS_CardinalityType

(* A result is recorded: earlier windows stay what they were.               *)
LEMMA EarlierStay ==
  ASSUME KTyped, kcfg' = kcfg, NEW b \in BOOLEAN, klog' = Append(klog, b), NEW i \in 0 .. Len(klog)
  PROVE  KFirst(i)' = KFirst(i) /\ KFailures(i)' = KFailures(i) /\ KBad(i)' = KBad(i) /\ KGood(i)' = KGood(i)
<1>1. i \in Nat /\ KFirst(i)' = KFirst(i)
  BY DEF KFirst, KTyped
<1>2. \A k \in KFirst(i) .. i : klog'[k] = klog[k]
  <2>1. PICK f \in Nat : f = KFirst(i) /\ f >= 1
    BY <1>1, FirstIs
  <2>2. klog \in Seq(BOOLEAN)
    BY DEF KTyped
  <2>3. \A k \in 1 .. Len(klog) : klog'[k] = klog[k]
    BY <2>2
  <2> QED BY <1>1, <2>1, <2>2, <2>3
<1>3. KFailures(i)' = KFailures(i)
  BY <1>1, <1>2 DEF KFailures
<1> QED BY <1>1, <1>3 DEF KBad, KGood

(* The result that leaves the window is a failure.                          *)
OldFails(n) == n >= kcfg.window /\ ~klog[KFirst(n)]

(* The new window gains a result and loses the oldest if it was full.       *)
LEMMA WindowMoves ==
  ASSUME KTyped, kcfg' = kcfg, NEW b \in BOOLEAN, klog' = Append(klog, b),
         NEW n, n = Len(klog)
  PROVE  /\ Len(klog') = n + 1 /\ n \in Nat
         /\ Cardinality(KFailures(n + 1)') = Cardinality(KFailures(n)) - (IF OldFails(n) THEN 1 ELSE 0) + (IF b THEN 0 ELSE 1)
<1>1. n \in Nat /\ Len(klog') = n + 1 /\ klog'[n + 1] = b /\ \A k \in 1 .. n : klog'[k] = klog[k]
  BY DEF KTyped
<1>2. KFirst(n + 1)' = KFirst(n + 1)
  BY DEF KFirst
<1>3. /\ KFirst(n) \in Nat /\ KFirst(n) >= 1 /\ KFirst(n) <= n + 1
      /\ KFirst(n + 1) = IF n >= kcfg.window THEN KFirst(n) + 1 ELSE KFirst(n)
      /\ n >= kcfg.window => KFirst(n) <= n
  <2>1. n \in Nat
    BY <1>1
  <2>2. /\ KFirst(n) \in Nat /\ KFirst(n) >= 1 /\ KFirst(n) <= n + 1
        /\ KFirst(n + 1) = IF n >= kcfg.window THEN KFirst(n) + 1 ELSE KFirst(n)
        /\ n >= kcfg.window <=> n - KFirst(n) + 1 = kcfg.window
    BY <2>1, FirstIs
  <2> QED BY <2>1, <2>2, Config
<1> DEFINE F == KFailures(n)
           G == IF OldFails(n) THEN F \ {KFirst(n)} ELSE F
           f == KFirst(n)
<1>4. IsFiniteSet(F) /\ Cardinality(F) \in Nat
  BY <1>1, FailuresFinite
<1>5. OldFails(n) => f \in F
  BY <1>1, <1>3 DEF KFailures, OldFails
<1>6. IsFiniteSet(G) /\ Cardinality(G) = Cardinality(F) - (IF OldFails(n) THEN 1 ELSE 0) /\ Cardinality(G) \in Nat
  <2> HIDE DEF F, f
  <2>1. CASE OldFails(n)
    <3>1. IsFiniteSet(F \ {f}) /\ Cardinality(F \ {f}) = Cardinality(F) - 1
      BY <1>4, <1>5, <2>1, FS_RemoveElement
    <3> QED BY <2>1, <3>1, FS_CardinalityType DEF f
  <2>2. CASE ~OldFails(n)
    BY <1>4, <2>2
  <2> QED BY <2>1, <2>2
<1>7. KFailures(n + 1)' = IF b THEN G ELSE G \cup {n + 1}
  <2>1. KFailures(n + 1)' = {k \in KFirst(n + 1) .. n + 1 : ~klog'[k]}
    BY <1>2 DEF KFailures
  <2>2. \A k : k \in G <=> k \in KFirst(n + 1) .. n /\ ~klog[k]
    BY <1>1, <1>3, Config DEF KFailures, OldFails
  <2> HIDE DEF G
  <2>3. PICK m \in Nat : m = KFirst(n + 1) /\ m >= 1 /\ m <= n + 1
    BY <1>1, <1>3, Config
  <2>4. ASSUME NEW k  PROVE k \in KFailures(n + 1)' <=> k \in G \/ (k = n + 1 /\ ~b)
    <3>1. k \in m .. n + 1 <=> k \in m .. n \/ k = n + 1
      BY <1>1, <2>3
    <3>2. k \in m .. n => klog'[k] = klog[k]
      BY <1>1, <2>3
    <3> QED BY <1>1, <2>1, <2>2, <2>3, <3>1, <3>2
  <2> QED BY <2>4
<1>8. n + 1 \notin G
  BY <1>1, <1>3 DEF KFailures
<1> HIDE DEF F, G, f
<1>9. CASE b
  BY <1>1, <1>6, <1>7, <1>9 DEF F
<1>10. CASE ~b
  <2>1. Cardinality(G \cup {n + 1}) = Cardinality(G) + 1
    BY <1>6, <1>8, FS_AddElement
  <2> QED BY <1>1, <1>6, <1>7, <1>10, <2>1 DEF F
<1> QED BY <1>9, <1>10

----------------------------------------------------------------------------
(* The steps                                                                *)

(* Steps that record nothing.                                               *)
LEMMA RecordsNothing ==
  ASSUME BreakerInv, kcfg' = kcfg, klog' = klog, kwin' = kwin, kfail' = kfail, kon' = kon
  PROVE  KWindow' /\ KCount' /\ KEnabled'
<1>1. \A i : KFirst(i)' = KFirst(i)
  BY DEF KFirst
<1>2. \A i : KFailures(i)' = KFailures(i)
  BY <1>1 DEF KFailures
<1>3. \A i : KBad(i)' = KBad(i) /\ KGood(i)' = KGood(i)
  BY <1>2 DEF KBad, KGood
<1>4. KOpened' = KOpened
  BY <1>3 DEF KOpened
<1> QED BY <1>1, <1>2, <1>4 DEF BreakerInv, KWindow, KCount, KEnabled

LEMMA RecordRight ==
  ASSUME BreakerInv, NEW t \in KThreads, RecordHealth(t)
  PROVE  KWindow' /\ KCount' /\ KEnabled' /\ klog' \in Seq(BOOLEAN) /\ kwin' \in Seq(BOOLEAN) /\ kon' \in BOOLEAN
<1>1. PICK b \in BOOLEAN : b = kth[t].ok
  BY DEF BreakerInv, KTyped, KShape
<1>2. PICK n \in Nat : n = Len(klog)
  BY DEF BreakerInv, KTyped
<1>3. PICK win : win = IF Len(kwin) = kcfg.window THEN Tail(kwin) ELSE kwin
  OBVIOUS
<1>4. PICK fail : fail = kfail - (IF Len(kwin) = kcfg.window /\ ~Head(kwin) THEN 1 ELSE 0) + (IF b THEN 0 ELSE 1)
  OBVIOUS
<1>5. /\ kwin' = Append(win, b) /\ kfail' = fail /\ klog' = Append(klog, b) /\ kcfg' = kcfg
      /\ kon' = IF kon THEN fail < kcfg.threshold ELSE Len(kwin') = kcfg.window /\ fail = 0
  BY <1>1, <1>3, <1>4 DEF RecordHealth
<1>a. kon \in BOOLEAN
  BY DEF BreakerInv, KTyped
<1>b. /\ kon => kon' = (fail < kcfg.threshold)
      /\ ~kon => kon' = (Len(kwin') = kcfg.window /\ fail = 0)
  BY <1>5
<1>c. /\ kon => (kon' <=> fail < kcfg.threshold)
      /\ ~kon => (kon' <=> Len(kwin') = kcfg.window /\ fail = 0)
  BY <1>b
<1>6. KTyped /\ klog \in Seq(BOOLEAN) /\ kwin \in Seq(BOOLEAN) /\ kcfg.window \in Nat /\ kcfg.window >= 1
      /\ kcfg.threshold \in Nat /\ kcfg.threshold >= 1
  BY Config DEF BreakerInv, KTyped
<1>7. PICK f \in Nat : f = KFirst(n) /\ f >= 1 /\ f <= n + 1
  BY <1>2, <1>6, FirstIs
<1>8. PICK g \in Nat : g = KFirst(n + 1) /\ (g = IF n >= kcfg.window THEN f + 1 ELSE f)
  <2>1. KFirst(n + 1) = IF n >= kcfg.window THEN KFirst(n) + 1 ELSE KFirst(n)
    BY <1>2, <1>6, FirstIs
  <2> QED BY <1>7, <2>1
<1>9. (n >= kcfg.window <=> n - f + 1 = kcfg.window) /\ Len(kwin) = n - f + 1
      /\ \A k \in 1 .. Len(kwin) : kwin[k] = klog[f + k - 1]
  BY <1>2, <1>6, <1>7, FirstIs DEF BreakerInv, KWindow
<1>10. (Len(kwin) = kcfg.window /\ ~Head(kwin)) <=> OldFails(n)
  <2>1. Len(kwin) = kcfg.window => Head(kwin) = klog[f]
    BY <1>6, <1>7, <1>9
  <2> QED BY <1>7, <1>9, <2>1 DEF OldFails
<1>11. Len(klog') = n + 1 /\ fail = Cardinality(KFailures(n + 1)') /\ kfail' = fail
  BY <1>2, <1>4, <1>5, <1>6, <1>10, WindowMoves DEF BreakerInv, KCount
<1>12. KCount'
  BY <1>11 DEF KCount
<1>13. win \in Seq(BOOLEAN) /\ Len(win) = n - g + 1 /\ \A k \in 1 .. Len(win) : win[k] = klog[g + k - 1]
  <2>1. CASE n >= kcfg.window
    <3>1. win = Tail(kwin) /\ g = f + 1 /\ Len(kwin) >= 1
      BY <1>3, <1>6, <1>8, <1>9, <2>1
    <3>2. win \in Seq(BOOLEAN) /\ Len(win) = Len(kwin) - 1 /\ \A k \in 1 .. Len(win) : win[k] = kwin[k + 1]
      BY <1>6, <3>1
    <3>3. ASSUME NEW k \in 1 .. Len(win)  PROVE win[k] = klog[g + k - 1]
      <4>1. k \in Nat /\ k + 1 \in 1 .. Len(kwin) /\ f + (k + 1) - 1 = g + k - 1
        <5>1. PICK l \in Nat : l = Len(kwin) /\ l >= 1
          BY <1>6, <3>1
        <5>2. k \in 1 .. l - 1
          BY <3>2, <5>1
        <5>3. k \in Nat /\ k + 1 \in 1 .. l
          BY <5>1, <5>2
        <5> QED BY <1>7, <3>1, <5>1, <5>3
      <4>2. win[k] = kwin[k + 1] /\ kwin[k + 1] = klog[f + (k + 1) - 1]
        BY <1>9, <3>2, <4>1
      <4> QED BY <4>1, <4>2
    <3>4. Len(win) = n - g + 1
      <4>1. PICK l \in Nat : l = Len(kwin) /\ l = n - f + 1
        BY <1>6, <1>9
      <4>2. Len(win) = l - 1
        BY <3>2, <4>1
      <4>3. l - 1 = n - g + 1
        BY <3>1, <4>1, <1>7
      <4> QED BY <4>2, <4>3
    <3> QED BY <3>2, <3>3, <3>4
  <2>2. CASE ~(n >= kcfg.window)
    <3>1. win = kwin /\ g = f
      BY <1>3, <1>8, <1>9, <2>2
    <3> QED BY <1>6, <1>9, <3>1
  <2> QED BY <2>1, <2>2
<1>14. /\ klog' \in Seq(BOOLEAN) /\ kwin' \in Seq(BOOLEAN) /\ Len(kwin') = n - g + 2
       /\ \A k \in 1 .. Len(win) : kwin'[k] = win[k]
       /\ kwin'[Len(win) + 1] = b /\ klog'[n + 1] = b /\ \A k \in 1 .. n : klog'[k] = klog[k]
  BY <1>2, <1>5, <1>6, <1>13
<1>15. KFirst(n + 1)' = g
  BY <1>5, <1>8 DEF KFirst
<1>16. KWindow'
  <2>1. ASSUME NEW k \in 1 .. Len(kwin')  PROVE kwin'[k] = klog'[g + k - 1]
    <3>1. k \in Nat /\ k >= 1 /\ k <= n - g + 2 /\ g >= 1
      <4>1. PICK l : l = Len(kwin') /\ l = n - g + 2
        BY <1>14
      <4>2. k \in 1 .. l /\ l \in Int
        BY <4>1
      <4>3. g >= 1
        BY <1>7, <1>8
      <4> QED BY <4>1, <4>2, <4>3
    <3>2. CASE k <= n - g + 1
      <4>1. kwin'[k] = klog[g + k - 1]
        BY <1>13, <1>14, <3>1, <3>2
      <4>2. g + k - 1 \in 1 .. n
        BY <3>1, <3>2
      <4> QED BY <1>14, <4>1, <4>2
    <3>3. CASE k = n - g + 2
      BY <1>13, <1>14, <3>1, <3>3
    <3> QED BY <3>1, <3>2, <3>3
  <2>2. PICK m \in Nat : m = n + 1
    OBVIOUS
  <2>3. Len(klog') = m /\ KFirst(m)' = g /\ Len(kwin') = m - g + 1
    <3>1. PICK l : l = Len(kwin') /\ l = n - g + 2
      BY <1>14
    <3>2. l = m - g + 1
      BY <2>2, <3>1
    <3> QED BY <1>11, <1>15, <2>2, <3>1, <3>2
  <2> QED BY <2>1, <2>3 DEF KWindow
<1>17. KBad(n + 1)' <=> fail >= kcfg.threshold
  BY <1>5, <1>11 DEF KBad
<1>18. fail \in Nat /\ (fail = 0 <=> KFailures(n + 1)' = {})
  <2>1. IsFiniteSet(KFailures(n + 1)')
    <3>1. KFailures(n + 1)' \subseteq g .. n + 1
      BY <1>15 DEF KFailures
    <3>2. IsFiniteSet(g .. n + 1)
      BY FS_Interval
    <3> QED BY <3>1, <3>2, FS_Subset
  <2> QED BY <1>11, <2>1, FS_CardinalityType, FS_EmptySet
<1>19. KGood(n + 1)' <=> Len(kwin') = kcfg.window /\ fail = 0
  <2>1. n + 1 >= kcfg.window <=> Len(kwin') = kcfg.window
    <3>1. PICK w \in Nat : w = kcfg.window /\ w >= 1
      BY <1>6
    <3>2. g = IF n + 1 > w THEN n + 1 - w + 1 ELSE 1
      BY <1>8, <3>1 DEF KFirst
    <3>3. PICK l : l = Len(kwin') /\ l = n - g + 2
      BY <1>14
    <3>4. n + 1 >= w <=> l = w
      BY <3>1, <3>2, <3>3
    <3> QED BY <3>1, <3>3, <3>4
  <2> QED BY <1>5, <1>18, <2>1 DEF KGood
<1>20. KEnabled'
  <2>1. \A i \in 1 .. n : KBad(i)' = KBad(i) /\ KGood(i)' = KGood(i)
    BY <1>2, <1>5, <1>6, EarlierStay
  <2>2. KOpened' <=> \/ KBad(n + 1)'
                     \/ KOpened /\ ~KGood(n + 1)'
    <3>1. 1 .. Len(klog') = 1 .. n \cup {n + 1}
      BY <1>11
    <3>2. \A i \in 1 .. n : i + 1 .. Len(klog') = i + 1 .. n \cup {n + 1}
      BY <1>11
    <3>3. n + 1 + 1 .. Len(klog') = {}
      BY <1>11
    <3>4. \A i \in 1 .. n : \A j \in i + 1 .. n : j \in 1 .. n
      OBVIOUS
    <3> DEFINE Old(i) == KBad(i) /\ \A j \in i + 1 .. n : ~KGood(j)
               New(i) == KBad(i)' /\ \A j \in i + 1 .. Len(klog') : ~KGood(j)'
    <3>5. ASSUME NEW i \in 1 .. n  PROVE New(i) <=> Old(i) /\ ~KGood(n + 1)'
      <4>1. \A j \in i + 1 .. n : KGood(j)' = KGood(j)
        BY <2>1, <3>4
      <4>2. \A j : j \in i + 1 .. Len(klog') <=> j \in i + 1 .. n \/ j = n + 1
        BY <3>2
      <4> QED BY <2>1, <4>1, <4>2
    <3>6. New(n + 1) <=> KBad(n + 1)'
      BY <3>3
    <3>7. KOpened' <=> \E i \in 1 .. Len(klog') : New(i)
      BY DEF KOpened
    <3>8. KOpened <=> \E i \in 1 .. n : Old(i)
      BY <1>2 DEF KOpened
    <3> HIDE DEF Old, New
    <3> QED BY <3>1, <3>5, <3>6, <3>7, <3>8
  <2>3. KBad(n + 1)' => ~KGood(n + 1)'
    BY <1>6, <1>17, <1>18, <1>19
  <2>4. (fail < kcfg.threshold) <=> ~KBad(n + 1)'
    BY <1>6, <1>17, <1>18
  <2>5. (kon => (kon' <=> ~KBad(n + 1)')) /\ (~kon => (kon' <=> KGood(n + 1)'))
    BY <1>c, <1>19, <2>4
  <2>6. kon <=> ~KOpened
    BY DEF BreakerInv, KEnabled
  <2> QED BY <2>2, <2>3, <2>5, <2>6 DEF KEnabled
<1>21. kon' \in BOOLEAN
  <2>1. (fail < kcfg.threshold) \in BOOLEAN /\ (Len(kwin') = kcfg.window /\ fail = 0) \in BOOLEAN
    OBVIOUS
  <2>2. CASE kon
    <3>1. kon' = (fail < kcfg.threshold)
      BY <1>b, <2>2
    <3> QED BY <2>1, <3>1, Zenon
  <2>3. CASE ~kon
    <3>1. kon' = (Len(kwin') = kcfg.window /\ fail = 0)
      BY <1>b, <2>3
    <3> QED BY <2>1, <3>1, Zenon
  <2> QED BY <2>2, <2>3
<1> QED BY <1>12, <1>14, <1>16, <1>20, <1>21

(* Workers that still run are kept.                                         *)
LEMMA Kept ==
  ASSUME BreakerInv
  PROVE  /\ DOMAIN KKept(KReaped) = KReaped /\ IsFiniteSet(KReaped)
         /\ Cardinality(KReaped) \in Nat /\ Cardinality(KReaped) <= kcfg.limit
<1>1. KReaped \in SUBSET DOMAIN kwork /\ IsFiniteSet(DOMAIN kwork) /\ Cardinality(DOMAIN kwork) <= kcfg.limit
      /\ kcfg.limit \in Nat
  BY Config DEF KReaped, BreakerInv, KTyped, KWorkers
<1>2. IsFiniteSet(KReaped) /\ Cardinality(KReaped) <= Cardinality(DOMAIN kwork)
  BY <1>1, FS_Subset
<1>3. Cardinality(KReaped) \in Nat /\ Cardinality(DOMAIN kwork) \in Nat
  BY <1>1, <1>2, FS_CardinalityType
<1>4. DOMAIN KKept(KReaped) = KReaped
  BY DEF KKept
<1> QED BY <1>1, <1>2, <1>3, <1>4

LEMMA RunKeeps ==
  ASSUME BreakerInv, NEW t \in KThreads, KRun(t)
  PROVE  BreakerInv'
<1>1. KTyped /\ kcfg' = kcfg /\ klog' = klog /\ kwin' = kwin /\ kfail' = kfail /\ kon' = kon /\ kpc' = kpc
      /\ kpc # "gone"
  BY DEF KRun, BreakerInv
<1>2. KWindow' /\ KCount' /\ KEnabled' /\ KThreads' = KThreads
  BY <1>1, RecordsNothing DEF KThreads
<1>3. DOMAIN kth' = KThreads /\ \A u \in KThreads : KShape(kth'[u])
  <2>1. DOMAIN kth = KThreads /\ \A u \in KThreads : KShape(kth[u])
    BY <1>1 DEF KTyped
  <2>2. CASE kth' = [kth EXCEPT ![t].pc = "record", ![t].ok = FALSE, ![t].left = @ - 1]
    BY <2>1, <2>2 DEF KShape
  <2>3. CASE kth' = [kth EXCEPT ![t].pc = "wait", ![t].w = KFresh, ![t].left = @ - 1]
    BY <2>1, <2>3 DEF KShape
  <2> QED BY <2>2, <2>3 DEF KRun
<1>4. IsFiniteSet(DOMAIN kwork') /\ Cardinality(DOMAIN kwork') <= kcfg.limit
  <2>1. CASE kwork' = KKept(KReaped)
    BY <2>1, Kept
  <2>2. CASE ~(Cardinality(KReaped) >= kcfg.limit) /\ kwork' = [w \in KReaped \cup {KFresh} |-> "run"]
    <3>1. PICK z : z = KFresh
      OBVIOUS
    <3>2. DOMAIN kwork' = KReaped \cup {z}
      BY <2>2, <3>1
    <3>3. /\ IsFiniteSet(KReaped \cup {z})
          /\ Cardinality(KReaped \cup {z}) = IF z \in KReaped THEN Cardinality(KReaped) ELSE Cardinality(KReaped) + 1
      BY Kept, FS_AddElement
    <3> QED BY <1>1, <2>2, <3>2, <3>3, Kept, Config
  <2> QED BY <2>1, <2>2 DEF KRun
<1>5. KTyped'
  BY <1>1, <1>2, <1>3, <1>4 DEF KTyped
<1> QED BY <1>1, <1>2, <1>4, <1>5 DEF BreakerInv, KWorkers, KGone

LEMMA ReturnsKeep ==
  ASSUME BreakerInv, NEW t \in KThreads, KReturns(t) \/ KTimesOut(t)
  PROVE  BreakerInv'
<1>1. KTyped /\ kcfg' = kcfg /\ klog' = klog /\ kwin' = kwin /\ kfail' = kfail /\ kon' = kon /\ kpc' = kpc
      /\ kth[t].pc # "idle"
  BY DEF KReturns, KTimesOut, BreakerInv
<1>2. KWindow' /\ KCount' /\ KEnabled' /\ KThreads' = KThreads
  BY <1>1, RecordsNothing DEF KThreads
<1>3. DOMAIN kth' = KThreads /\ \A u \in KThreads : KShape(kth'[u])
  <2>1. DOMAIN kth = KThreads /\ \A u \in KThreads : KShape(kth[u])
    BY <1>1 DEF KTyped
  <2>2. CASE KReturns(t)
    BY <2>1, <2>2 DEF KShape, KReturns
  <2>3. CASE KTimesOut(t)
    BY <2>1, <2>3 DEF KShape, KTimesOut
  <2> QED BY <2>2, <2>3
<1>4. kwork' = KKept(KReaped) \/ kwork' = kwork
  BY DEF KReturns, KTimesOut
<1>5. IsFiniteSet(DOMAIN kwork') /\ Cardinality(DOMAIN kwork') <= kcfg.limit
  BY <1>4, Kept DEF BreakerInv, KTyped, KWorkers
<1>6. KTyped'
  BY <1>1, <1>2, <1>3, <1>5 DEF KTyped
<1> QED BY <1>1, <1>2, <1>5, <1>6 DEF BreakerInv, KWorkers, KGone

LEMMA RecordKeeps ==
  ASSUME BreakerInv, NEW t \in KThreads, RecordHealth(t)
  PROVE  BreakerInv'
<1>1. KTyped /\ kcfg' = kcfg /\ kwork' = kwork /\ kpc' = kpc /\ kth[t].pc = "record" /\ KThreads' = KThreads
      /\ kth' = [kth EXCEPT ![t].pc = "idle"]
  BY DEF RecordHealth, BreakerInv, KThreads
<1>2. KWindow' /\ KCount' /\ KEnabled' /\ klog' \in Seq(BOOLEAN) /\ kwin' \in Seq(BOOLEAN) /\ kon' \in BOOLEAN
  BY RecordRight
<1>3. DOMAIN kth' = KThreads /\ \A u \in KThreads : KShape(kth'[u])
  <2>1. DOMAIN kth = KThreads /\ \A u \in KThreads : KShape(kth[u])
    BY <1>1 DEF KTyped
  <2> QED BY <1>1, <2>1 DEF KShape
<1>4. KTyped'
  BY <1>1, <1>2, <1>3 DEF KTyped
<1>5. kpc # "gone"
  BY <1>1 DEF BreakerInv, KGone
<1> QED BY <1>1, <1>2, <1>4, <1>5 DEF BreakerInv, KWorkers, KGone

LEMMA CheckEndsKeeps ==
  ASSUME BreakerInv, NEW w \in DOMAIN kwork, KCheckEnds(w)
  PROVE  BreakerInv'
<1>1. KTyped /\ kcfg' = kcfg /\ klog' = klog /\ kwin' = kwin /\ kfail' = kfail /\ kon' = kon /\ kpc' = kpc
  BY DEF KCheckEnds, BreakerInv
<1>2. KWindow' /\ KCount' /\ KEnabled' /\ KThreads' = KThreads
  BY <1>1, RecordsNothing DEF KThreads
<1>3. PICK b \in BOOLEAN :
        /\ kwork' = [kwork EXCEPT ![w] = "done"]
        /\ kth' = [t \in KThreads |-> IF kth[t].pc = "wait" /\ kth[t].w = w
                                      THEN [kth[t] EXCEPT !.pc = "done", !.ok = b] ELSE kth[t]]
  BY DEF KCheckEnds
<1>4. DOMAIN kth' = KThreads /\ DOMAIN kwork' = DOMAIN kwork
  BY <1>3
<1>5. \A u \in KThreads : KShape(kth'[u])
  <2> SUFFICES ASSUME NEW u \in KThreads  PROVE KShape(kth'[u])
    OBVIOUS
  <2>1. KShape(kth[u])
    BY <1>1 DEF KTyped
  <2>2. KShape([kth[u] EXCEPT !.pc = "done", !.ok = b])
    BY <2>1 DEF KShape
  <2> QED BY <1>3, <2>1, <2>2
<1>6. kpc # "gone"
  <2>1. kwork # <<>>
    <3>1. DOMAIN <<>> = {}
      OBVIOUS
    <3> QED BY <3>1
  <2> QED BY <2>1 DEF BreakerInv, KGone
<1>7. KTyped'
  BY <1>1, <1>2, <1>4, <1>5 DEF KTyped
<1> QED BY <1>1, <1>2, <1>4, <1>6, <1>7 DEF BreakerInv, KWorkers, KGone

LEMMA StopKeeps ==
  ASSUME BreakerInv, KStop \/ KDestroyed
  PROVE  BreakerInv'
<1>1. KTyped /\ kcfg' = kcfg /\ klog' = klog /\ kwin' = kwin /\ kfail' = kfail /\ kon' = kon /\ kth' = kth
  BY DEF KStop, KDestroyed, BreakerInv
<1>2. KWindow' /\ KCount' /\ KEnabled' /\ KThreads' = KThreads
  BY <1>1, RecordsNothing DEF KThreads
<1>3. CASE KStop
  <2>1. kwork' = kwork /\ kpc' = "stop"
    BY <1>3 DEF KStop
  <2> QED BY <1>1, <1>2, <2>1 DEF BreakerInv, KTyped, KWorkers, KGone
<1>4. CASE KDestroyed
  <2>1. kwork' = <<>> /\ kpc' = "gone" /\ \A t \in KThreads : kth[t].pc = "idle"
    BY <1>4 DEF KDestroyed
  <2>2. DOMAIN kwork' = {}
    BY <2>1
  <2>3. IsFiniteSet(DOMAIN kwork') /\ Cardinality(DOMAIN kwork') <= kcfg.limit
    BY <1>1, <2>2, FS_EmptySet, Config
  <2> QED BY <1>1, <1>2, <2>1, <2>2, <2>3 DEF BreakerInv, KTyped, KWorkers, KGone
<1> QED BY <1>3, <1>4

LEMMA BreakerStarts ==
  ASSUME BreakerInit
  PROVE  BreakerInv
<1>1. kcfg \in BreakerSetups /\ kwork = <<>> /\ kwin = <<>> /\ kfail = 0 /\ kon = TRUE /\ klog = <<>> /\ kpc = "up"
      /\ kth = [t \in KThreads |-> [pc |-> "idle", w |-> 0, ok |-> FALSE, left |-> kcfg.checks[t]]]
  BY DEF BreakerInit
<1>2. DOMAIN kwork = {} /\ Len(klog) = 0 /\ Len(kwin) = 0
  BY <1>1
<1>3. KTyped
  <2>1. DOMAIN kth = KThreads /\ \A t \in KThreads : KShape(kth[t])
    BY <1>1 DEF KShape
  <2> QED BY <1>1, <1>2, <2>1, FS_EmptySet DEF KTyped
<1>4. KFirst(0) = 1
  BY <1>3, Config DEF KFirst
<1>5. KFailures(0) = {}
  BY <1>4 DEF KFailures
<1>6. KWindow /\ KCount
  BY <1>1, <1>2, <1>4, <1>5, FS_EmptySet DEF KWindow, KCount
<1>7. KEnabled
  <2>1. 1 .. Len(klog) = {}
    BY <1>2
  <2> QED BY <1>1, <2>1 DEF KEnabled, KOpened
<1>8. KWorkers /\ KGone
  BY <1>1, <1>2, <1>3, FS_EmptySet, Config DEF KWorkers, KGone
<1> QED BY <1>3, <1>6, <1>7, <1>8 DEF BreakerInv

(* For every window, threshold, limit and number of threads: the breaker is *)
(* open exactly when some window had too many failures and no later one was *)
(* full of successes, and hung checks stay within their limit.              *)
THEOREM BreakerHolds == BreakerSpec => []BreakerRight
<1>1. BreakerInit => BreakerInv
  BY BreakerStarts
<1>2. BreakerInv /\ [BreakerNext]_kvars => BreakerInv'
  <2> SUFFICES ASSUME BreakerInv, [BreakerNext]_kvars  PROVE BreakerInv'
    OBVIOUS
  <2>1. CASE UNCHANGED kvars
    <3>1. /\ kcfg' = kcfg /\ klog' = klog /\ kwin' = kwin /\ kfail' = kfail /\ kon' = kon /\ kth' = kth
          /\ kwork' = kwork /\ kpc' = kpc
      BY <2>1 DEF kvars
    <3>2. KWindow' /\ KCount' /\ KEnabled' /\ KThreads' = KThreads
      BY <3>1, RecordsNothing DEF KThreads
    <3> QED BY <3>1, <3>2 DEF BreakerInv, KTyped, KWorkers, KGone
  <2>2. CASE BreakerNext
    BY <2>1, <2>2, RunKeeps, ReturnsKeep, RecordKeeps, CheckEndsKeeps, StopKeeps DEF BreakerNext, BreakerDone
  <2> QED BY <2>1, <2>2
<1>3. BreakerInv => BreakerRight
  <2> SUFFICES ASSUME BreakerInv
               PROVE  kwin = SubSeq(klog, KFirst(Len(klog)), Len(klog))
    BY DEF BreakerInv, BreakerRight, KCount, KEnabled, KWorkers, KGone
  <2>1. PICK n \in Nat : n = Len(klog)
    BY DEF BreakerInv, KTyped
  <2>2. PICK f \in Nat : f = KFirst(n) /\ f >= 1 /\ f <= n + 1
    BY <2>1, FirstIs DEF BreakerInv
  <2>3. kwin \in Seq(BOOLEAN) /\ klog \in Seq(BOOLEAN) /\ Len(kwin) = n - f + 1
        /\ \A k \in 1 .. Len(kwin) : kwin[k] = klog[f + k - 1]
    BY <2>1, <2>2 DEF BreakerInv, KTyped, KWindow
  <2>4. SubSeq(klog, f, n) = [k \in 1 .. n - f + 1 |-> klog[f + k - 1]]
    BY <2>1, <2>2, <2>3
  <2>5. kwin = [k \in 1 .. n - f + 1 |-> kwin[k]]
    BY <2>3
  <2> QED BY <2>1, <2>2, <2>3, <2>4, <2>5
<1> QED BY <1>1, <1>2, <1>3, PTL DEF BreakerSpec

----------------------------------------------------------------------------
(* UcmMooncakeStore: the invariant                                          *)

OSeq(s) == Len(s) \in Nat /\ s = [i \in 1..Len(s) |-> s[i]]
OIn(e, s) == \E i \in 1..Len(s) : e = s[i]

OTyped ==
  /\ ocfg \in MooncakeSetups /\ OSeq(oq) /\ oturn \in Nat /\ oturn <= Len(oq) /\ otid \in Nat /\ oflag \in BOOLEAN /\ oclosed \in BOOLEAN
  /\ DOMAIN opc = OClients /\ DOMAIN ofut = OClients /\ DOMAIN oid = OClients /\ DOMAIN oret = OClients
  /\ DOMAIN oknown = OClients /\ DOMAIN odst = OClients /\ DOMAIN oput = OClients
  /\ \A c \in OClients : DOMAIN odst[c] = DOMAIN OKeys(c) /\ oknown[c] \in BOOLEAN
  /\ "c" \in DOMAIN ocur /\ "i" \in DOMAIN ocur /\ ocur.i \in Nat /\ ofaults.struck \in BOOLEAN

(* What has moved: all of a call, or the blocks before the one that is next.*)
OMoved(c, i) == IF OLoads(c) THEN odst[c][i] = OKeys(c)[i] ELSE OKeys(c)[i] \in oput[c]
OAll(c) == \A i \in DOMAIN OKeys(c) : OMoved(c, i)
OPuts == \A c \in OClients : \A k \in oput[c] : \E i \in DOMAIN OKeys(c) : k = OKeys(c)[i]

(* The reasons of a failure.                                                *)
OExcused(c) == ofaults.struck \/ oflag \/ (OLoads(c) /\ ~oknown[c])
OKnown == \A c \in OClients : oknown[c] /\ ~ofaults.struck => \A i \in DOMAIN OKeys(c) : OKeys(c)[i] \in okeys

(* A call that was not posted has left no trace yet.                        *)
OEarly(c) == opc[c] \in {"new", "ask", "call", "post"}
OSilent(c) == OEarly(c) => ofut[c] = "none" /\ ocur.c # c /\ oret[c] = "none" /\ \A e : OIn(e, oq) => e.c # c
OSilence == \A c \in OClients : OSilent(c)

(* Results, of coroutines that have ended and of futures, tell the truth.   *)
OTrue(ret, c) == (ret = "ok" => OAll(c)) /\ (ret \notin {"ok", "none", "pending"} => OExcused(c))
OTold == \A c \in OClients : /\ OTrue(ofut[c], c) /\ OTrue(oret[c], c) /\ oret[c] # "pending"
                             /\ (ofut[c] = "none" => opc[c] \in {"new", "ask", "call", "post", "raised", "miss"})
OSound(e) == /\ e.h = "stop" => oflag
             /\ e.h # "stop" => e.c \in OClients
             /\ e.h = "result" => e.ret \in {"ok", "error"} /\ OTrue(e.ret, e.c)
OHandles == \A e : OIn(e, oq) => OSound(e)
ORunning == ocur.c # 0 => ocur.c \in OClients /\ 1 <= ocur.i /\ \A i \in DOMAIN OKeys(ocur.c) : i < ocur.i => OMoved(ocur.c, i)

(* A task that wait asks for is in the table, unless shutdown emptied it.   *)
OTabled ==
  /\ \A c \in OClients : opc[c] = "pop" => oid[c] \in Nat /\ oid[c] <= otid /\ (oflag \/ oid[c] \in DOMAIN otasks)
  /\ \A c, d \in OClients : opc[c] = "pop" /\ opc[d] = "pop" /\ c # d => oid[c] # oid[d]

(* The loop stops for shutdown only, and closes when nothing runs.          *)
OStops == /\ (oshut # "none" \/ oloop # "run") => oflag
          /\ oloop \in {"stopped", "closed"} => ocur = ONobody
          /\ oclosed => oloop = "closed"

OInv == /\ OTyped /\ OPuts /\ OKnown /\ OSilence /\ OTold /\ OHandles /\ ORunning /\ OTabled /\ OStops

----------------------------------------------------------------------------
(* The queue of the loop                                                    *)

LEMMA OSeqIs ==
  ASSUME NEW S, NEW s \in Seq(S)
  PROVE  OSeq(s)
BY DEF OSeq

LEMMA OAppend ==
  ASSUME NEW s, OSeq(s), NEW x
  PROVE  /\ OSeq(Append(s, x)) /\ Len(Append(s, x)) = Len(s) + 1
         /\ \A e : OIn(e, Append(s, x)) => OIn(e, s) \/ e = x
<1> DEFINE S == {s[i] : i \in 1..Len(s)} \union {x}
<1>1. PICK n \in Nat : n = Len(s)
  BY DEF OSeq
<1>2. \A i \in 1..n : s[i] \in S
  BY <1>1
<1>3. x \in S
  OBVIOUS
<1> HIDE DEF S
<1>4. [i \in 1..n |-> s[i]] \in Seq(S)
  BY <1>2
<1>5. s \in Seq(S)
  BY <1>1, <1>4 DEF OSeq
<1>6. Append(s, x) \in Seq(S) /\ Len(Append(s, x)) = n + 1
  BY <1>1, <1>3, <1>5
<1>7. \A i \in 1..(n + 1) : Append(s, x)[i] = IF i <= n THEN s[i] ELSE x
  BY <1>1, <1>3, <1>5
<1>8. OSeq(Append(s, x))
  BY <1>6, OSeqIs
<1>9. \A e : OIn(e, Append(s, x)) => OIn(e, s) \/ e = x
  BY <1>1, <1>6, <1>7 DEF OIn
<1> QED BY <1>1, <1>6, <1>8, <1>9

LEMMA OTail ==
  ASSUME NEW s, OSeq(s), 0 < Len(s)
  PROVE  /\ OSeq(Tail(s)) /\ Len(Tail(s)) = Len(s) - 1 /\ OIn(Head(s), s)
         /\ \A e : OIn(e, Tail(s)) => OIn(e, s)
<1> DEFINE S == {s[i] : i \in 1..Len(s)}
<1>1. PICK n \in Nat : n = Len(s)
  BY DEF OSeq
<1>2. \A i \in 1..n : s[i] \in S
  BY <1>1
<1> HIDE DEF S
<1>3. [i \in 1..n |-> s[i]] \in Seq(S)
  BY <1>2
<1>4. s \in Seq(S) /\ s # <<>>
  BY <1>1, <1>3 DEF OSeq
<1>5. Tail(s) \in Seq(S) /\ Len(Tail(s)) = n - 1 /\ n >= 1 /\ Head(s) = s[1]
  BY <1>1, <1>4
<1>6. \A i \in 1..(n - 1) : Tail(s)[i] = s[i + 1]
  BY <1>1, <1>4, <1>5
<1>7. OSeq(Tail(s))
  BY <1>5, OSeqIs
<1>8. \A e : OIn(e, Tail(s)) => OIn(e, s)
  <2> SUFFICES ASSUME NEW e, OIn(e, Tail(s))  PROVE OIn(e, s)
    OBVIOUS
  <2>1. PICK i \in 1..(n - 1) : e = Tail(s)[i]
    BY <1>5 DEF OIn
  <2>2. i + 1 \in 1..n /\ e = s[i + 1]
    <3>1. i \in Int /\ 1 <= i /\ i <= n - 1
      BY <2>1
    <3>2. i + 1 \in 1..n
      BY <3>1
    <3> QED BY <1>6, <2>1, <3>2
  <2> QED BY <1>1, <2>2 DEF OIn
<1>9. OIn(Head(s), s)
  BY <1>1, <1>5 DEF OIn
<1> QED BY <1>1, <1>5, <1>7, <1>8, <1>9

LEMMA OKeysAre ==
  ASSUME OInv, NEW c \in OClients
  PROVE  c # 0 /\ Len(OKeys(c)) \in Nat /\ DOMAIN OKeys(c) = 1..Len(OKeys(c))
<1>1. ocfg \in MooncakeSetups /\ c \in DOMAIN ocfg.calls
  BY DEF OInv, OTyped, OClients
<1> QED BY <1>1, MooncakeAssumption, Zenon DEF OKeys

(* A handle is posted, and the first one is taken.                          *)
LEMMA OPosted ==
  ASSUME OInv, NEW x
  PROVE  /\ OSeq(Append(oq, x)) /\ oturn <= Len(Append(oq, x))
         /\ \A e : OIn(e, Append(oq, x)) => OIn(e, oq) \/ e = x
<1>1. OSeq(oq) /\ oturn \in Nat /\ oturn <= Len(oq) /\ Len(oq) \in Nat
  BY DEF OInv, OTyped, OSeq
<1>2. Len(Append(oq, x)) = Len(oq) + 1
  BY <1>1, OAppend
<1> QED BY <1>1, <1>2, OAppend

LEMMA OTaken ==
  ASSUME OInv, 0 < oturn
  PROVE  /\ OSeq(Tail(oq)) /\ oturn - 1 \in Nat /\ oturn - 1 <= Len(Tail(oq)) /\ OIn(Head(oq), oq)
         /\ \A e : OIn(e, Tail(oq)) => OIn(e, oq)
<1>1. OSeq(oq) /\ oturn \in Nat /\ oturn <= Len(oq) /\ Len(oq) \in Nat
  BY DEF OInv, OTyped, OSeq
<1>2. 0 < Len(oq)
  BY <1>1
<1>3. Len(Tail(oq)) = Len(oq) - 1
  BY <1>1, <1>2, OTail
<1> QED BY <1>1, <1>2, <1>3, OTail

(* What was true stays true: blocks stay moved, reasons stay reasons.       *)
LEMMA OLasts ==
  ASSUME ocfg' = ocfg, ofaults.struck => ofaults'.struck, oflag => oflag', oknown' = oknown,
         \A c \in OClients : \A i \in DOMAIN OKeys(c) : OMoved(c, i) => OMoved(c, i)'
  PROVE  /\ OClients' = OClients
         /\ \A ret : \A c \in OClients : OTrue(ret, c) => OTrue(ret, c)'
         /\ \A e : OSound(e) => OSound(e)'
<1>1. OClients' = OClients /\ \A c : OKeys(c)' = OKeys(c) /\ OLoads(c)' = OLoads(c)
  BY DEF OClients, OKeys, OLoads
<1>2. \A c \in OClients : (OAll(c) => OAll(c)') /\ (OExcused(c) => OExcused(c)')
  BY <1>1 DEF OAll, OExcused
<1>3. \A ret : \A c \in OClients : OTrue(ret, c) => OTrue(ret, c)'
  BY <1>2 DEF OTrue
<1> QED BY <1>1, <1>3 DEF OSound

(* A coroutine ends and posts its result, or goes on with the next block.   *)
LEMMA OEnded ==
  ASSUME OInv, NEW c \in OClients, ocur.c = c, NEW ret \in {"ok", "error"}, OTrue(ret, c), OEnds(c, ret),
         UNCHANGED <<ocfg, oturn, oloop, oshuts, ocalls, odata, otasks, ofut, ofaults>>
  PROVE  OInv'
<1>1. /\ UNCHANGED <<ocfg, oturn, oloop, oflag, oshut, otodo, oclosed, opc, otid, oid, oret, oknown>>
      /\ UNCHANGED <<okeys, odst, oput, otasks, ofut, ofaults>> /\ ocur' = ONobody
  BY DEF OEnds, oshuts, ocalls, odata
<1>2. PICK x : x.h = "result" /\ x.c = c /\ x.ret = ret /\ oq' = Append(oq, x)
  BY DEF OEnds
<1>3. OSeq(oq') /\ oturn <= Len(oq') /\ \A e : OIn(e, oq') => OIn(e, oq) \/ e = x
  BY <1>2, OPosted
<1>4. /\ OClients' = OClients /\ (\A e : OSound(e) => OSound(e)')
      /\ \A r : \A d \in OClients : OTrue(r, d) => OTrue(r, d)'
  <2>1. \A d \in OClients : \A i \in DOMAIN OKeys(d) : OMoved(d, i) => OMoved(d, i)'
    BY <1>1 DEF OMoved, OKeys, OLoads
  <2> QED BY <1>1, <2>1, OLasts
<1>5. OTyped' /\ OPuts' /\ OKnown'
  BY <1>1, <1>3 DEF OInv, OTyped, OPuts, OKnown, OClients, OKeys, ONobody
<1>6. OSilence'
  <2>1. ~OEarly(c) /\ \A d \in OClients : OEarly(d)' = OEarly(d) /\ d # 0
    BY <1>1, OKeysAre DEF OInv, OSilence, OSilent, OEarly
  <2> QED BY <1>1, <1>2, <1>3, <1>4, <2>1 DEF OInv, OSilence, OSilent, ONobody
<1>7. OTold' /\ OTabled'
  BY <1>1, <1>4 DEF OInv, OTold, OTabled
<1>8. OHandles'
  <2>1. OSound(x)
    BY <1>2 DEF OSound
  <2> QED BY <1>3, <1>4, <2>1 DEF OInv, OHandles
<1>9. ORunning' /\ OStops'
  BY <1>1 DEF OInv, ORunning, OStops, ONobody
<1> QED BY <1>5, <1>6, <1>7, <1>8, <1>9 DEF OInv

LEMMA OMovesOn ==
  ASSUME OInv, NEW c \in OClients, ocur.c = c, ocur' = [ocur EXCEPT !.i = @ + 1], oq' = oq,
         \A d \in OClients : \A i \in DOMAIN OKeys(d) : OMoved(d, i) => OMoved(d, i)',
         \A i \in DOMAIN OKeys(c) : i = ocur.i => OMoved(c, i)',
         DOMAIN odst' = OClients, DOMAIN oput' = OClients, \A d \in OClients : DOMAIN odst'[d] = DOMAIN OKeys(d),
         OPuts', okeys \subseteq okeys',
         UNCHANGED <<ocfg, oturn, oloop, oshuts, ocalls, otasks, ofut, ofaults>>
  PROVE  OInv'
<1>1. /\ UNCHANGED <<ocfg, oturn, oloop, oflag, oshut, otodo, oclosed, opc, otid, oid, oret, oknown>>
      /\ UNCHANGED <<otasks, ofut, ofaults>>
  BY DEF oshuts, ocalls
<1>2. ocur'.c = c /\ ocur'.i = ocur.i + 1 /\ ocur.i \in Nat /\ "c" \in DOMAIN ocur' /\ "i" \in DOMAIN ocur'
  BY DEF OInv, OTyped
<1>3. /\ OClients' = OClients /\ (\A e : OSound(e) => OSound(e)')
      /\ \A r : \A d \in OClients : OTrue(r, d) => OTrue(r, d)'
  BY <1>1, OLasts
<1>4. OTyped' /\ OKnown'
  BY <1>1, <1>2 DEF OInv, OTyped, OKnown, OClients, OKeys
<1>5. OSilence'
  BY <1>1, <1>2, <1>3 DEF OInv, OSilence, OSilent, OEarly
<1>6. OTold' /\ OTabled' /\ OHandles'
  BY <1>1, <1>3 DEF OInv, OTold, OTabled, OHandles
<1>7. ORunning'
  <2>1. OKeys(ocur.c)' = OKeys(c) /\ DOMAIN OKeys(c) = 1..Len(OKeys(c)) /\ Len(OKeys(c)) \in Nat /\ c # 0
    BY <1>1, <1>2, OKeysAre DEF OKeys
  <2>2. ASSUME NEW i \in DOMAIN OKeys(c), i < ocur.i + 1  PROVE OMoved(c, i)'
    <3>1. CASE i < ocur.i
      BY <2>1, <3>1 DEF OInv, ORunning
    <3>2. CASE i = ocur.i
      BY <3>2
    <3> QED BY <1>2, <2>1, <2>2, <3>1, <3>2
  <2>3. \A i \in DOMAIN OKeys(c) : i < ocur.i + 1 => OMoved(ocur.c, i)'
    BY <1>2, <2>2 DEF OMoved, OKeys, OLoads
  <2>4. 1 <= ocur'.i
    BY <1>2
  <2> QED BY <1>2, <1>3, <2>1, <2>3, <2>4 DEF ORunning
<1>8. OStops'
  <2>1. ocur # ONobody
    BY OKeysAre DEF ONobody
  <2> QED BY <1>1, <2>1 DEF OInv, OStops
<1> QED BY <1>4, <1>5, <1>6, <1>7, <1>8 DEF OInv

----------------------------------------------------------------------------
(* The calls of clients                                                     *)

LEMMA OLookupKeeps ==
  ASSUME OInv, NEW c \in OClients, OLookup(c) \/ OAsk(c)
  PROVE  OInv'
<1>1. PICK v \in {"raised", "ask", "miss", "call"} :
         /\ opc[c] \in {"new", "ask"} /\ opc' = [opc EXCEPT ![c] = v]
         /\ UNCHANGED <<ocfg, oloops, oshuts, otid, oid, oret, oknown, odata, otasks, ofut, ofaults>>
  BY DEF OLookup, OAsk
<1>2. OTyped' /\ OPuts' /\ OKnown'
  BY <1>1 DEF OInv, OTyped, OClients, OKeys, OPuts, OKnown, oloops, oshuts, ocalls, odata
<1>3. OSilence' /\ OTabled' /\ OStops'
  BY <1>1 DEF OInv, OSilence, OSilent, OEarly, OClients, OTabled, OStops, ONobody, oloops, oshuts, ocalls, odata
<1>4. OTold' /\ OHandles' /\ ORunning'
  BY <1>1 DEF OInv, OTold, OTrue, OAll, OMoved, OExcused, OClients, OKeys, OLoads, OHandles, OSound, ORunning,
              oloops, oshuts, ocalls, odata
<1> QED BY <1>2, <1>3, <1>4 DEF OInv

LEMMA OCallKeeps ==
  ASSUME OInv, NEW c \in OClients, OCall(c)
  PROVE  OInv'
<1>a. /\ ofut[c] = "none" /\ oret[c] = "none" /\ \A e : OIn(e, oq) => e.c # c
  BY DEF OInv, OSilence, OSilent, OEarly, OCall
<1>b. \A d \in OClients : d # c => OExcused(d)' = OExcused(d) /\ OAll(d)' = OAll(d)
  BY DEF OInv, OTyped, OCall, OExcused, OAll, OMoved, OKeys, OLoads, oshuts, odata
<1>c. OClients' = OClients
  BY DEF OCall, OClients
<1>1. OTyped' /\ OPuts'
  BY DEF OInv, OTyped, OClients, OKeys, OPuts, OCall, oloops, oshuts, ocalls, odata
<1>2. OKnown'
  <2>1. /\ ocfg' = ocfg /\ okeys' = okeys /\ ofaults' = ofaults /\ DOMAIN oknown = OClients
        /\ oknown' = [oknown EXCEPT ![c] = Range(OKeys(c)) \subseteq okeys]
    BY DEF OInv, OTyped, OCall, odata
  <2>2. Range(OKeys(c)) \subseteq okeys => \A i \in DOMAIN OKeys(c) : OKeys(c)[i] \in okeys
    BY DEF Range
  <2>3. ASSUME NEW d \in OClients, oknown'[d], ~ofaults.struck  PROVE \A i \in DOMAIN OKeys(d) : OKeys(d)[i] \in okeys
    <3>1. CASE d = c
      BY <2>1, <2>2, <2>3, <3>1
    <3>2. CASE d # c
      BY <2>1, <2>3, <3>2 DEF OInv, OKnown
    <3> QED BY <3>1, <3>2
  <2> QED BY <2>1, <2>3 DEF OKnown, OClients, OKeys
<1>3. OSilence' /\ OTabled' /\ OStops'
  BY DEF OInv, OSilence, OSilent, OEarly, OClients, OTabled, OStops, ONobody, OCall, oloops, oshuts,
         ocalls, odata
<1>4. ORunning'
  BY DEF OInv, ORunning, OMoved, OClients, OKeys, OLoads, OCall, oloops, oshuts, ocalls, odata
<1>5. OTold'
  BY <1>a, <1>b, <1>c DEF OInv, OTyped, OTold, OTrue, OCall, ocalls
<1>6. OHandles'
  BY <1>a, <1>b, <1>c DEF OInv, OHandles, OSound, OTrue, OCall, oloops, oshuts
<1> QED BY <1>1, <1>2, <1>3, <1>4, <1>5, <1>6 DEF OInv

LEMMA OPostKeeps ==
  ASSUME OInv, NEW c \in OClients, OPost(c)
  PROVE  OInv'
<1>p. CASE oloop = "closed"
  <2>1. /\ opc' = [opc EXCEPT ![c] = "raised"] /\ opc[c] = "post"
        /\ UNCHANGED <<ocfg, oq, ofut, oturn, ocur, oloop, oflag, oshut, otodo, oclosed, otid, oid, oret, oknown>>
        /\ UNCHANGED <<okeys, odst, oput, otasks, ofaults>>
    BY <1>p DEF OPost, oshuts, odata
  <2>2. OTyped' /\ OPuts' /\ OKnown' /\ ORunning' /\ OStops'
    BY <2>1 DEF OInv, OTyped, OPuts, OKnown, ORunning, OMoved, OStops, OClients, OKeys, OLoads
  <2>3. OSilence' /\ OTabled'
    BY <2>1 DEF OInv, OTyped, OSilence, OSilent, OEarly, OTabled, OClients
  <2>4. OTold' /\ OHandles'
    BY <2>1 DEF OInv, OTyped, OTold, OHandles, OSound, OTrue, OAll, OMoved, OExcused, OClients, OKeys, OLoads
  <2> QED BY <2>2, <2>3, <2>4 DEF OInv
<1>q. CASE oloop # "closed"
  <2> DEFINE x == OHandle("start", c)
  <2>1. /\ opc' = [opc EXCEPT ![c] = "register"] /\ opc[c] = "post"
        /\ ofut' = [ofut EXCEPT ![c] = "pending"] /\ oq' = Append(oq, x)
        /\ UNCHANGED <<ocfg, oturn, ocur, oloop, oflag, oshut, otodo, oclosed, otid, oid, oret, oknown>>
        /\ UNCHANGED <<okeys, odst, oput, otasks, ofaults>>
    BY <1>q DEF OPost, oshuts, odata
  <2>2. x.h = "start" /\ x.c = c
    BY DEF OHandle
  <2> HIDE DEF x
  <2>3. OSeq(oq') /\ oturn <= Len(oq') /\ \A e : OIn(e, oq') => OIn(e, oq) \/ e = x
    BY <2>1, OPosted
  <2>4. OTyped' /\ OPuts' /\ OKnown' /\ ORunning' /\ OStops'
    BY <2>1, <2>3 DEF OInv, OTyped, OPuts, OKnown, ORunning, OMoved, OStops, OClients, OKeys, OLoads
  <2>5. OSilence' /\ OTabled'
    BY <2>1, <2>2, <2>3 DEF OInv, OTyped, OSilence, OSilent, OEarly, OTabled, OClients
  <2>6. OTold'
    BY <2>1 DEF OInv, OTyped, OTold, OTrue, OAll, OMoved, OExcused, OClients, OKeys, OLoads
  <2>7. OHandles'
    BY <2>1, <2>2, <2>3 DEF OInv, OHandles, OSound, OTrue, OAll, OMoved, OExcused, OClients, OKeys, OLoads
  <2> QED BY <2>4, <2>5, <2>6, <2>7 DEF OInv
<1> QED BY <1>p, <1>q

LEMMA ORegisterKeeps ==
  ASSUME OInv, NEW c \in OClients, ORegister(c)
  PROVE  OInv'
<1>1. OTyped' /\ OPuts' /\ OKnown'
  BY DEF OInv, OTyped, OClients, OKeys, OPuts, OKnown, ORegister, oloops, oshuts, ocalls, odata
<1>2. OSilence' /\ OStops'
  BY DEF OInv, OSilence, OSilent, OEarly, OClients, OStops, ONobody, ORegister, oloops, oshuts, ocalls,
         odata
<1>3. OTabled'
  <2>1. /\ opc' = [opc EXCEPT ![c] = "pop"] /\ otid' = otid + 1 /\ oid' = [oid EXCEPT ![c] = otid'] /\ oflag' = oflag
        /\ DOMAIN otasks' = DOMAIN otasks \union {otid'} /\ OClients' = OClients
    BY DEF ORegister, oshuts, OClients
  <2>2. otid \in Nat /\ DOMAIN opc = OClients /\ DOMAIN oid = OClients /\ OTabled
    BY DEF OInv, OTyped
  <2>3. oid'[c] = otid + 1 /\ opc'[c] = "pop" /\ \A d \in OClients : d # c => oid'[d] = oid[d] /\ opc'[d] = opc[d]
    BY <2>1, <2>2
  <2>4. \A d \in OClients : d # c /\ opc[d] = "pop" => oid[d] \in Nat /\ oid[d] <= otid
    BY <2>2 DEF OTabled
  <2>5. \A d \in OClients : opc'[d] = "pop" => oid'[d] \in Nat /\ oid'[d] <= otid' /\ (oflag' \/ oid'[d] \in DOMAIN otasks')
    <3>1. ASSUME NEW d \in OClients, opc'[d] = "pop", d # c
          PROVE  oid'[d] \in Nat /\ oid'[d] <= otid' /\ (oflag' \/ oid'[d] \in DOMAIN otasks')
      BY <2>1, <2>2, <2>3, <3>1 DEF OTabled
    <3> QED BY <2>1, <2>2, <2>3, <3>1
  <2>6. \A d, e \in OClients : opc'[d] = "pop" /\ opc'[e] = "pop" /\ d # e => oid'[d] # oid'[e]
    <3>1. ASSUME NEW d \in OClients, NEW e \in OClients, opc'[d] = "pop", opc'[e] = "pop", d # e  PROVE oid'[d] # oid'[e]
      <4>1. CASE d = c
        BY <2>2, <2>3, <2>4, <3>1, <4>1
      <4>2. CASE e = c
        BY <2>2, <2>3, <2>4, <3>1, <4>2
      <4>3. CASE d # c /\ e # c
        BY <2>2, <2>3, <3>1, <4>3 DEF OTabled
      <4> QED BY <4>1, <4>2, <4>3
    <3> QED BY <3>1
  <2> QED BY <2>1, <2>5, <2>6 DEF OTabled
<1>4. OTold' /\ OHandles' /\ ORunning'
  BY DEF OInv, OTold, OTrue, OAll, OMoved, OExcused, OClients, OKeys, OLoads, OHandles, OSound, ORunning,
         ORegister, oloops, oshuts, ocalls, odata
<1> QED BY <1>1, <1>2, <1>3, <1>4 DEF OInv

LEMMA OWaitPopKeeps ==
  ASSUME OInv, NEW c \in OClients, OWaitPop(c)
  PROVE  OInv'
<1>a. /\ opc[c] = "pop" /\ DOMAIN opc = OClients /\ DOMAIN oret = OClients /\ OClients' = OClients /\ OTold /\ OTabled
      /\ UNCHANGED <<ocfg, oq, ocur, oid, otid, ofut, oflag, ofaults, oknown, odst, oput>>
  BY DEF OInv, OTyped, OWaitPop, oloops, oshuts, odata, OClients
<1>b. \/ opc' = [opc EXCEPT ![c] = "wait"] /\ oret' = oret /\ DOMAIN otasks' = DOMAIN otasks \ {oid[c]}
      \/ opc' = [opc EXCEPT ![c] = "done"] /\ oret' = [oret EXCEPT ![c] = "invalid"] /\ otasks' = otasks /\ oflag
  <2>1. oflag \/ oid[c] \in DOMAIN otasks
    BY <1>a DEF OTabled
  <2> QED BY <2>1 DEF OWaitPop
<1>c. opc'[c] \in {"wait", "done"} /\ \A d \in OClients : d # c => opc'[d] = opc[d] /\ oret'[d] = oret[d]
  BY <1>a, <1>b
<1>1. OTyped' /\ OPuts' /\ OKnown'
  BY DEF OInv, OTyped, OClients, OKeys, OPuts, OKnown, OWaitPop, oloops, oshuts, ocalls, odata
<1>2. OStops'
  BY DEF OInv, OStops, ONobody, OWaitPop, oloops, oshuts, ocalls, odata
<1>3. OSilence'
  BY <1>a, <1>c DEF OInv, OSilence, OSilent, OEarly
<1>4. OTabled'
  <2>1. \A d \in OClients : opc'[d] = "pop" => d # c /\ opc[d] = "pop" /\ oid[d] # oid[c]
    BY <1>a, <1>c DEF OTabled
  <2>2. \A d \in OClients : opc'[d] = "pop" => (oflag \/ oid[d] \in DOMAIN otasks')
    BY <1>a, <1>b, <2>1 DEF OTabled
  <2> QED BY <1>a, <2>1, <2>2 DEF OTabled
<1>5. OHandles' /\ ORunning'
  BY DEF OInv, OHandles, OSound, OTrue, OAll, OMoved, OExcused, OClients, OKeys, OLoads, ORunning,
         OWaitPop, oloops, oshuts, ocalls, odata
<1>6. OTold'
  <2>1. \A d : (\A ret : OTrue(ret, d)' = OTrue(ret, d)) /\ OExcused(d)' = OExcused(d)
    BY <1>a DEF OTrue, OAll, OMoved, OExcused, OKeys, OLoads
  <2>2. OTrue(oret[c], c)' /\ oret'[c] # "pending"
    <3>1. CASE oret' = oret
      BY <1>a, <2>1, <3>1 DEF OTold
    <3>2. CASE oret' = [oret EXCEPT ![c] = "invalid"] /\ oflag
      BY <1>a, <3>2 DEF OTrue, OExcused
    <3> QED BY <1>b, <3>1, <3>2
  <2>3. ofut[c] # "none"
    BY <1>a DEF OTold
  <2> QED BY <1>a, <1>c, <2>1, <2>2, <2>3 DEF OTold
<1> QED BY <1>1, <1>2, <1>3, <1>4, <1>5, <1>6 DEF OInv

LEMMA OWaitReturnsKeeps ==
  ASSUME OInv, NEW c \in OClients, OWaitReturns(c)
  PROVE  OInv'
<1>1. OTyped' /\ OPuts' /\ OKnown'
  BY DEF OInv, OTyped, OClients, OKeys, OPuts, OKnown, OWaitReturns, OWaited, oloops, oshuts, ocalls, odata
<1>2. OSilence' /\ OTabled' /\ OStops'
  BY DEF OInv, OSilence, OSilent, OEarly, OClients, OTabled, OStops, ONobody, OWaitReturns, OWaited,
         oloops, oshuts, ocalls, odata
<1>3. OTold' /\ OHandles' /\ ORunning'
  BY DEF OInv, OTold, OTrue, OAll, OMoved, OExcused, OClients, OKeys, OLoads, OHandles, OSound, ORunning,
         OWaitReturns, OWaited, oloops, oshuts, ocalls, odata
<1> QED BY <1>1, <1>2, <1>3 DEF OInv

LEMMA OWaitTimesOutKeeps ==
  ASSUME OInv, NEW c \in OClients, OWaitTimesOut(c)
  PROVE  OInv'
<1>1. OTyped' /\ OPuts' /\ OKnown'
  BY DEF OInv, OTyped, OClients, OKeys, OPuts, OKnown, OWaitTimesOut, oloops, oshuts, ocalls, odata
<1>2. OSilence' /\ OTabled' /\ OStops'
  BY DEF OInv, OSilence, OSilent, OEarly, OClients, OTabled, OStops, ONobody, OWaitTimesOut, oloops,
         oshuts, ocalls, odata
<1>3. OHandles' /\ ORunning'
  BY DEF OInv, OHandles, OSound, OTrue, OAll, OMoved, OExcused, OClients, OKeys, OLoads, ORunning,
         OWaitTimesOut, oloops, oshuts, ocalls, odata
<1>4. OTold'
  <2>1. /\ opc[c] = "wait" /\ ofut' = [ofut EXCEPT ![c] = "cancelled"] /\ oret' = [oret EXCEPT ![c] = "timeout"]
        /\ opc' = [opc EXCEPT ![c] = "done"] /\ UNCHANGED <<ocfg, oflag, oknown, odst, oput>>
        /\ DOMAIN opc = OClients /\ DOMAIN ofut = OClients /\ DOMAIN oret = OClients /\ OClients' = OClients /\ OTold
    BY DEF OInv, OTyped, OWaitTimesOut, oshuts, odata, OClients
  <2>2. ofaults'.struck \/ (oflag /\ ofaults' = ofaults)
    BY DEF OInv, OStops, OWaitTimesOut
  <2>3. (ofaults.struck => ofaults'.struck) /\ (oflag => oflag')
    BY <2>1, <2>2
  <2>4. \A ret : \A d \in OClients : OTrue(ret, d) => OTrue(ret, d)'
    <3>1. \A d \in OClients : \A i \in DOMAIN OKeys(d) : OMoved(d, i) => OMoved(d, i)'
      BY <2>1 DEF OMoved, OKeys, OLoads
    <3> QED BY <2>1, <2>3, <3>1, OLasts
  <2>5. OTrue(ofut[c], c)' /\ OTrue(oret[c], c)'
    BY <2>1, <2>2 DEF OTrue, OExcused
  <2> QED BY <2>1, <2>4, <2>5 DEF OTold
<1> QED BY <1>1, <1>2, <1>3, <1>4 DEF OInv

----------------------------------------------------------------------------
(* The turns of the loop                                                    *)

LEMMA OLoopTurnKeeps ==
  ASSUME OInv, OLoopTurn
  PROVE  OInv'
<1>1. OTyped' /\ OPuts' /\ OKnown'
  BY DEF OInv, OTyped, OClients, OKeys, OPuts, OKnown, OLoopTurn, oloops, oshuts, ocalls, odata
<1>2. OSilence' /\ OTabled' /\ OStops'
  BY DEF OInv, OSilence, OSilent, OEarly, OClients, OTabled, OStops, ONobody, OLoopTurn, oloops, oshuts,
         ocalls, odata
<1>3. OTold' /\ OHandles' /\ ORunning'
  BY DEF OInv, OTold, OTrue, OAll, OMoved, OExcused, OClients, OKeys, OLoads, OHandles, OSound, ORunning,
         OLoopTurn, oloops, oshuts, ocalls, odata
<1> QED BY <1>1, <1>2, <1>3 DEF OInv

LEMMA OLoopStartKeeps ==
  ASSUME OInv, OLoopStart
  PROVE  OInv'
<1>a. /\ 0 < oturn /\ oturn' = oturn - 1 /\ ocur = ONobody /\ Head(oq).h = "start" /\ oloop \in {"run", "stopping"}
      /\ UNCHANGED <<ocfg, opc, otid, oid, oret, oknown, okeys, odst, oput, otasks, ofaults, oflag, oshut, oclosed>>
  BY DEF OInv, OTyped, OLoopStart, OReady, oshuts, ocalls, odata
<1>b. /\ OSeq(Tail(oq)) /\ oturn' \in Nat /\ oturn' <= Len(Tail(oq)) /\ OIn(Head(oq), oq)
      /\ \A e : OIn(e, Tail(oq)) => OIn(e, oq)
  BY <1>a, OTaken
<1>c. OSound(Head(oq))
  BY <1>b DEF OInv, OHandles
<1>d. /\ OClients' = OClients /\ (\A e : OSound(e) => OSound(e)')
      /\ \A ret : \A d \in OClients : OTrue(ret, d) => OTrue(ret, d)'
  <2>1. \A d \in OClients : \A i \in DOMAIN OKeys(d) : OMoved(d, i) => OMoved(d, i)'
    BY <1>a DEF OMoved, OKeys, OLoads
  <2> QED BY <1>a, <2>1, OLasts
<1>x. PICK x : x = OHandle("step", Head(oq).c)
  OBVIOUS
<1>e. x.h = "step" /\ x.c = Head(oq).c
  BY <1>x DEF OHandle
<1>f. oq' = Append(Tail(oq), x) /\ UNCHANGED <<ocur, ofut>>
  BY <1>x DEF OLoopStart
<1>g. OSeq(oq') /\ oturn' <= Len(oq') /\ \A e : OIn(e, oq') => OIn(e, oq) \/ e = x
  <2>1. Len(oq') = Len(Tail(oq)) + 1 /\ Len(Tail(oq)) \in Nat
    BY <1>b, <1>f, OAppend DEF OSeq
  <2> QED BY <1>b, <1>f, <2>1, OAppend
<1>1. OPuts' /\ OKnown'
  BY DEF OInv, OPuts, OClients, OKeys, OKnown, OLoopStart, OReady, oloops, oshuts, ocalls, odata
<1>2. OTyped'
  BY <1>a, <1>b, <1>f, <1>g DEF OInv, OTyped, OClients, OKeys
<1>3. OTabled' /\ OStops'
  BY DEF OInv, OTabled, OClients, OStops, ONobody, OLoopStart, OReady, oloops, oshuts, ocalls, odata
<1>4. OSilence'
  BY <1>a, <1>b, <1>d, <1>e, <1>f, <1>g DEF OInv, OSilence, OSilent, OEarly
<1>5. OTold' /\ ORunning'
  BY DEF OInv, OTold, OTrue, OAll, OMoved, OExcused, OClients, OKeys, OLoads, ORunning, OLoopStart, OReady,
         oloops, oshuts, ocalls, odata
<1>6. OHandles'
  <2>1. OSound(x)'
    BY <1>a, <1>c, <1>d, <1>e DEF OSound
  <2> QED BY <1>d, <1>g, <2>1 DEF OInv, OHandles
<1> QED BY <1>1, <1>2, <1>3, <1>4, <1>5, <1>6 DEF OInv

LEMMA OLoopStepKeeps ==
  ASSUME OInv, OLoopStep
  PROVE  OInv'
<1>a. /\ 0 < oturn /\ oturn' = oturn - 1 /\ ocur = ONobody /\ Head(oq).h = "step" /\ oloop \in {"run", "stopping"}
      /\ UNCHANGED <<ocfg, opc, otid, oid, oret, oknown, okeys, odst, oput, otasks, ofaults, oflag, oshut, oclosed>>
  BY DEF OInv, OTyped, OLoopStep, OReady, oshuts, ocalls, odata
<1>b. /\ OSeq(Tail(oq)) /\ oturn' \in Nat /\ oturn' <= Len(Tail(oq)) /\ OIn(Head(oq), oq)
      /\ \A e : OIn(e, Tail(oq)) => OIn(e, oq)
  BY <1>a, OTaken
<1>c. OSound(Head(oq))
  BY <1>b DEF OInv, OHandles
<1>d. /\ OClients' = OClients /\ (\A e : OSound(e) => OSound(e)')
      /\ \A ret : \A d \in OClients : OTrue(ret, d) => OTrue(ret, d)'
  <2>1. \A d \in OClients : \A i \in DOMAIN OKeys(d) : OMoved(d, i) => OMoved(d, i)'
    BY <1>a DEF OMoved, OKeys, OLoads
  <2> QED BY <1>a, <2>1, OLasts
<1>e. oq' = Tail(oq) /\ ocur' = [c |-> Head(oq).c, i |-> 1] /\ ofut' = ofut
  BY DEF OLoopStep
<1>1. OPuts' /\ OKnown'
  BY DEF OInv, OPuts, OClients, OKeys, OKnown, OLoopStep, OReady, oloops, oshuts, ocalls, odata
<1>2. OTyped'
  BY <1>a, <1>b, <1>e DEF OInv, OTyped, OClients, OKeys
<1>3. OTabled' /\ OStops'
  BY DEF OInv, OTabled, OClients, OStops, ONobody, OLoopStep, OReady, oloops, oshuts, ocalls, odata
<1>4. OSilence'
  BY <1>a, <1>b, <1>c, <1>d, <1>e DEF OInv, OTyped, OSilence, OSilent, OEarly, OSound
<1>5. OTold'
  BY DEF OInv, OTold, OTrue, OAll, OMoved, OExcused, OClients, OKeys, OLoads, OLoopStep, OReady, oloops,
         oshuts, ocalls, odata
<1>6. OHandles'
  BY <1>b, <1>d, <1>e DEF OInv, OHandles
<1>7. ORunning'
  <2>1. ocur'.c = Head(oq).c /\ ocur'.i = 1 /\ Head(oq).c \in OClients
    BY <1>a, <1>c, <1>e DEF OSound
  <2>2. PICK c \in OClients : c = Head(oq).c
    BY <2>1
  <2>3. \A i \in DOMAIN OKeys(c) : ~(i < 1)
    BY OKeysAre
  <2>4. OKeys(ocur.c)' = OKeys(c)
    BY <1>a, <2>1, <2>2 DEF OKeys
  <2> QED BY <1>d, <2>1, <2>2, <2>3, <2>4 DEF ORunning
<1> QED BY <1>1, <1>2, <1>3, <1>4, <1>5, <1>6, <1>7 DEF OInv

LEMMA OLoopResultKeeps ==
  ASSUME OInv, OLoopResult
  PROVE  OInv'
<1>a. /\ 0 < oturn /\ oturn' = oturn - 1 /\ ocur = ONobody /\ Head(oq).h = "result" /\ oloop \in {"run", "stopping"}
      /\ UNCHANGED <<ocfg, opc, otid, oid, oret, oknown, okeys, odst, oput, otasks, ofaults, oflag, oshut, oclosed>>
  BY DEF OInv, OTyped, OLoopResult, OReady, oshuts, ocalls, odata
<1>b. /\ OSeq(Tail(oq)) /\ oturn' \in Nat /\ oturn' <= Len(Tail(oq)) /\ OIn(Head(oq), oq)
      /\ \A e : OIn(e, Tail(oq)) => OIn(e, oq)
  BY <1>a, OTaken
<1>c. OSound(Head(oq))
  BY <1>b DEF OInv, OHandles
<1>d. /\ OClients' = OClients /\ (\A e : OSound(e) => OSound(e)')
      /\ \A ret : \A d \in OClients : OTrue(ret, d) => OTrue(ret, d)'
  <2>1. \A d \in OClients : \A i \in DOMAIN OKeys(d) : OMoved(d, i) => OMoved(d, i)'
    BY <1>a DEF OMoved, OKeys, OLoads
  <2> QED BY <1>a, <2>1, OLasts
<1>e. oq' = Tail(oq) /\ ocur' = ocur
  BY DEF OLoopResult
<1>f. /\ Head(oq).c \in OClients /\ Head(oq).ret \in {"ok", "error"} /\ OTrue(Head(oq).ret, Head(oq).c)
      /\ DOMAIN ofut' = OClients
      /\ \A d \in OClients : ofut'[d] = ofut[d] \/ (ofut[d] = "pending" /\ d = Head(oq).c /\ ofut'[d] = Head(oq).ret)
  BY <1>a, <1>c DEF OInv, OTyped, OSound, OLoopResult
<1>1. OPuts' /\ OKnown'
  BY DEF OInv, OPuts, OClients, OKeys, OKnown, OLoopResult, OReady, oloops, oshuts, ocalls, odata
<1>2. OTyped'
  BY <1>a, <1>b, <1>e, <1>f DEF OInv, OTyped, OClients, OKeys
<1>3. OTabled' /\ OStops'
  BY DEF OInv, OTabled, OClients, OStops, ONobody, OLoopResult, OReady, oloops, oshuts, ocalls, odata
<1>4. OSilence'
  BY <1>a, <1>b, <1>d, <1>e, <1>f DEF OInv, OSilence, OSilent, OEarly
<1>5. ORunning'
  BY DEF OInv, ORunning, OMoved, OClients, OKeys, OLoads, OLoopResult, OReady, oloops, oshuts, ocalls, odata
<1>6. OTold'
  <2>1. \A d \in OClients : OTrue(ofut'[d], d) /\ (ofut'[d] = "none" => ofut[d] = "none")
    BY <1>f DEF OInv, OTold
  <2>2. \A d \in OClients : OTrue(ofut[d], d)' /\ OTrue(oret[d], d)'
    BY <1>a, <1>d, <2>1 DEF OInv, OTold
  <2> QED BY <1>a, <1>d, <2>1, <2>2 DEF OInv, OTold
<1>7. OHandles'
  BY <1>b, <1>d, <1>e DEF OInv, OHandles
<1> QED BY <1>1, <1>2, <1>3, <1>4, <1>5, <1>6, <1>7 DEF OInv

LEMMA OLoopStopKeeps ==
  ASSUME OInv, OLoopStop
  PROVE  OInv'
<1>a. /\ 0 < oturn /\ oturn' = oturn - 1 /\ ocur = ONobody /\ Head(oq).h = "stop" /\ oloop \in {"run", "stopping"}
      /\ UNCHANGED <<ocfg, opc, otid, oid, oret, oknown, okeys, odst, oput, otasks, ofaults, oflag, oshut, oclosed>>
  BY DEF OInv, OTyped, OLoopStop, OReady, oshuts, ocalls, odata
<1>b. /\ OSeq(Tail(oq)) /\ oturn' \in Nat /\ oturn' <= Len(Tail(oq)) /\ OIn(Head(oq), oq)
      /\ \A e : OIn(e, Tail(oq)) => OIn(e, oq)
  BY <1>a, OTaken
<1>c. OSound(Head(oq))
  BY <1>b DEF OInv, OHandles
<1>d. /\ OClients' = OClients /\ (\A e : OSound(e) => OSound(e)')
      /\ \A ret : \A d \in OClients : OTrue(ret, d) => OTrue(ret, d)'
  <2>1. \A d \in OClients : \A i \in DOMAIN OKeys(d) : OMoved(d, i) => OMoved(d, i)'
    BY <1>a DEF OMoved, OKeys, OLoads
  <2> QED BY <1>a, <2>1, OLasts
<1>e. oq' = Tail(oq) /\ ocur' = ocur /\ ofut' = ofut /\ oloop' = "stopping"
  BY DEF OLoopStop
<1>1. OPuts' /\ OKnown'
  BY DEF OInv, OPuts, OClients, OKeys, OKnown, OLoopStop, OReady, oloops, oshuts, ocalls, odata
<1>2. OTyped'
  BY <1>a, <1>b, <1>e DEF OInv, OTyped, OClients, OKeys
<1>3. OTabled'
  BY DEF OInv, OTabled, OClients, OLoopStop, OReady, oloops, oshuts, ocalls, odata
<1>4. OSilence'
  BY <1>a, <1>b, <1>c, <1>d, <1>e DEF OInv, OTyped, OSilence, OSilent, OEarly, OSound
<1>5. OStops'
  BY <1>a, <1>c, <1>e DEF OInv, OStops, OSound
<1>6. OTold' /\ ORunning'
  BY DEF OInv, OTold, OTrue, OAll, OMoved, OExcused, OClients, OKeys, OLoads, ORunning, OLoopStop, OReady,
         oloops, oshuts, ocalls, odata
<1>7. OHandles'
  BY <1>b, <1>d, <1>e DEF OInv, OHandles
<1> QED BY <1>1, <1>2, <1>3, <1>4, <1>5, <1>6, <1>7 DEF OInv

----------------------------------------------------------------------------
(* The coroutines                                                           *)

LEMMA OLoadImplKeeps ==
  ASSUME OInv, NEW c \in OClients, OLoadImpl(c)
  PROVE  OInv'
<1>1. /\ ocur.c = c /\ OLoads(c) /\ ocur.i \in Nat /\ 1 <= ocur.i
      /\ Len(OKeys(c)) \in Nat /\ DOMAIN OKeys(c) = 1..Len(OKeys(c)) /\ c # 0
      /\ UNCHANGED <<ocfg, oturn, oloop, oshuts, ocalls, okeys, oput, otasks, ofut, ofaults>>
  BY OKeysAre DEF OInv, OTyped, ORunning, OLoadImpl
<1>2. \A i \in DOMAIN OKeys(c) : i < ocur.i => OMoved(c, i)
  BY <1>1 DEF OInv, ORunning
<1>3. CASE ocur.i > Len(OKeys(c))
  <2>1. OEnds(c, "ok") /\ UNCHANGED odata
    BY <1>1, <1>3 DEF OLoadImpl, odata
  <2>2. OTrue("ok", c)
    BY <1>1, <1>2, <1>3 DEF OTrue, OAll
  <2> QED BY <1>1, <2>1, <2>2, OEnded
<1>4. CASE ocur.i <= Len(OKeys(c)) /\ OKeys(c)[ocur.i] \notin okeys
  <2>1. OEnds(c, "error") /\ UNCHANGED odata
    BY <1>1, <1>4 DEF OLoadImpl, OMissing, odata
  <2>2. OTrue("error", c)
    <3>1. PICK i : i = ocur.i
      OBVIOUS
    <3>2. i \in DOMAIN OKeys(c)
      BY <1>1, <1>4, <3>1
    <3> QED BY <1>1, <1>4, <3>1, <3>2 DEF OInv, OKnown, OTrue, OExcused
  <2> QED BY <1>1, <2>1, <2>2, OEnded
<1>5. CASE ocur.i <= Len(OKeys(c)) /\ OKeys(c)[ocur.i] \in okeys
  <2>1. /\ odst' = [odst EXCEPT ![c][ocur.i] = OKeys(c)[ocur.i]] /\ ocur' = [ocur EXCEPT !.i = @ + 1] /\ oq' = oq
    BY <1>1, <1>5 DEF OLoadImpl
  <2>2. DOMAIN odst = OClients /\ \A d \in OClients : DOMAIN odst[d] = DOMAIN OKeys(d)
    BY DEF OInv, OTyped
  <2>3. /\ \A d \in OClients : \A i \in DOMAIN OKeys(d) : OMoved(d, i) => OMoved(d, i)'
        /\ \A i \in DOMAIN OKeys(c) : i = ocur.i => OMoved(c, i)'
    BY <1>1, <2>1, <2>2 DEF OMoved, OKeys, OLoads
  <2>4. DOMAIN odst' = OClients /\ DOMAIN oput' = OClients /\ \A d \in OClients : DOMAIN odst'[d] = DOMAIN OKeys(d)
    BY <1>1, <2>1, <2>2 DEF OInv, OTyped
  <2>5. OPuts' /\ okeys \subseteq okeys'
    BY <1>1 DEF OInv, OPuts, OClients, OKeys
  <2> QED BY <1>1, <2>1, <2>3, <2>4, <2>5, OMovesOn
<1> QED BY <1>1, <1>3, <1>4, <1>5

LEMMA ODumpImplKeeps ==
  ASSUME OInv, NEW c \in OClients, ODumpImpl(c)
  PROVE  OInv'
<1>1. /\ ocur.c = c /\ ~OLoads(c) /\ ocur.i \in Nat /\ 1 <= ocur.i
      /\ Len(OKeys(c)) \in Nat /\ DOMAIN OKeys(c) = 1..Len(OKeys(c)) /\ c # 0
      /\ UNCHANGED <<ocfg, oturn, oloop, oshuts, ocalls, odst, otasks, ofut, ofaults>>
  BY OKeysAre DEF OInv, OTyped, ORunning, ODumpImpl
<1>2. \A i \in DOMAIN OKeys(c) : i < ocur.i => OMoved(c, i)
  BY <1>1 DEF OInv, ORunning
<1>3. CASE ocur.i > Len(OKeys(c))
  <2>1. OEnds(c, "ok") /\ UNCHANGED odata
    BY <1>1, <1>3 DEF ODumpImpl, odata
  <2>2. OTrue("ok", c)
    BY <1>1, <1>2, <1>3 DEF OTrue, OAll
  <2> QED BY <1>1, <2>1, <2>2, OEnded
<1>4. CASE ocur.i <= Len(OKeys(c))
  <2>1. /\ okeys' = okeys \union {OKeys(c)[ocur.i]} /\ oput' = [oput EXCEPT ![c] = @ \union {OKeys(c)[ocur.i]}]
        /\ ocur' = [ocur EXCEPT !.i = @ + 1] /\ oq' = oq
    BY <1>1, <1>4 DEF ODumpImpl
  <2>2. DOMAIN oput = OClients /\ DOMAIN odst' = OClients /\ \A d \in OClients : DOMAIN odst'[d] = DOMAIN OKeys(d)
    BY <1>1 DEF OInv, OTyped
  <2>3. /\ \A d \in OClients : \A i \in DOMAIN OKeys(d) : OMoved(d, i) => OMoved(d, i)'
        /\ \A i \in DOMAIN OKeys(c) : i = ocur.i => OMoved(c, i)'
    BY <1>1, <2>1, <2>2 DEF OMoved, OKeys, OLoads
  <2>4. DOMAIN oput' = OClients
    BY <2>1, <2>2
  <2>5. OPuts' /\ okeys \subseteq okeys'
    <3>1. ocur.i \in DOMAIN OKeys(c)
      BY <1>1, <1>4
    <3>2. oput'[c] = oput[c] \union {OKeys(c)[ocur.i]} /\ \A d \in OClients : d # c => oput'[d] = oput[d]
      BY <2>1, <2>2
    <3>3. \A d \in OClients : \A k \in oput'[d] : \E i \in DOMAIN OKeys(d) : k = OKeys(d)[i]
      BY <3>1, <3>2 DEF OInv, OPuts
    <3> QED BY <1>1, <2>1, <3>3 DEF OPuts, OClients, OKeys
  <2> QED BY <1>1, <2>1, <2>2, <2>3, <2>4, <2>5, OMovesOn
<1> QED BY <1>1, <1>3, <1>4

LEMMA OImplFailsKeeps ==
  ASSUME OInv, NEW c \in OClients, OImplFails(c)
  PROVE  OInv'
<1>a. /\ ocur.c = c /\ ocur.i \in Nat /\ c # 0 /\ Len(OKeys(c)) \in Nat /\ DOMAIN OKeys(c) = 1..Len(OKeys(c))
      /\ UNCHANGED <<ocfg, oturn, oloop, opc, otid, oid, oret, oknown, otasks, ofut, oflag, oshut, oclosed, okeys, odst, oput>>
  BY OKeysAre DEF OInv, OTyped, OImplFails, oshuts, ocalls, odata
<1>b. PICK x : x.h = "result" /\ x.c = c /\ x.ret = "error" /\ oq' = Append(oq, x) /\ ocur' = ONobody /\ ofaults'.struck
  BY DEF OImplFails, OEnds
<1>c. OSeq(oq') /\ oturn <= Len(oq') /\ \A e : OIn(e, oq') => OIn(e, oq) \/ e = x
  BY <1>b, OPosted
<1>d. /\ OClients' = OClients /\ (\A e : OSound(e) => OSound(e)')
      /\ \A ret : \A d \in OClients : OTrue(ret, d) => OTrue(ret, d)'
  <2>1. \A d \in OClients : \A i \in DOMAIN OKeys(d) : OMoved(d, i) => OMoved(d, i)'
    BY <1>a DEF OMoved, OKeys, OLoads
  <2> QED BY <1>a, <1>b, <2>1, OLasts
<1>1. OPuts' /\ OKnown'
  BY DEF OInv, OPuts, OClients, OKeys, OKnown, OImplFails, OEnds, oloops, oshuts, ocalls, odata
<1>2. OTyped'
  <2>1. ofaults'.struck \in BOOLEAN
    BY DEF OImplFails
  <2> QED BY <1>a, <1>b, <1>c, <2>1 DEF OInv, OTyped, OClients, OKeys, ONobody
<1>3. OTabled' /\ OStops'
  BY DEF OInv, OTabled, OClients, OStops, ONobody, OImplFails, OEnds, oloops, oshuts, ocalls, odata
<1>4. OSilence'
  <2>1. ~OEarly(c)
    BY <1>a DEF OInv, OSilence, OSilent
  <2>2. \A d \in OClients : OEarly(d)' = OEarly(d) /\ d # 0
    BY <1>a, OKeysAre DEF OEarly
  <2> QED BY <1>a, <1>b, <1>c, <1>d, <2>1, <2>2 DEF OInv, OSilence, OSilent, ONobody
<1>5. OTold'
  BY DEF OInv, OTold, OTrue, OAll, OMoved, OExcused, OClients, OKeys, OLoads, OImplFails, OEnds, oloops,
         oshuts, ocalls, odata
<1>6. OHandles'
  <2>1. OSound(x)'
    BY <1>a, <1>b, <1>d DEF OSound, OTrue, OExcused
  <2> QED BY <1>c, <1>d, <2>1 DEF OInv, OHandles
<1>7. ORunning'
  BY <1>b DEF ORunning, ONobody
<1> QED BY <1>1, <1>2, <1>3, <1>4, <1>5, <1>6, <1>7 DEF OInv

LEMMA OEvictKeeps ==
  ASSUME OInv, NEW k, OEvict(k)
  PROVE  OInv'
<1>1. OTyped' /\ OPuts' /\ OKnown'
  BY DEF OInv, OTyped, OClients, OKeys, OPuts, OKnown, OEvict, oloops, oshuts, ocalls, odata
<1>2. OSilence' /\ OTabled' /\ OStops'
  BY DEF OInv, OSilence, OSilent, OEarly, OClients, OTabled, OStops, ONobody, OEvict, oloops, oshuts,
         ocalls, odata
<1>3. OTold' /\ OHandles' /\ ORunning'
  BY DEF OInv, OTold, OTrue, OAll, OMoved, OExcused, OClients, OKeys, OLoads, OHandles, OSound, ORunning,
         OEvict, oloops, oshuts, ocalls, odata
<1> QED BY <1>1, <1>2, <1>3 DEF OInv

----------------------------------------------------------------------------
(* shutdown                                                                 *)

LEMMA OShutdownKeeps ==
  ASSUME OInv, OShutdown
  PROVE  OInv'
<1>1. OTyped' /\ OPuts' /\ OKnown'
  BY DEF OInv, OTyped, OClients, OKeys, OPuts, OKnown, OShutdown, oloops, oshuts, ocalls, odata
<1>2. OSilence' /\ OTabled' /\ OStops'
  BY DEF OInv, OSilence, OSilent, OEarly, OClients, OTabled, OStops, ONobody, OShutdown, oloops, oshuts,
         ocalls, odata
<1>3. OTold' /\ OHandles' /\ ORunning'
  BY DEF OInv, OTold, OTrue, OAll, OMoved, OExcused, OClients, OKeys, OLoads, OHandles, OSound, ORunning,
         OShutdown, oloops, oshuts, ocalls, odata
<1> QED BY <1>1, <1>2, <1>3 DEF OInv

LEMMA OShutClearKeeps ==
  ASSUME OInv, OShutClear
  PROVE  OInv'
<1>1. OTyped' /\ OPuts' /\ OKnown'
  BY DEF OInv, OTyped, OClients, OKeys, OPuts, OKnown, OShutClear, oloops, oshuts, ocalls, odata
<1>2. OSilence' /\ OStops'
  BY DEF OInv, OSilence, OSilent, OEarly, OClients, OStops, ONobody, OShutClear, oloops, oshuts, ocalls,
         odata
<1>3. OTabled'
  <2>1. oflag' /\ opc' = opc /\ oid' = oid /\ otid' = otid /\ OClients' = OClients
    BY DEF OInv, OStops, OShutClear, ocalls, OClients
  <2> QED BY <2>1 DEF OInv, OTabled
<1>4. OTold' /\ OHandles' /\ ORunning'
  BY DEF OInv, OTold, OTrue, OAll, OMoved, OExcused, OClients, OKeys, OLoads, OHandles, OSound, ORunning,
         OShutClear, oloops, oshuts, ocalls, odata
<1> QED BY <1>1, <1>2, <1>3, <1>4 DEF OInv

LEMMA OShutCancelKeeps ==
  ASSUME OInv, OShutCancel
  PROVE  OInv'
<1>a. /\ oshut = "cancel" /\ oflag /\ ocfg' = ocfg /\ OClients' = OClients /\ DOMAIN ofut = OClients
      /\ UNCHANGED <<oturn, ocur, oloop, oflag, oclosed, opc, otid, oid, oret, oknown, okeys, odst, oput, otasks, ofaults>>
  BY DEF OInv, OTyped, OStops, OShutCancel, ocalls, odata, OClients
<1>b. (\A e : OSound(e) => OSound(e)') /\ \A ret : \A d \in OClients : OTrue(ret, d) => OTrue(ret, d)'
  <2>1. \A d \in OClients : \A i \in DOMAIN OKeys(d) : OMoved(d, i) => OMoved(d, i)'
    BY <1>a DEF OMoved, OKeys, OLoads
  <2> QED BY <1>a, <2>1, OLasts
<1>c. OPuts' /\ OKnown' /\ ORunning' /\ OTabled' /\ OStops'
  BY <1>a DEF OInv, OPuts, OKnown, ORunning, OMoved, OTabled, OStops, OClients, OKeys, OLoads
<1>d. CASE otodo # {}
  <2>1. /\ oq' = oq /\ DOMAIN ofut' = OClients
        /\ \A d \in OClients : ofut'[d] = ofut[d] \/ (ofut[d] = "pending" /\ ofut'[d] = "cancelled")
    BY <1>a, <1>d DEF OShutCancel
  <2>2. OTyped' /\ OSilence' /\ OHandles'
    BY <1>a, <1>b, <2>1 DEF OInv, OTyped, OSilence, OSilent, OEarly, OHandles, OClients, OKeys
  <2>3. \A d \in OClients : OTrue(ofut'[d], d)
    BY <1>a, <2>1 DEF OInv, OTold, OTrue, OExcused
  <2>4. \A d \in OClients : OTrue(ofut[d], d)' /\ OTrue(oret[d], d)'
    BY <1>a, <1>b, <2>3 DEF OInv, OTold
  <2>5. OTold'
    BY <1>a, <2>1, <2>4 DEF OInv, OTold
  <2> QED BY <1>c, <2>2, <2>5 DEF OInv
<1>e. CASE otodo = {}
  <2>1. PICK x : x.h = "stop" /\ x.c = 0 /\ oq' = Append(oq, x) /\ ofut' = ofut
    BY <1>e DEF OShutCancel, OHandle
  <2>2. OSeq(oq') /\ oturn <= Len(oq') /\ \A e : OIn(e, oq') => OIn(e, oq) \/ e = x
    BY <2>1, OPosted
  <2>3. \A d \in OClients : d # 0
    BY OKeysAre
  <2>4. OTyped' /\ OSilence'
    BY <1>a, <2>1, <2>2, <2>3 DEF OInv, OTyped, OSilence, OSilent, OEarly, OClients, OKeys
  <2>5. OSound(x)'
    BY <1>a, <2>1 DEF OSound
  <2>6. OHandles' /\ OTold'
    BY <1>a, <1>b, <2>1, <2>2, <2>5 DEF OInv, OHandles, OTold
  <2> QED BY <1>c, <2>4, <2>6 DEF OInv
<1> QED BY <1>d, <1>e

LEMMA OShutCloseKeeps ==
  ASSUME OInv, OShutClose
  PROVE  OInv'
<1>1. OTyped' /\ OPuts' /\ OKnown'
  BY DEF OInv, OTyped, OClients, OKeys, OPuts, OKnown, OShutClose, OJoined, oloops, oshuts, ocalls, odata
<1>2. OSilence' /\ OTabled' /\ OStops'
  BY DEF OInv, OSilence, OSilent, OEarly, OClients, OTabled, OStops, ONobody, OShutClose, OJoined, oloops,
         oshuts, ocalls, odata
<1>3. OTold' /\ OHandles' /\ ORunning'
  BY DEF OInv, OTold, OTrue, OAll, OMoved, OExcused, OClients, OKeys, OLoads, OHandles, OSound, ORunning,
         OShutClose, OJoined, oloops, oshuts, ocalls, odata
<1> QED BY <1>1, <1>2, <1>3 DEF OInv

----------------------------------------------------------------------------
(* The result                                                               *)

LEMMA OInitOk == MooncakeInit => OInv
<1> SUFFICES ASSUME MooncakeInit  PROVE OInv
  OBVIOUS
<1>1. OSeq(oq) /\ Len(oq) = 0 /\ \A e : ~OIn(e, oq)
  BY DEF MooncakeInit, OSeq, OIn
<1>2. OTyped
  <2>1. ocfg \in MooncakeSetups /\ oturn \in Nat /\ oturn <= Len(oq) /\ otid \in Nat
    BY <1>1 DEF MooncakeInit
  <2>4. oflag \in BOOLEAN /\ oclosed \in BOOLEAN
    BY Zenon DEF MooncakeInit
  <2>5. ofaults.struck = FALSE
    BY DEF MooncakeInit
  <2>2. /\ DOMAIN opc = OClients /\ DOMAIN ofut = OClients /\ DOMAIN oid = OClients /\ DOMAIN oret = OClients
        /\ DOMAIN oknown = OClients /\ DOMAIN odst = OClients /\ DOMAIN oput = OClients
        /\ \A c \in OClients : DOMAIN odst[c] = DOMAIN OKeys(c) /\ oknown[c] \in BOOLEAN
    BY DEF MooncakeInit
  <2>3. "c" \in DOMAIN ocur /\ "i" \in DOMAIN ocur /\ ocur.i \in Nat
    BY DEF MooncakeInit, ONobody
  <2> QED BY <1>1, <2>1, <2>2, <2>3, <2>4, <2>5 DEF OTyped
<1>3. \A c \in OClients : c # 0
  BY <1>2, MooncakeAssumption DEF OTyped, OClients
<1>4. OPuts /\ OKnown /\ OHandles
  BY <1>1 DEF MooncakeInit, OPuts, OKnown, OHandles
<1>5. OSilence
  BY <1>1, <1>3 DEF MooncakeInit, OSilence, OSilent, ONobody
<1>6. OTold /\ ORunning /\ OTabled /\ OStops
  BY DEF MooncakeInit, OTold, OTrue, ORunning, OTabled, OStops, ONobody
<1> QED BY <1>2, <1>4, <1>5, <1>6 DEF OInv

LEMMA OStutters ==
  ASSUME OInv, UNCHANGED ovars
  PROVE  OInv'
<1>1. /\ UNCHANGED <<ocfg, oq, oturn, ocur, oloop, oflag, oshut, otodo, oclosed, opc, otid, oid, oret, oknown>>
      /\ UNCHANGED <<okeys, odst, oput, otasks, ofut, ofaults>>
  BY DEF ovars, oloops, oshuts, ocalls, odata
<1>2. /\ OClients' = OClients /\ (\A e : OSound(e) => OSound(e)')
      /\ \A ret : \A d \in OClients : OTrue(ret, d) => OTrue(ret, d)'
  <2>1. \A d \in OClients : \A i \in DOMAIN OKeys(d) : OMoved(d, i) => OMoved(d, i)'
    BY <1>1 DEF OMoved, OKeys, OLoads
  <2> QED BY <1>1, <2>1, OLasts
<1>3. OTyped' /\ OPuts' /\ OKnown' /\ OSilence' /\ OTabled' /\ OStops'
  BY <1>1 DEF OInv, OTyped, OPuts, OKnown, OSilence, OSilent, OEarly, OTabled, OStops, OClients, OKeys
<1>4. OTold' /\ OHandles'
  BY <1>1, <1>2 DEF OInv, OTold, OHandles
<1>5. ORunning'
  BY <1>1 DEF OInv, ORunning, OMoved, OClients, OKeys, OLoads
<1> QED BY <1>3, <1>4, <1>5 DEF OInv

LEMMA OStep ==
  ASSUME OInv, MooncakeNext
  PROVE  OInv'
<1>1. CASE \E c \in OClients : \/ OLookup(c) \/ OAsk(c) \/ OCall(c) \/ OPost(c) \/ ORegister(c) \/ OWaitPop(c)
                               \/ OWaitReturns(c) \/ OWaitTimesOut(c)
  BY <1>1, OLookupKeeps, OCallKeeps, OPostKeeps, ORegisterKeeps, OWaitPopKeeps, OWaitReturnsKeeps, OWaitTimesOutKeeps
<1>2. CASE OLoopTurn \/ OLoopStart \/ OLoopStep \/ OLoopResult \/ OLoopStop
  BY <1>2, OLoopTurnKeeps, OLoopStartKeeps, OLoopStepKeeps, OLoopResultKeeps, OLoopStopKeeps
<1>3. CASE \E c \in OClients : OLoadImpl(c) \/ ODumpImpl(c) \/ OImplFails(c)
  BY <1>3, OLoadImplKeeps, ODumpImplKeeps, OImplFailsKeeps
<1>4. CASE \E k : OEvict(k)
  BY <1>4, OEvictKeeps
<1>5. CASE OShutdown \/ OShutClear \/ OShutCancel \/ OShutClose
  BY <1>5, OShutdownKeeps, OShutClearKeeps, OShutCancelKeeps, OShutCloseKeeps
<1>6. CASE UNCHANGED ovars
  BY <1>6, OStutters
<1> QED BY <1>1, <1>2, <1>3, <1>4, <1>5, <1>6 DEF MooncakeNext

LEMMA OInvRight == OInv => MooncakeRight
<1> SUFFICES ASSUME OInv  PROVE MooncakeRight
  OBVIOUS
<1>1. ASSUME NEW c \in OClients, oret[c] = "ok", ~OLoads(c)  PROVE oput[c] = Range(OKeys(c))
  <2>1. \A i \in DOMAIN OKeys(c) : OKeys(c)[i] \in oput[c]
    BY <1>1 DEF OInv, OTold, OTrue, OAll, OMoved
  <2>2. \A k \in oput[c] : \E i \in DOMAIN OKeys(c) : k = OKeys(c)[i]
    BY DEF OInv, OPuts
  <2> QED BY <2>1, <2>2 DEF Range
<1>2. ASSUME NEW c \in OClients, oret[c] = "ok", OLoads(c)  PROVE \A i \in DOMAIN OKeys(c) : odst[c][i] = OKeys(c)[i]
  BY <1>2 DEF OInv, OTold, OTrue, OAll, OMoved
<1>3. ASSUME NEW c \in OClients, oret[c] \notin {"none", "ok"}  PROVE OExcused(c)
  BY <1>3 DEF OInv, OTold, OTrue
<1>4. \A c \in OClients : OWaitRight(c)
  BY <1>1, <1>2, <1>3 DEF OWaitRight, OExcused
<1>5. OClosedUnused
  BY DEF OInv, OStops, OClosedUnused
<1> QED BY <1>4, <1>5 DEF MooncakeRight

(* UcmMooncakeStore.wait (mooncake_connector.py): for every number of       *)
(* clients, calls and faults, 0 is returned only when every block was moved,*)
(* a failure has a reason other than the order of the threads, and the      *)
(* store is closed only when no coroutine uses it.                          *)
THEOREM MooncakeHolds == MooncakeSpec => []MooncakeRight
<1>1. OInv /\ [MooncakeNext]_ovars => OInv'
  BY OStep, OStutters
<1> QED BY <1>1, OInitOk, OInvRight, PTL DEF MooncakeSpec

----------------------------------------------------------------------------
(* The posix store: the invariant                                           *)

FIoOK(io) == io = <<io[1], io[2]>> /\ io[1] \in FJobs /\ io[2] \in 1..Len(FIos(io[1]))
FJobOK(x) ==
  /\ x = [st |-> x.st, left |-> x.left, turn |-> x.turn]
  /\ x.st \in {"new", "wait", "drain", "ok", "failed", "timeout", "dead"} /\ x.left \in Nat
FWorkOK(x) ==
  /\ x = [pc |-> x.pc, fd |-> x.fd, ok |-> x.ok, left |-> x.left]
  /\ x.pc \in {"open", "io", "commit", "remove", "end"} /\ x.fd \in Nat
  /\ x.ok \in BOOLEAN /\ x.left \in BOOLEAN
FDirOK(d) ==
  /\ d = [tmp |-> d.tmp, arch |-> d.arch]
  /\ d.tmp \in [FBlocks -> 0..Len(fino)] /\ d.arch \in [FBlocks -> 0..Len(fino)]
FLookOK ==
  /\ flook = [pc |-> flook.pc, at |-> flook.at, late |-> flook.late, firstFail |-> flook.firstFail,
              ever |-> flook.ever, gap |-> flook.gap]
  /\ flook.late \in BOOLEAN /\ flook.firstFail \in Nat
  /\ flook.pc \in {"none", "run", "found", "error"}
FJobsOK  == DOMAIN fjob = FJobs /\ \A j \in FJobs : FJobOK(fjob[j])
FWaiting == IsFiniteSet(fq) /\ \A io \in fq : FIoOK(io) /\ io \notin DOMAIN fwork
FBusyOK == /\ IsFiniteSet(DOMAIN fwork)
             /\ \A io \in DOMAIN fwork : FIoOK(io) /\ FWorkOK(fwork[io])
FMemory  == DOMAIN fmem = FJobs /\ \A j \in FJobs : DOMAIN fmem[j] = DOMAIN FIos(j)
FTyped == /\ fcfg \in PosixSetups /\ FMemory
          /\ fino \in Seq(SUBSET (0..fcfg.nShardPerBlock - 1)) /\ FDirOK(fdir) /\ FLookOK

(* Tasks and their latches. The latch of a task counts its queued I/Os and  *)
(* those under way, as long as no worker of the task was abandoned; tasks   *)
(* that are over have nothing left. FStuck: a worker was abandoned.         *)
FStuck == FStruck({"stuck"})
FUnderWay(j) == fjob[j].st \in {"wait", "drain"}
FOf(S, j) == {x \in S : x[1] = j}
FPlus(T, S, x) == T = S \union {x}
FSum(j) == Cardinality(FOf(fq, j)) + Cardinality(FOf(DOMAIN fwork, j))
FIdle(j) == \A io \in fq \union DOMAIN fwork : io[1] # j
FCount(j) == FUnderWay(j) /\ (j \notin ffail \/ ~FStuck) =>
               fjob[j].left = FSum(j)
FStates == \A j \in FJobs :
  /\ fjob[j].st \in {"new", "dead", "ok"} => FIdle(j)
  /\ fjob[j].st = "drain" => j \in ffail
  /\ ~FUnderWay(j) /\ ~FStuck => FIdle(j)
  /\ FCount(j)
FAway == \A io \in DOMAIN fwork : fwork[io].left => FStuck /\ (io[1] \in ffail \/ ~FUnderWay(io[1]))
(* A task leaves the queue from the front, shard by shard.                  *)
FOrder == \A j \in FJobs : \A m, k \in DOMAIN FIos(j) : m < k /\ <<j, m>> \in fq => <<j, k>> \in fq

(* Files. What a step of a worker relies on.                                *)
FWhole(x) == fino[x] = 0..fcfg.nShardPerBlock - 1
FHas(b, s) == fdir.tmp[b] # 0 /\ s \in fino[fdir.tmp[b]]
FSteps == \A io \in DOMAIN fwork :
  /\ fwork[io].pc = "io" => fwork[io].fd \in 1..Len(fino)
  /\ fwork[io].pc \in {"commit", "remove"} => FKind(io[1]) = "dump" /\ FLast(io)
(* Blocks of several shards, written by one worker: a shard is only opened  *)
(* when all before it have been written to the same .tmp file, so that the  *)
(* file is whole when the last worker renames it.                           *)
FSeries == fcfg.nShardPerBlock # 1 /\ FOneWriter
FWritten(io) == \A m \in DOMAIN FIos(io[1]) :
                  m < io[2] /\ FBlock(<<io[1], m>>) = FBlock(io) => FHas(FBlock(io), FShard(<<io[1], m>>))
FWriter(io) ==
  /\ fwork[io].pc \in {"open", "io", "commit"} => FWritten(io)
  /\ fwork[io].pc = "io" => fwork[io].fd = fdir.tmp[FBlock(io)]
  /\ fwork[io].pc = "commit" => FHas(FBlock(io), FShard(io))
  /\ fwork[io].pc = "end" /\ fwork[io].ok /\ ~FLast(io) => FHas(FBlock(io), FShard(io))
(* What has left the queue before a waiting shard was written.              *)
FPassed(j) == \A m, k \in DOMAIN FIos(j) :
  m < k /\ FBlock(<<j, m>>) = FBlock(<<j, k>>) /\ <<j, k>> \in fq /\ <<j, m>> \notin fq /\ <<j, m>> \notin DOMAIN fwork
     => FHas(FBlock(<<j, k>>), FShard(<<j, m>>))
FOneByOne ==
  FSeries =>
    /\ \A b \in FBlocks : fdir.arch[b] # 0 => FWhole(fdir.arch[b])
    /\ \A x, y \in DOMAIN fwork : FPool(x[1]) = FPool(y[1]) => x = y
    /\ \A io \in DOMAIN fwork : /\ FKind(io[1]) = "dump" => FWriter(io)
                                /\ FKind(io[1]) = "load" /\ fwork[io].pc = "io" => FWhole(fwork[io].fd)
    /\ \A j \in FJobs : FKind(j) = "dump" /\ fjob[j].st = "wait" /\ j \notin ffail => FPassed(j)

(* Loads: what was read right, and what a load that has not failed still has*)
(* to read.                                                                 *)
FRead(j, k) == fmem[j][k] = "right"
FReader(io) == fwork[io].pc = "end" /\ fwork[io].ok => FRead(io[1], io[2])
FLoading(j) ==
  /\ fjob[j].st = "wait" /\ j \notin ffail =>
       \A k \in DOMAIN FIos(j) : <<j, k>> \in fq \/ <<j, k>> \in DOMAIN fwork \/ FRead(j, k)
  /\ fjob[j].st = "ok" => \A k \in DOMAIN FIos(j) : FRead(j, k)
FLoads ==
  FOneWriter =>
    /\ \A io \in DOMAIN fwork : FKind(io[1]) = "load" => FReader(io)
    /\ \A j \in FJobs : FKind(j) = "load" => FLoading(j)

(* Dumps without faults: the last shard of each block is queued, under way  *)
(* or has been committed; FFilling: a .tmp file of one shard that is being  *)
(* written is not yet whole, even where another process has renamed it.     *)
FClean == ~FStruck({"io", "timeout", "stuck", "crash", "gc"})
FThere(b) == fdir.arch[b] # 0
FFilling(x) == \E io \in DOMAIN fwork : FKind(io[1]) = "dump" /\ fwork[io].pc = "io" /\ fwork[io].fd = x
FFull(x) == x # 0 => FWhole(x) \/ FFilling(x)
FDumper(io) ==
  /\ fwork[io].ok
  /\ fwork[io].pc \in {"io", "commit"} => fdir.tmp[FBlock(io)] # 0 \/ FThere(FBlock(io))
  /\ fwork[io].pc = "remove" \/ (fwork[io].pc = "end" /\ FLast(io)) => FThere(FBlock(io))
FKept(j, k) == <<j, k>> \in fq \/ <<j, k>> \in DOMAIN fwork \/ FThere(FBlock(<<j, k>>))
FDumps ==
  FClean =>
    /\ fgc = <<>> /\ \A j \in FJobs : FKind(j) = "dump" => j \notin ffail
    /\ \A io \in DOMAIN fwork : FKind(io[1]) = "dump" => FDumper(io)
    /\ \A j \in FJobs : FKind(j) = "dump" /\ fjob[j].st # "new" => \A k \in DOMAIN FIos(j) : FLast(<<j, k>>) => FKept(j, k)
    /\ fcfg.nShardPerBlock = 1 => \A b \in FBlocks : FFull(fdir.tmp[b]) /\ FFull(fdir.arch[b])

(* Lookups: positions before the first miss were hits, or a worker has still*)
(* to come to them; a name that is there has been seen, one that is not has *)
(* been missed.                                                             *)
FMine(w, i) == \E q \in 0..i : i = (w - 1) + q * fcfg.lookupConcurrency
FSearch ==
  /\ flook.pc = "run" => \A b \in FBlocks : IF FThere(b) THEN b \in flook.ever ELSE b \in flook.gap
  /\ flook.pc \in {"run", "found"} =>
       /\ flook.firstFail \in 0..Len(FList)
       /\ flook.firstFail < Len(FList) => FList[flook.firstFail + 1] \in flook.gap
       /\ DOMAIN flook.at = FWorkers
       /\ \A w \in FWorkers : flook.at[w] = -1 \/ (flook.at[w] \in Nat /\ FMine(w, flook.at[w]))
       /\ \A i \in 0..Len(FList) - 1 :
            \/ FList[i + 1] \in flook.ever \/ flook.firstFail <= i \/ flook.late
            \/ \E w \in FWorkers : flook.at[w] \in 0..i /\ FMine(w, i)
  /\ flook.pc = "found" => ~flook.late /\ \A w \in FWorkers : flook.at[w] = -1

(* The inductive invariant.                                                 *)
FQueues == FJobsOK /\ FWaiting /\ FBusyOK /\ FStates /\ FAway /\ FOrder
FInv == FTyped /\ FQueues /\ FSteps /\ FOneByOne /\ FLoads /\ FDumps /\ FSearch

----------------------------------------------------------------------------
(* Counting I/Os                                                            *)

(* The I/Os of a task in a set of I/Os: none when the set names no I/O of   *)
(* it.                                                                      *)
LEMMA FOfIs ==
  ASSUME NEW S, IsFiniteSet(S), NEW j
  PROVE  /\ IsFiniteSet(FOf(S, j)) /\ Cardinality(FOf(S, j)) \in Nat
         /\ Cardinality(FOf(S, j)) = 0 <=> \A x \in S : x[1] # j
<1>1. IsFiniteSet(FOf(S, j))
  BY FS_Subset DEF FOf
<1>2. Cardinality(FOf(S, j)) = 0 <=> FOf(S, j) = {}
  BY <1>1, FS_EmptySet
<1> QED BY <1>1, <1>2, FS_CardinalityType DEF FOf

(* An I/O less in the set is one less of its task and none less of others.  *)
LEMMA FOfLess ==
  ASSUME NEW S, IsFiniteSet(S), NEW x \in S, NEW T, T = S \ {x}, NEW j
  PROVE  /\ IsFiniteSet(T)
         /\ Cardinality(FOf(T, j)) = IF x[1] = j THEN Cardinality(FOf(S, j)) - 1 ELSE Cardinality(FOf(S, j))
<1>1. IsFiniteSet(T)
  BY FS_RemoveElement
<1>2. CASE x[1] = j
  <2>1. FOf(T, j) = FOf(S, j) \ {x} /\ x \in FOf(S, j)
    BY <1>2 DEF FOf
  <2> QED BY <1>1, <1>2, <2>1, FOfIs, FS_RemoveElement
<1>3. CASE x[1] # j
  <2>1. FOf(T, j) = FOf(S, j)
    BY <1>3 DEF FOf
  <2> QED BY <1>1, <1>3, <2>1
<1> QED BY <1>2, <1>3

(* An I/O more in the set is one more of its task.                          *)
LEMMA FOfMore ==
  ASSUME NEW S, IsFiniteSet(S), NEW x, x \notin S, NEW T, FPlus(T, S, x), NEW j
  PROVE  /\ IsFiniteSet(T)
         /\ Cardinality(FOf(T, j)) = IF x[1] = j THEN Cardinality(FOf(S, j)) + 1 ELSE Cardinality(FOf(S, j))
<1>1. IsFiniteSet(T)
  BY FS_AddElement DEF FPlus
<1>2. CASE x[1] = j
  <2>1. FOf(T, j) = FOf(S, j) \union {x} /\ x \notin FOf(S, j)
    BY <1>2 DEF FOf, FPlus
  <2>2. IsFiniteSet(FOf(S, j))
    BY FOfIs
  <2>3. Cardinality(FOf(S, j) \union {x}) = Cardinality(FOf(S, j)) + 1
    BY <2>1, <2>2, FS_AddElement
  <2> QED BY <1>1, <1>2, <2>1, <2>3
<1>3. CASE x[1] # j
  <2>1. FOf(T, j) = FOf(S, j)
    BY <1>3 DEF FOf, FPlus
  <2> QED BY <1>1, <1>3, <2>1
<1> QED BY <1>2, <1>3

(* The I/Os of a task are as many as its positions.                         *)
LEMMA FWaitsAre ==
  ASSUME NEW j, Len(FIos(j)) \in Nat, DOMAIN FIos(j) = 1..Len(FIos(j))
  PROVE  IsFiniteSet(FWaits(j)) /\ Cardinality(FWaits(j)) = Len(FIos(j))
<1> DEFINE f == [k \in 1..Len(FIos(j)) |-> <<j, k>>]
<1>1. f \in Bijection(1..Len(FIos(j)), FWaits(j))
  BY DEF Bijection, Injection, Surjection, IsInjective, FWaits
<1>2. ExistsBijection(1..Len(FIos(j)), FWaits(j))
  BY <1>1 DEF ExistsBijection
<1> QED BY <1>2, FS_NatBijection, FS_CountingElements

(* A task has nothing queued and nothing under way exactly when its sum is  *)
(* 0.                                                                       *)
LEMMA FSizes ==
  ASSUME FWaiting, FBusyOK, NEW j
  PROVE  /\ FSum(j) \in Nat
         /\ FSum(j) = 0 <=> FIdle(j)
         /\ Cardinality(FOf(fq, j)) \in Nat /\ Cardinality(FOf(DOMAIN fwork, j)) \in Nat
<1>1. /\ Cardinality(FOf(fq, j)) \in Nat /\ Cardinality(FOf(DOMAIN fwork, j)) \in Nat
      /\ Cardinality(FOf(fq, j)) = 0 <=> \A x \in fq : x[1] # j
      /\ Cardinality(FOf(DOMAIN fwork, j)) = 0 <=> \A x \in DOMAIN fwork : x[1] # j
  BY FOfIs DEF FWaiting, FBusyOK
<1>2. FIdle(j) <=> (\A x \in fq : x[1] # j) /\ (\A x \in DOMAIN fwork : x[1] # j)
  BY DEF FIdle
<1>3. FSum(j) \in Nat /\ (FSum(j) = 0 <=> Cardinality(FOf(fq, j)) = 0 /\ Cardinality(FOf(DOMAIN fwork, j)) = 0)
  BY <1>1 DEF FSum
<1> QED BY <1>1, <1>2, <1>3

(* What the assumption says of the setup.                                   *)
LEMMA FSetupIs ==
  ASSUME fcfg \in PosixSetups
  PROVE  /\ fcfg.nShardPerBlock \in Nat /\ fcfg.nShardPerBlock >= 1
         /\ fcfg.lookupConcurrency \in Nat /\ fcfg.lookupConcurrency >= 1
         /\ fcfg.stored \in Seq(FBlocks) /\ FList \in Seq(FBlocks)
         /\ \A j \in FJobs : /\ FKind(j) \in {"load", "dump"}
                             /\ FIos(j) \in Seq(FBlocks \X (0..fcfg.nShardPerBlock - 1))
                             /\ Len(FIos(j)) \in Nat /\ DOMAIN FIos(j) = 1..Len(FIos(j))
<1>1. PosixSetup(fcfg)
  BY PosixAssumption
<1> QED BY <1>1 DEF PosixSetup, FBlocks, FList, FJobs, FKind, FIos

(* An I/O names a block and a shard of the setup.                           *)
LEMMA FIoIs ==
  ASSUME fcfg \in PosixSetups, NEW io, FIoOK(io)
  PROVE  /\ FBlock(io) \in FBlocks /\ FShard(io) \in 0..fcfg.nShardPerBlock - 1
         /\ FKind(io[1]) \in {"load", "dump"} /\ io[2] \in DOMAIN FIos(io[1])
         /\ FLast(io) <=> FShard(io) = fcfg.nShardPerBlock - 1
<1>1. /\ FIos(io[1]) \in Seq(FBlocks \X (0..fcfg.nShardPerBlock - 1)) /\ io[2] \in DOMAIN FIos(io[1])
      /\ FKind(io[1]) \in {"load", "dump"} /\ fcfg.nShardPerBlock \in Nat
  BY FSetupIs DEF FIoOK
<1>2. FIo(io) \in FBlocks \X (0..fcfg.nShardPerBlock - 1)
  BY <1>1, FSetupIs DEF FIo, FIoOK
<1>3. FBlock(io) \in FBlocks /\ FShard(io) \in 0..fcfg.nShardPerBlock - 1
  BY <1>2 DEF FBlock, FShard
<1> QED BY <1>1, <1>3 DEF FLast

----------------------------------------------------------------------------
(* Queues and latches                                                       *)

(* A worker goes on: nothing of the queues changes.                         *)
LEMMA FStepKeeps ==
  ASSUME FQueues, fcfg' = fcfg, fjob' = fjob, fq' = fq, ffail' = ffail, FStuck => FStuck',
         DOMAIN fwork' = DOMAIN fwork,
         \A io \in DOMAIN fwork : FWorkOK(fwork'[io]) /\ fwork'[io].left = fwork[io].left
  PROVE  FQueues'
<1>1. FJobsOK' /\ FOrder'
  BY DEF FQueues, FJobsOK, FOrder, FJobs, FIos
<1>2. FWaiting' /\ FBusyOK'
  BY DEF FQueues, FWaiting, FBusyOK, FIoOK, FJobs, FIos
<1>3. FAway'
  BY DEF FQueues, FAway, FUnderWay
<1>4. \A j : FSum(j)' = FSum(j) /\ FIdle(j)' = FIdle(j)
  BY DEF FSum, FIdle
<1>5. FStates'
  BY <1>4 DEF FQueues, FStates, FCount, FUnderWay, FJobs
<1> QED BY <1>1, <1>2, <1>3, <1>5 DEF FQueues

(* Submit: the latch counts what is queued.                                 *)
LEMMA FSubmitQueues ==
  ASSUME FTyped, FQueues, NEW j \in FJobs, Submit(j)
  PROVE  FQueues'
<1>0. /\ fcfg' = fcfg /\ ffail' = ffail /\ fwork' = fwork /\ fstruck' = fstruck /\ fjob[j].st = "new"
      /\ fq' = fq \union FWaits(j) /\ FIdle(j) /\ FStuck' = FStuck /\ FJobs' = FJobs
      /\ Len(FIos(j)) \in Nat /\ DOMAIN FIos(j) = 1..Len(FIos(j)) /\ \A i : FIos(i)' = FIos(i)
  BY FSetupIs DEF Submit, FQueues, FStates, FTyped, FStuck, FStruck, FJobs, FIos
<1>1. /\ DOMAIN fjob' = FJobs /\ fjob'[j].st = "wait" /\ fjob'[j].left = Len(FIos(j)) /\ FJobOK(fjob'[j])
      /\ \A i \in FJobs : i # j => fjob'[i] = fjob[i]
  BY <1>0 DEF Submit, FQueues, FJobsOK, FJobOK
<1>2. FJobsOK'
  BY <1>0, <1>1 DEF FQueues, FJobsOK
<1>3. IsFiniteSet(FWaits(j)) /\ Cardinality(FWaits(j)) = Len(FIos(j))
  BY <1>0, FWaitsAre
<1>4. \A io \in FWaits(j) : FIoOK(io) /\ io[1] = j /\ io \notin DOMAIN fwork
  BY <1>0 DEF FWaits, FIoOK, FIdle
<1>5. FWaiting' /\ FBusyOK'
  BY <1>0, <1>3, <1>4, FS_Union DEF FQueues, FWaiting, FBusyOK, FIoOK
<1>6. FAway'
  BY <1>0, <1>1 DEF FQueues, FAway, FUnderWay, FBusyOK, FIoOK, FIdle
<1>7. FOrder'
  <2>1. \A i, k : <<i, k>> \in FWaits(j) <=> i = j /\ k \in DOMAIN FIos(j)
    BY DEF FWaits
  <2> QED BY <1>0, <2>1 DEF FQueues, FOrder
<1>8. \A i \in FJobs : i # j => FSum(i)' = FSum(i) /\ FIdle(i)' = FIdle(i)
  <2> SUFFICES ASSUME NEW i \in FJobs, i # j  PROVE FSum(i)' = FSum(i) /\ FIdle(i)' = FIdle(i)
    OBVIOUS
  <2>1. FOf(fq', i) = FOf(fq, i)
    BY <1>0, <1>4 DEF FOf
  <2> QED BY <1>0, <1>4, <2>1 DEF FSum, FIdle
<1>9. FSum(j)' = Len(FIos(j))
  <2>1. FOf(fq', j) = FWaits(j) /\ FOf(DOMAIN fwork, j) = {}
    BY <1>0, <1>4 DEF FOf, FIdle
  <2>2. FSum(j)' = Cardinality(FWaits(j)) + Cardinality({})
    BY <1>0, <2>1 DEF FSum
  <2> QED BY <1>0, <1>3, <2>2, FS_EmptySet
<1>10. FStates'
  BY <1>0, <1>1, <1>8, <1>9 DEF FQueues, FStates, FCount, FUnderWay
<1> QED BY <1>2, <1>5, <1>6, <1>7, <1>10 DEF FQueues

(* Wait returns: nothing of the task is left, unless a worker was abandoned.*)
LEMMA FWaitQueues ==
  ASSUME FTyped, FQueues, NEW j \in FJobs, Wait(j)
  PROVE  /\ FQueues' /\ FUnderWay(j) /\ fcfg' = fcfg /\ fq' = fq /\ fwork' = fwork /\ fstruck' = fstruck
         /\ ffail' \subseteq ffail /\ \A i \in FJobs : i # j => fjob'[i] = fjob[i] /\ (i \in ffail => i \in ffail')
         /\ ~FUnderWay(j)' /\ (j \notin ffail \/ ~FStuck => FIdle(j))
         /\ fjob'[j].st = "ok" => j \notin ffail /\ fjob[j].st = "wait"
         /\ fjob'[j].st # "new"
<1>0. /\ fcfg' = fcfg /\ fwork' = fwork /\ fstruck' = fstruck /\ fq' = fq /\ FStuck' = FStuck /\ FJobs' = FJobs
      /\ \A i : FIos(i)' = FIos(i)
      /\ ffail' = ffail \ {j} /\ FUnderWay(j) /\ fjob[j].left = 0
  BY DEF Wait, FReturn, FStuck, FStruck, FJobs, FIos, FUnderWay
<1>1. /\ DOMAIN fjob' = FJobs /\ FJobOK(fjob'[j]) /\ fjob'[j].st \in {"ok", "failed", "timeout"}
      /\ fjob'[j].st = "ok" => j \notin ffail /\ fjob[j].st = "wait"
      /\ \A i \in FJobs : i # j => fjob'[i] = fjob[i]
  BY DEF Wait, FReturn, FQueues, FJobsOK, FJobOK
<1>2. j \notin ffail \/ ~FStuck => FIdle(j)
  BY <1>0, FSizes DEF FQueues, FStates, FCount
<1>3. FJobsOK' /\ FOrder' /\ FWaiting' /\ FBusyOK'
  BY <1>0, <1>1 DEF FQueues, FJobsOK, FOrder, FWaiting, FBusyOK, FIoOK
<1>4. FAway'
  BY <1>0, <1>1 DEF FQueues, FAway, FUnderWay, FBusyOK, FIoOK
<1>5. \A i : FSum(i)' = FSum(i) /\ FIdle(i)' = FIdle(i)
  BY <1>0 DEF FSum, FIdle
<1>6. FStates'
  BY <1>0, <1>1, <1>2, <1>5 DEF FQueues, FStates, FCount, FUnderWay
<1> QED BY <1>0, <1>1, <1>2, <1>3, <1>4, <1>6 DEF FQueues, FUnderWay

(* A Wait expires: what it purges is taken off the latches of its tasks.    *)
LEMMA FExpiresQueues ==
  ASSUME FTyped, FQueues, NEW j \in FJobs, WaitExpires(j)
  PROVE  /\ FQueues' /\ fcfg' = fcfg /\ fwork' = fwork /\ ffail \subseteq ffail'
         /\ <<"timeout", j>> \in fstruck' /\ fstruck \subseteq fstruck'
         /\ fq' \subseteq fq /\ \A io \in fq : io \in fq' \/ io[1] \in ffail'
         /\ \A i \in FJobs : \/ fjob'[i].st = fjob[i].st
                             \/ i \in ffail' /\ fjob[i].st = "wait" /\ fjob'[i].st = "drain"
<1> PICK late : /\ late \in {{}} \union {{j} \union o : o \in SUBSET {k \in FJobs : FPool(k) = FPool(j) /\ FQueued(k) > 0}}
                /\ fjob' = [k \in FJobs |-> [st   |-> IF k = j THEN "drain" ELSE fjob[k].st,
                               left |-> IF k \notin late THEN fjob[k].left
                                        ELSE IF fjob[k].left > FQueued(k) THEN fjob[k].left - FQueued(k) ELSE 0,
                               turn |-> fjob[k].turn]]
                /\ ffail' = ffail \union {j} \union late
                /\ fq' = FPurged(late)
  BY Zenon DEF WaitExpires
<1>0. /\ fcfg' = fcfg /\ fwork' = fwork /\ fstruck' = fstruck \union {<<"timeout", j>>} /\ fjob[j].st = "wait"
      /\ FJobs' = FJobs /\ \A i : FIos(i)' = FIos(i)
  BY DEF WaitExpires, FJobs, FIos
<1>1. FStuck' = FStuck
  BY <1>0 DEF FStuck, FStruck
<1>2. \A i \in FJobs : /\ FQueued(i) = Cardinality(FOf(fq, i)) /\ FQueued(i) \in Nat
                       /\ FSum(i) = FQueued(i) + Cardinality(FOf(DOMAIN fwork, i))
                       /\ Cardinality(FOf(DOMAIN fwork, i)) \in Nat
  BY FSizes DEF FQueues, FQueued, FQueue, FOf, FSum
<1>3. \A i \in FJobs : /\ fjob'[i].st = IF i = j THEN "drain" ELSE fjob[i].st
                       /\ FJobOK(fjob'[i])
                       /\ i \notin late => fjob'[i].left = fjob[i].left
                       /\ i \in late => fjob'[i].left = IF fjob[i].left > FQueued(i) THEN fjob[i].left - FQueued(i) ELSE 0
  BY <1>2 DEF FQueues, FJobsOK, FJobOK
<1>4. FJobsOK'
  BY <1>0, <1>3 DEF FJobsOK
<1>5. fq' \subseteq fq /\ \A io \in fq : io \in fq' <=> io[1] \notin late
  BY DEF FPurged
<1>6. FWaiting' /\ FBusyOK'
  BY <1>0, <1>5, FS_Subset DEF FQueues, FWaiting, FBusyOK, FIoOK
<1>7. FOrder'
  BY <1>0, <1>5 DEF FQueues, FOrder
<1>8. FAway'
  BY <1>0, <1>1, <1>3 DEF FQueues, FAway, FUnderWay, FBusyOK, FIoOK
<1>9. \A i \in FJobs : i \notin late => FSum(i)' = FSum(i) /\ FIdle(i)' = FIdle(i)
  <2> SUFFICES ASSUME NEW i \in FJobs, i \notin late  PROVE FSum(i)' = FSum(i) /\ FIdle(i)' = FIdle(i)
    OBVIOUS
  <2>1. FOf(fq', i) = FOf(fq, i)
    BY <1>5 DEF FOf
  <2> QED BY <1>0, <1>5, <2>1 DEF FSum, FIdle
<1>10. \A i \in FJobs : i \in late => FSum(i)' = Cardinality(FOf(DOMAIN fwork, i)) /\ (FIdle(i) => FIdle(i)')
  <2> SUFFICES ASSUME NEW i \in FJobs, i \in late
               PROVE FSum(i)' = Cardinality(FOf(DOMAIN fwork, i)) /\ (FIdle(i) => FIdle(i)')
    OBVIOUS
  <2>1. FOf(fq', i) = {}
    BY <1>5 DEF FOf
  <2>2. FSum(i)' = Cardinality({}) + Cardinality(FOf(DOMAIN fwork, i))
    BY <1>0, <2>1 DEF FSum
  <2> QED BY <1>0, <1>2, <1>5, <2>2, FS_EmptySet DEF FIdle
<1>11. \A i \in FJobs : FCount(i)'
  <2> SUFFICES ASSUME NEW i \in FJobs, FUnderWay(i)', i \notin ffail' \/ ~FStuck'  PROVE fjob'[i].left = FSum(i)'
    BY DEF FCount
  <2>1. FUnderWay(i) /\ (i \notin ffail \/ ~FStuck) /\ fjob[i].left = FSum(i)
    BY <1>0, <1>1, <1>3 DEF FQueues, FStates, FCount, FUnderWay
  <2>2. fjob[i].left \in Nat
    BY DEF FQueues, FJobsOK, FJobOK
  <2> QED BY <1>2, <1>3, <1>9, <1>10, <2>1, <2>2
<1>12. FStates'
  BY <1>0, <1>1, <1>3, <1>9, <1>10, <1>11 DEF FQueues, FStates, FUnderWay
<1> QED BY <1>0, <1>3, <1>4, <1>5, <1>6, <1>7, <1>8, <1>12 DEF FQueues

(* One I/O less on the latch.                                               *)
LEMMA FDoneIs ==
  ASSUME FJobsOK, NEW j \in FJobs, NEW jobs, jobs = FDone(fjob, j)
  PROVE  /\ DOMAIN jobs = FJobs /\ \A i \in FJobs : FJobOK(jobs[i]) /\ jobs[i].st = fjob[i].st
         /\ \A i \in FJobs : i # j => jobs[i] = fjob[i]
         /\ jobs[j].left = IF fjob[j].left > 0 THEN fjob[j].left - 1 ELSE 0
BY DEF FJobsOK, FJobOK, FDone

(* An I/O is taken: it goes to a worker, or is over when its task has       *)
(* failed.                                                                  *)
LEMMA FTakeQueues ==
  ASSUME FTyped, FQueues, NEW io \in fq, TakeIo(io)
  PROVE  /\ FQueues' /\ fcfg' = fcfg /\ ffail' = ffail /\ fstruck' = fstruck /\ fq' = fq \ {io}
         /\ \A i \in FJobs : fjob'[i].st = fjob[i].st
         /\ \/ io[1] \in ffail /\ fwork' = fwork
            \/ io[1] \notin ffail /\ fwork' = FTaken(io)
<1>0. /\ fcfg' = fcfg /\ ffail' = ffail /\ fstruck' = fstruck /\ FStuck' = FStuck /\ fq' = fq \ {io}
      /\ FJobs' = FJobs /\ \A i : FIos(i)' = FIos(i)
      /\ \A x \in fq : ~FBefore(x, io)
      /\ FIoOK(io) /\ io \notin DOMAIN fwork /\ io[1] \in FJobs
  BY DEF TakeIo, FStuck, FStruck, FJobs, FIos, FQueues, FWaiting, FIoOK
<1>1. FOrder'
  <2> SUFFICES ASSUME NEW j \in FJobs, NEW m \in DOMAIN FIos(j), NEW k \in DOMAIN FIos(j), m < k, <<j, m>> \in fq'
               PROVE  <<j, k>> \in fq'
    BY <1>0 DEF FOrder
  <2>1. <<j, m>> \in fq /\ <<j, k>> \in fq
    BY <1>0 DEF FQueues, FOrder
  <2>2. <<j, k>> # io
    <3> SUFFICES ASSUME <<j, k>> = io  PROVE FALSE
      OBVIOUS
    <3>1. FBefore(<<j, m>>, io)
      BY DEF FBefore
    <3> QED BY <1>0, <2>1, <3>1
  <2> QED BY <1>0, <2>1, <2>2
<1>2. IsFiniteSet(fq') /\ \A i : Cardinality(FOf(fq', i)) = IF io[1] = i THEN Cardinality(FOf(fq, i)) - 1
                                                            ELSE Cardinality(FOf(fq, i))
  BY <1>0, FOfLess DEF FQueues, FWaiting
<1>3. \A i \in FJobs : /\ Cardinality(FOf(fq, i)) \in Nat /\ Cardinality(FOf(DOMAIN fwork, i)) \in Nat
                       /\ FJobOK(fjob[i]) /\ fjob[i].left \in Nat
  BY FSizes DEF FQueues, FJobsOK, FJobOK
<1>4. CASE io[1] \in ffail
  <2>1. fjob' = FDone(fjob, io[1]) /\ fwork' = fwork
    BY <1>4 DEF TakeIo
  <2>2. /\ DOMAIN fjob' = FJobs /\ \A i \in FJobs : FJobOK(fjob'[i]) /\ fjob'[i].st = fjob[i].st
        /\ \A i \in FJobs : i # io[1] => fjob'[i] = fjob[i]
        /\ fjob'[io[1]].left = IF fjob[io[1]].left > 0 THEN fjob[io[1]].left - 1 ELSE 0
    BY <1>0, <2>1, FDoneIs DEF FQueues
  <2>3. FJobsOK' /\ FWaiting' /\ FBusyOK'
    BY <1>0, <1>2, <2>1, <2>2 DEF FQueues, FJobsOK, FWaiting, FBusyOK, FIoOK
  <2>4. FAway'
    BY <1>0, <2>1, <2>2 DEF FQueues, FAway, FUnderWay, FBusyOK, FIoOK
  <2>5. \A i \in FJobs : FCount(i)'
    <3> SUFFICES ASSUME NEW i \in FJobs, FUnderWay(i)', i \notin ffail' \/ ~FStuck'  PROVE fjob'[i].left = FSum(i)'
      BY DEF FCount
    <3>1. fjob[i].left = FSum(i)
      BY <1>0, <2>2 DEF FQueues, FStates, FCount, FUnderWay
    <3>2. Cardinality(FOf(fq, io[1])) # 0
      BY <1>0, FOfIs DEF FQueues, FWaiting
    <3>3. /\ FSum(i) = Cardinality(FOf(fq, i)) + Cardinality(FOf(DOMAIN fwork, i))
          /\ FSum(i)' = Cardinality(FOf(fq', i)) + Cardinality(FOf(DOMAIN fwork, i))
      BY <2>1 DEF FSum
    <3>4. CASE i = io[1]
      <4>1. Cardinality(FOf(fq', i)) = Cardinality(FOf(fq, i)) - 1
        BY <1>2, <3>4
      <4>2. fjob'[i].left = IF fjob[i].left > 0 THEN fjob[i].left - 1 ELSE 0
        BY <2>2, <3>4
      <4> QED BY <1>3, <3>1, <3>2, <3>3, <3>4, <4>1, <4>2
    <3>5. CASE i # io[1]
      <4>1. Cardinality(FOf(fq', i)) = Cardinality(FOf(fq, i))
        BY <1>2, <3>5
      <4> QED BY <2>2, <3>1, <3>3, <3>5, <4>1
    <3> QED BY <3>4, <3>5
  <2>6. \A i : FIdle(i) => FIdle(i)'
    BY <1>0, <2>1 DEF FIdle
  <2>7. FStates'
    BY <1>0, <2>2, <2>5, <2>6 DEF FQueues, FStates, FUnderWay
  <2> QED BY <1>0, <1>1, <1>4, <2>1, <2>2, <2>3, <2>4, <2>7 DEF FQueues
<1>5. CASE io[1] \notin ffail
  <2>1. fjob' = fjob /\ fwork' = FTaken(io)
    BY <1>5 DEF TakeIo
  <2>2. /\ DOMAIN fwork' = DOMAIN fwork \union {io} /\ \A x \in DOMAIN fwork : x # io => fwork'[x] = fwork[x]
        /\ FWorkOK(fwork'[io]) /\ ~fwork'[io].left
    BY <2>1 DEF FTaken, FWorkOK
  <2>3. /\ IsFiniteSet(DOMAIN fwork')
        /\ \A i : Cardinality(FOf(DOMAIN fwork', i)) = IF io[1] = i THEN Cardinality(FOf(DOMAIN fwork, i)) + 1
                                                       ELSE Cardinality(FOf(DOMAIN fwork, i))
    <3>1. IsFiniteSet(DOMAIN fwork) /\ io \notin DOMAIN fwork /\ FPlus(DOMAIN fwork', DOMAIN fwork, io)
      BY <1>0, <2>2 DEF FQueues, FBusyOK, FPlus
    <3>2. IsFiniteSet(DOMAIN fwork')
      BY <3>1, FS_AddElement DEF FPlus
    <3>3. ASSUME NEW i
          PROVE  Cardinality(FOf(DOMAIN fwork', i)) = IF io[1] = i THEN Cardinality(FOf(DOMAIN fwork, i)) + 1
                                                      ELSE Cardinality(FOf(DOMAIN fwork, i))
      BY <3>1, FOfMore
    <3> QED BY <3>2, <3>3
  <2>4. FJobsOK' /\ FWaiting' /\ FBusyOK'
    <3>1. FJobsOK'
      BY <1>0, <2>1 DEF FQueues, FJobsOK
    <3>2. \A x : FIoOK(x)' = FIoOK(x)
      BY <1>0 DEF FIoOK
    <3>3. FWaiting'
      BY <1>0, <1>2, <2>2, <3>2 DEF FQueues, FWaiting
    <3>4. FBusyOK'
      BY <1>0, <2>2, <2>3, <3>2 DEF FQueues, FBusyOK
    <3> QED BY <3>1, <3>3, <3>4
  <2>5. FAway'
    BY <1>0, <2>1, <2>2 DEF FQueues, FAway, FUnderWay
  <2>6. \A i \in FJobs : FSum(i)' = FSum(i)
    BY <1>2, <1>3, <2>3 DEF FSum
  <2>7. \A i : FIdle(i) => FIdle(i)'
    BY <1>0, <2>2 DEF FIdle
  <2>8. FStates'
    BY <1>0, <2>1, <2>6, <2>7 DEF FQueues, FStates, FCount, FUnderWay
  <2> QED BY <1>0, <1>1, <1>5, <2>1, <2>4, <2>5, <2>8 DEF FQueues
<1> QED BY <1>4, <1>5

(* A worker ends: one I/O less under way, one less on the latch.            *)
LEMMA FEndQueues ==
  ASSUME FTyped, FQueues, NEW io \in DOMAIN fwork, EndIo(io)
  PROVE  /\ FQueues' /\ fcfg' = fcfg /\ fstruck' = fstruck /\ fq' = fq
         /\ \A i \in FJobs : fjob'[i].st = fjob[i].st
         /\ DOMAIN fwork' = DOMAIN fwork \ {io} /\ \A x \in DOMAIN fwork' : fwork'[x] = fwork[x]
         /\ ffail' = IF fwork[io].ok THEN ffail ELSE ffail \union {io[1]}
<1>0. /\ fcfg' = fcfg /\ fstruck' = fstruck /\ FStuck' = FStuck /\ fq' = fq /\ ffail \subseteq ffail'
      /\ FJobs' = FJobs /\ \A i : FIos(i)' = FIos(i)
      /\ FIoOK(io) /\ io[1] \in FJobs /\ fwork' = FEnded(io) /\ fjob' = FDone(fjob, io[1])
      /\ ffail' = IF fwork[io].ok THEN ffail ELSE ffail \union {io[1]}
  BY DEF EndIo, FStuck, FStruck, FJobs, FIos, FQueues, FBusyOK, FIoOK
<1>1. DOMAIN fwork' = DOMAIN fwork \ {io} /\ \A x \in DOMAIN fwork' : fwork'[x] = fwork[x]
  BY <1>0 DEF FEnded
<1>2. /\ DOMAIN fjob' = FJobs /\ \A i \in FJobs : FJobOK(fjob'[i]) /\ fjob'[i].st = fjob[i].st
      /\ \A i \in FJobs : i # io[1] => fjob'[i] = fjob[i]
      /\ fjob'[io[1]].left = IF fjob[io[1]].left > 0 THEN fjob[io[1]].left - 1 ELSE 0
  BY <1>0, FDoneIs DEF FQueues
<1>3. /\ IsFiniteSet(DOMAIN fwork')
      /\ \A i : Cardinality(FOf(DOMAIN fwork', i)) = IF io[1] = i THEN Cardinality(FOf(DOMAIN fwork, i)) - 1
                                                     ELSE Cardinality(FOf(DOMAIN fwork, i))
  BY <1>1, FOfLess DEF FQueues, FBusyOK
<1>4. FJobsOK' /\ FWaiting' /\ FBusyOK' /\ FOrder'
  BY <1>0, <1>1, <1>2, <1>3 DEF FQueues, FJobsOK, FWaiting, FBusyOK, FIoOK, FOrder
<1>5. FAway'
  BY <1>0, <1>1, <1>2 DEF FQueues, FAway, FUnderWay, FBusyOK, FIoOK
<1>6. \A i \in FJobs : FCount(i)'
  <2> SUFFICES ASSUME NEW i \in FJobs, FUnderWay(i)', i \notin ffail' \/ ~FStuck'  PROVE fjob'[i].left = FSum(i)'
    BY DEF FCount
  <2>1. fjob[i].left = FSum(i)
    BY <1>0, <1>2 DEF FQueues, FStates, FCount, FUnderWay
  <2>2. Cardinality(FOf(DOMAIN fwork, io[1])) # 0
    BY <1>0, FOfIs DEF FQueues, FBusyOK
  <2>3. /\ Cardinality(FOf(fq, i)) \in Nat /\ Cardinality(FOf(DOMAIN fwork, i)) \in Nat
        /\ FJobOK(fjob[i]) /\ fjob[i].left \in Nat
    BY FSizes DEF FQueues, FJobsOK, FJobOK
  <2> QED BY <1>0, <1>2, <1>3, <2>1, <2>2, <2>3 DEF FSum
<1>7. \A i : FIdle(i) => FIdle(i)'
  BY <1>0, <1>1 DEF FIdle
<1>8. FStates'
  BY <1>0, <1>2, <1>6, <1>7 DEF FQueues, FStates, FUnderWay
<1> QED BY <1>0, <1>1, <1>2, <1>4, <1>5, <1>8 DEF FQueues

(* A worker is abandoned: the latch of its failed task is no longer exact.  *)
LEMMA FAbandonQueues ==
  ASSUME FTyped, FQueues, NEW io \in DOMAIN fwork, Abandon(io)
  PROVE  /\ FQueues' /\ FStuck' /\ fcfg' = fcfg /\ fq' = fq /\ fstruck \subseteq fstruck'
         /\ \A i \in FJobs : fjob'[i].st = fjob[i].st
         /\ ffail' = ffail \union {io[1]} /\ DOMAIN fwork' = DOMAIN fwork
         /\ \A x \in DOMAIN fwork : /\ fwork'[x].pc = fwork[x].pc /\ fwork'[x].fd = fwork[x].fd
                                    /\ fwork'[x].ok = fwork[x].ok
<1>0. /\ fcfg' = fcfg /\ fstruck' = fstruck \union {<<"stuck", io>>} /\ fq' = fq /\ ffail' = ffail \union {io[1]}
      /\ FJobs' = FJobs /\ \A i : FIos(i)' = FIos(i)
      /\ FIoOK(io) /\ io[1] \in FJobs /\ fjob' = FDone(fjob, io[1]) /\ fwork' = [fwork EXCEPT ![io].left = TRUE]
  BY DEF Abandon, FJobs, FIos, FQueues, FBusyOK, FIoOK
<1>1. FStuck'
  <2>1. <<"stuck", io>> \in fstruck' /\ <<"stuck", io>>[1] = "stuck"
    BY <1>0
  <2> QED BY <2>1 DEF FStuck, FStruck
<1>2. /\ DOMAIN fwork' = DOMAIN fwork
      /\ \A x \in DOMAIN fwork : /\ fwork'[x].pc = fwork[x].pc /\ fwork'[x].fd = fwork[x].fd
                                 /\ fwork'[x].ok = fwork[x].ok /\ FWorkOK(fwork'[x])
                                 /\ x # io => fwork'[x] = fwork[x]
  <2>1. \A x \in DOMAIN fwork : FWorkOK(fwork[x])
    BY DEF FQueues, FBusyOK
  <2>2. \A x \in DOMAIN fwork : fwork'[x] = IF x = io THEN [fwork[io] EXCEPT !.left = TRUE] ELSE fwork[x]
    BY <1>0
  <2> QED BY <1>0, <2>1, <2>2 DEF FWorkOK
<1>3. /\ DOMAIN fjob' = FJobs /\ \A i \in FJobs : FJobOK(fjob'[i]) /\ fjob'[i].st = fjob[i].st
      /\ \A i \in FJobs : i # io[1] => fjob'[i] = fjob[i]
  BY <1>0, FDoneIs DEF FQueues
<1>4. FJobsOK' /\ FWaiting' /\ FBusyOK' /\ FOrder'
  BY <1>0, <1>2, <1>3 DEF FQueues, FJobsOK, FWaiting, FBusyOK, FIoOK, FOrder
<1>5. FAway'
  BY <1>0, <1>1, <1>2, <1>3 DEF FQueues, FAway, FUnderWay, FBusyOK, FIoOK
<1>6. \A i : FSum(i)' = FSum(i) /\ FIdle(i)' = FIdle(i)
  BY <1>0, <1>2 DEF FSum, FIdle
<1>7. FStates'
  BY <1>0, <1>1, <1>3, <1>6 DEF FQueues, FStates, FCount, FUnderWay
<1> QED BY <1>0, <1>1, <1>2, <1>3, <1>4, <1>5, <1>7 DEF FQueues

(* A process dies: its tasks have nothing left, the others are as they were.*)
LEMMA FCrashQueues ==
  ASSUME FTyped, FQueues, NEW p, Crash(p)
  PROVE  /\ FQueues' /\ fcfg' = fcfg /\ fstruck \subseteq fstruck' /\ <<"crash", p>> \in fstruck'
         /\ fq' \subseteq fq /\ DOMAIN fwork' \subseteq DOMAIN fwork
         /\ \A x \in DOMAIN fwork' : fwork'[x] = fwork[x]
         /\ \A i \in FJobs : \/ fjob'[i].st = "dead"
                             \/ /\ fjob'[i] = fjob[i] /\ (i \in ffail' <=> i \in ffail)
                                /\ \A k : /\ <<i, k>> \in fq' <=> <<i, k>> \in fq
                                          /\ <<i, k>> \in DOMAIN fwork' <=> <<i, k>> \in DOMAIN fwork
<1>0. /\ fcfg' = fcfg /\ fstruck' = fstruck \union {<<"crash", p>>}
      /\ FJobs' = FJobs /\ \A i : FIos(i)' = FIos(i)
      /\ \A io : io \in fq' <=> io \in fq /\ FProc(io[1]) # p
      /\ \A io : io \in DOMAIN fwork' <=> io \in DOMAIN fwork /\ FProc(io[1]) # p
      /\ \A i : i \in ffail' <=> i \in ffail /\ FProc(i) # p
      /\ \A x \in DOMAIN fwork' : fwork'[x] = fwork[x]
  BY DEF Crash, FJobs, FIos
<1>1. FStuck' = FStuck
  BY <1>0 DEF FStuck, FStruck
<1>2. /\ DOMAIN fjob' = FJobs /\ \A i \in FJobs : FJobOK(fjob'[i])
      /\ \A i \in FJobs : IF FProc(i) = p THEN fjob'[i].st = "dead" ELSE fjob'[i] = fjob[i]
  BY DEF Crash, FQueues, FJobsOK, FJobOK
<1>3. fq' \subseteq fq /\ DOMAIN fwork' \subseteq DOMAIN fwork /\ IsFiniteSet(fq') /\ IsFiniteSet(DOMAIN fwork')
  BY <1>0, FS_Subset DEF FQueues, FWaiting, FBusyOK
<1>4. FJobsOK' /\ FWaiting' /\ FBusyOK'
  BY <1>0, <1>2, <1>3 DEF FQueues, FJobsOK, FWaiting, FBusyOK, FIoOK
<1>5. FOrder'
  BY <1>0 DEF FQueues, FOrder
<1>6. FAway'
  BY <1>0, <1>1, <1>2 DEF FQueues, FAway, FUnderWay, FBusyOK, FIoOK
<1>7. \A i : FProc(i) # p => FOf(fq', i) = FOf(fq, i) /\ FOf(DOMAIN fwork', i) = FOf(DOMAIN fwork, i)
  BY <1>0 DEF FOf
<1>8. \A i : FIdle(i) => FIdle(i)'
  BY <1>0 DEF FIdle
<1>9. \A i : FProc(i) = p => FIdle(i)'
  BY <1>0 DEF FIdle
<1>10. \A i : FProc(i) # p => FSum(i)' = FSum(i)
  BY <1>7 DEF FSum
<1>11. FStates'
  BY <1>0, <1>1, <1>2, <1>8, <1>9, <1>10 DEF FQueues, FStates, FCount, FUnderWay
<1>12. FQueues'
  BY <1>4, <1>5, <1>6, <1>11 DEF FQueues
<1> QED BY <1>0, <1>2, <1>3, <1>12

----------------------------------------------------------------------------
(* What the workers do, name by name                                        *)

(* The setup does not change, and what faults have excluded stays excluded. *)
LEMMA FSame ==
  ASSUME fcfg' = fcfg, fstruck \subseteq fstruck'
  PROVE  /\ FJobs' = FJobs /\ FBlocks' = FBlocks /\ FList' = FList /\ FWorkers' = FWorkers
         /\ \A j : FKind(j)' = FKind(j) /\ FIos(j)' = FIos(j) /\ FPool(j)' = FPool(j) /\ FProc(j)' = FProc(j)
         /\ \A io : FBlock(io)' = FBlock(io) /\ FShard(io)' = FShard(io) /\ FLast(io)' = FLast(io)
         /\ (FStuck => FStuck') /\ (FOneWriter' => FOneWriter) /\ (FSeries' => FSeries) /\ (FClean' => FClean)
         /\ \A io : FIoOK(io)' = FIoOK(io)
<1>1. /\ FJobs' = FJobs /\ FBlocks' = FBlocks /\ FList' = FList /\ FWorkers' = FWorkers
      /\ \A j : FKind(j)' = FKind(j) /\ FIos(j)' = FIos(j) /\ FPool(j)' = FPool(j) /\ FProc(j)' = FProc(j)
      /\ \A io : FBlock(io)' = FBlock(io) /\ FShard(io)' = FShard(io) /\ FLast(io)' = FLast(io)
      /\ \A io : FIoOK(io)' = FIoOK(io)
  BY DEF FJobs, FBlocks, FList, FWorkers, FKind, FIos, FPool, FProc, FBlock, FShard, FLast, FIo, FIoOK
<1>2. (FStuck => FStuck') /\ (FClean' => FClean)
  BY DEF FStuck, FClean, FStruck
<1>3. \A j : FLastIsLast(j)' = FLastIsLast(j)
  BY DEF FLastIsLast, FIos, FLast, FShard, FBlock, FIo
<1>4. FOneWriter' => FOneWriter
  BY <1>1, <1>2, <1>3 DEF FOneWriter, FStuck
<1>5. FSeries' => FSeries
  BY <1>4 DEF FSeries
<1> QED BY <1>1, <1>2, <1>4, <1>5

(* A step of one worker, which leaves tasks and queues alone.               *)
FAround(io) ==
  /\ fcfg' = fcfg /\ fjob' = fjob /\ ffail' = ffail /\ fq' = fq /\ fgc' = fgc /\ fstruck \subseteq fstruck'
  /\ DOMAIN fwork' = DOMAIN fwork /\ \A x \in DOMAIN fwork : x # io => fwork'[x] = fwork[x]

(* One worker goes on and keeps its I/O.                                    *)
LEMMA FAroundKeeps ==
  ASSUME FTyped, FQueues, NEW io \in DOMAIN fwork, FAround(io), FWorkOK(fwork'[io]), fwork'[io].left = fwork[io].left
  PROVE  FQueues'
<1>1. \A x \in DOMAIN fwork : FWorkOK(fwork'[x]) /\ fwork'[x].left = fwork[x].left
  BY DEF FAround, FQueues, FBusyOK
<1>2. FStuck => FStuck'
  BY FSame DEF FAround
<1> QED BY <1>1, <1>2, FStepKeeps DEF FAround

(* Opening sets three fields of the worker.                                 *)
FOpens(io, f, o, p) ==
  /\ f \in Nat /\ o \in BOOLEAN /\ p \in {"open", "io", "commit", "remove", "end"}
  /\ fwork' = [fwork EXCEPT ![io].fd = f, ![io].ok = o, ![io].pc = p]

(* What the worker knows after opening.                                     *)
LEMMA FOpened ==
  ASSUME NEW io \in DOMAIN fwork, FWorkOK(fwork[io]), NEW f, NEW o, NEW p, FOpens(io, f, o, p)
  PROVE  /\ FWorkOK(fwork'[io]) /\ fwork'[io].fd = f /\ fwork'[io].ok = o /\ fwork'[io].pc = p
         /\ fwork'[io].left = fwork[io].left
         /\ DOMAIN fwork' = DOMAIN fwork /\ \A x \in DOMAIN fwork : x # io => fwork'[x] = fwork[x]
BY DEF FWorkOK, FOpens

(* Open creates a .tmp file, opens one that is there, or fails.             *)
LEMMA FOpenIs ==
  ASSUME FTyped, FQueues, NEW io \in DOMAIN fwork, OpenFile(io)
  PROVE  /\ FTyped' /\ FQueues' /\ FAround(io) /\ fmem' = fmem /\ flook' = flook /\ fwork[io].pc = "open"
         /\ fdir'.arch = fdir.arch
         /\ \A x \in 1..Len(fino) : x \in 1..Len(fino') /\ fino'[x] = fino[x]
         /\ \/ /\ FKind(io[1]) = "dump" /\ fdir.tmp[FBlock(io)] = 0
               /\ fdir'.tmp[FBlock(io)] = Len(fino) + 1 /\ Len(fino') = Len(fino) + 1
               /\ \A b \in FBlocks : b # FBlock(io) => fdir'.tmp[b] = fdir.tmp[b]
               /\ fwork'[io].pc = "io" /\ fwork'[io].ok /\ fwork'[io].fd = Len(fino) + 1
            \/ /\ FKind(io[1]) = "dump" /\ fdir.tmp[FBlock(io)] # 0 /\ fdir' = fdir /\ fino' = fino
               /\ fwork'[io].pc = "io" /\ fwork'[io].ok /\ fwork'[io].fd = fdir.tmp[FBlock(io)]
            \/ /\ FKind(io[1]) = "load" /\ fdir' = fdir /\ fino' = fino
               /\ \/ fwork'[io].pc = "end" /\ ~fwork'[io].ok
                  \/ /\ fwork'[io].pc = "io" /\ fwork'[io].fd = fdir.arch[FBlock(io)]
                     /\ fdir.arch[FBlock(io)] # 0
            \/ /\ <<"io", io>> \in fstruck' /\ fdir' = fdir /\ fino' = fino /\ ~fwork'[io].ok
               /\ \/ fwork'[io].pc = "end"
                  \/ fwork'[io].pc = "remove" /\ FKind(io[1]) = "dump" /\ FLast(io)
<1> DEFINE b == FBlock(io)
           fd == IF FKind(io[1]) = "dump" /\ fdir.tmp[b] = 0 THEN Len(fino) + 1
                 ELSE IF FKind(io[1]) = "dump" THEN fdir.tmp[b] ELSE fdir.arch[b]
<1>0. /\ fcfg' = fcfg /\ fjob' = fjob /\ ffail' = ffail /\ fq' = fq /\ fgc' = fgc /\ fstruck \subseteq fstruck'
      /\ fmem' = fmem /\ flook' = flook /\ fwork[io].pc = "open"
  BY DEF OpenFile, ffiles
<1>1. /\ FIoOK(io) /\ FWorkOK(fwork[io]) /\ FBlock(io) \in FBlocks /\ FKind(io[1]) \in {"load", "dump"}
      /\ fino \in Seq(SUBSET (0..fcfg.nShardPerBlock - 1)) /\ Len(fino) \in Nat /\ FDirOK(fdir)
      /\ fdir.tmp[b] \in 0..Len(fino) /\ fdir.arch[b] \in 0..Len(fino)
  BY FIoIs DEF FTyped, FQueues, FBusyOK, FDirOK
<1>2. ASSUME FDirOK(fdir)', fino' \in Seq(SUBSET (0..fcfg.nShardPerBlock - 1))  PROVE FTyped'
  BY <1>0, <1>2, FSame DEF FTyped, FMemory, FLookOK
<1>3. ASSUME DOMAIN fwork' = DOMAIN fwork, \A x \in DOMAIN fwork : x # io => fwork'[x] = fwork[x],
             FWorkOK(fwork'[io]), fwork'[io].left = fwork[io].left
      PROVE  FAround(io) /\ FQueues'
  <2>1. FAround(io)
    BY <1>0, <1>3 DEF FAround
  <2> QED BY <1>3, <2>1, FAroundKeeps
<1>4. CASE FKind(io[1]) = "dump" /\ fdir.tmp[b] = 0 /\ fino' = Append(fino, {})
           /\ fdir' = [fdir EXCEPT !.tmp[b] = Len(fino) + 1]
           /\ fwork' = [fwork EXCEPT ![io].fd = Len(fino) + 1, ![io].ok = TRUE, ![io].pc = "io"]
  <2>0. /\ fwork'[io].fd = Len(fino) + 1 /\ fwork'[io].ok /\ fwork'[io].pc = "io"
        /\ FWorkOK(fwork'[io]) /\ fwork'[io].left = fwork[io].left
        /\ DOMAIN fwork' = DOMAIN fwork /\ \A x \in DOMAIN fwork : x # io => fwork'[x] = fwork[x]
    <3> DEFINE o == TRUE
    <3>1. FOpens(io, Len(fino) + 1, o, "io")
      BY <1>1, <1>4 DEF FOpens
    <3> HIDE DEF o
    <3>2. /\ fwork'[io].fd = Len(fino) + 1 /\ fwork'[io].ok = o /\ fwork'[io].pc = "io"
          /\ FWorkOK(fwork'[io]) /\ fwork'[io].left = fwork[io].left
          /\ DOMAIN fwork' = DOMAIN fwork /\ \A x \in DOMAIN fwork : x # io => fwork'[x] = fwork[x]
      BY <1>1, <3>1, FOpened
    <3> QED BY <3>2 DEF o
  <2>1. /\ FAround(io) /\ FQueues' /\ fwork'[io].fd = Len(fino) + 1 /\ fwork'[io].ok /\ fwork'[io].pc = "io"
    BY <1>3, <2>0
  <2>2. /\ Len(fino') = Len(fino) + 1 /\ fino' \in Seq(SUBSET (0..fcfg.nShardPerBlock - 1))
        /\ \A x \in 1..Len(fino) : x \in 1..Len(fino') /\ fino'[x] = fino[x]
    BY <1>1, <1>4
  <2>3. /\ fdir' = [tmp |-> fdir'.tmp, arch |-> fdir'.arch] /\ fdir'.arch = fdir.arch
        /\ fdir'.tmp = [fdir.tmp EXCEPT ![b] = Len(fino) + 1]
    BY <1>1, <1>4 DEF FDirOK
  <2>4. fdir.tmp \in [FBlocks -> 0..Len(fino)] /\ fdir.arch \in [FBlocks -> 0..Len(fino)]
    BY <1>1 DEF FDirOK
  <2>5. /\ fdir'.tmp[b] = Len(fino) + 1 /\ \A c \in FBlocks : c # b => fdir'.tmp[c] = fdir.tmp[c]
        /\ fdir'.tmp \in [FBlocks -> 0..Len(fino')] /\ fdir'.arch \in [FBlocks -> 0..Len(fino')]
    BY <1>1, <2>2, <2>3, <2>4
  <2>6. FTyped'
    BY <1>0, <1>2, <2>2, <2>3, <2>5, FSame DEF FDirOK
  <2> QED BY <1>0, <1>4, <2>1, <2>2, <2>3, <2>5, <2>6
<1>5. CASE FKind(io[1]) = "dump" /\ fdir.tmp[b] # 0 /\ fino' = fino /\ fdir' = fdir
           /\ fwork' = [fwork EXCEPT ![io].fd = fdir.tmp[b], ![io].ok = TRUE, ![io].pc = "io"]
  <2>0. /\ fwork'[io].fd = fdir.tmp[b] /\ fwork'[io].ok /\ fwork'[io].pc = "io"
        /\ FWorkOK(fwork'[io]) /\ fwork'[io].left = fwork[io].left
        /\ DOMAIN fwork' = DOMAIN fwork /\ \A x \in DOMAIN fwork : x # io => fwork'[x] = fwork[x]
    <3> DEFINE o == TRUE
    <3>1. FOpens(io, fdir.tmp[b], o, "io")
      BY <1>1, <1>5 DEF FOpens
    <3> HIDE DEF o
    <3>2. /\ fwork'[io].fd = fdir.tmp[b] /\ fwork'[io].ok = o /\ fwork'[io].pc = "io"
          /\ FWorkOK(fwork'[io]) /\ fwork'[io].left = fwork[io].left
          /\ DOMAIN fwork' = DOMAIN fwork /\ \A x \in DOMAIN fwork : x # io => fwork'[x] = fwork[x]
      BY <1>1, <3>1, FOpened
    <3> QED BY <3>2 DEF o
  <2>1. /\ FAround(io) /\ FQueues' /\ fwork'[io].fd = fdir.tmp[b] /\ fwork'[io].ok /\ fwork'[io].pc = "io"
    BY <1>3, <2>0
  <2>2. FTyped'
    BY <1>0, <1>1, <1>2, <1>5, FSame DEF FDirOK
  <2> QED BY <1>0, <1>5, <2>1, <2>2
<1>6. CASE FKind(io[1]) = "load" /\ fino' = fino /\ fdir' = fdir
           /\ fwork' = [fwork EXCEPT ![io].fd = fdir.arch[b], ![io].ok = fdir.arch[b] # 0,
                                     ![io].pc = IF fdir.arch[b] = 0 THEN "end" ELSE "io"]
  <2> DEFINE o == fdir.arch[b] # 0
             p == IF fdir.arch[b] = 0 THEN "end" ELSE "io"
  <2>a. FOpens(io, fdir.arch[b], o, p)
    BY <1>1, <1>6 DEF FOpens
  <2> HIDE DEF o, p
  <2>c. /\ FWorkOK(fwork'[io]) /\ fwork'[io].fd = fdir.arch[b] /\ fwork'[io].ok = o /\ fwork'[io].pc = p
        /\ fwork'[io].left = fwork[io].left
        /\ DOMAIN fwork' = DOMAIN fwork /\ \A x \in DOMAIN fwork : x # io => fwork'[x] = fwork[x]
    BY <1>1, <2>a, FOpened
  <2>0. IF fdir.arch[b] = 0 THEN fwork'[io].pc = "end" /\ ~fwork'[io].ok ELSE fwork'[io].pc = "io"
    BY <2>c DEF o, p
  <2>1. FAround(io) /\ FQueues'
    BY <1>3, <2>c
  <2>2. FTyped'
    BY <1>0, <1>1, <1>2, <1>6, FSame DEF FDirOK
  <2> QED BY <1>0, <1>6, <2>0, <2>1, <2>2, <2>c
<1>7. CASE fstruck' = fstruck \union {<<"io", io>>} /\ fino' = fino /\ fdir' = fdir
           /\ fwork' = [fwork EXCEPT ![io].ok = FALSE, ![io].pc = IF FKind(io[1]) = "dump" /\ FLast(io) THEN "remove" ELSE "end"]
  <2>1. /\ FWorkOK(fwork'[io]) /\ ~fwork'[io].ok /\ fwork'[io].left = fwork[io].left
        /\ fwork'[io].pc = IF FKind(io[1]) = "dump" /\ FLast(io) THEN "remove" ELSE "end"
    BY <1>1, <1>7 DEF FWorkOK
  <2>2. FAround(io)
    BY <1>0, <1>7 DEF FAround
  <2>3. FQueues'
    BY <2>1, <2>2, FAroundKeeps
  <2>4. FTyped'
    BY <1>0, <1>1, <1>2, <1>7, FSame DEF FDirOK
  <2> QED BY <1>0, <1>7, <2>1, <2>2, <2>3, <2>4
<1>8. \/ /\ fino' = IF FKind(io[1]) = "dump" /\ fdir.tmp[b] = 0 THEN Append(fino, {}) ELSE fino
         /\ fdir' = IF FKind(io[1]) = "dump" /\ fdir.tmp[b] = 0 THEN [fdir EXCEPT !.tmp[b] = fd] ELSE fdir
         /\ fwork' = [fwork EXCEPT ![io].fd = fd, ![io].ok = fd # 0, ![io].pc = IF fd = 0 THEN "end" ELSE "io"]
      \/ /\ fstruck' = fstruck \union {<<"io", io>>} /\ fino' = fino /\ fdir' = fdir
         /\ fwork' = [fwork EXCEPT ![io].ok = FALSE, ![io].pc = IF FKind(io[1]) = "dump" /\ FLast(io) THEN "remove" ELSE "end"]
  BY Zenon DEF OpenFile, ffiles
<1>9. CASE /\ fino' = IF FKind(io[1]) = "dump" /\ fdir.tmp[b] = 0 THEN Append(fino, {}) ELSE fino
           /\ fdir' = IF FKind(io[1]) = "dump" /\ fdir.tmp[b] = 0 THEN [fdir EXCEPT !.tmp[b] = fd] ELSE fdir
           /\ fwork' = [fwork EXCEPT ![io].fd = fd, ![io].ok = fd # 0, ![io].pc = IF fd = 0 THEN "end" ELSE "io"]
  <2>1. CASE FKind(io[1]) = "dump" /\ fdir.tmp[b] = 0
    <3>1. fd = Len(fino) + 1 /\ fd # 0
      BY <1>1, <2>1
    <3> QED BY <1>4, <1>9, <2>1, <3>1
  <2>2. CASE FKind(io[1]) = "dump" /\ fdir.tmp[b] # 0
    <3>1. fd = fdir.tmp[b] /\ fd # 0
      BY <1>1, <2>2
    <3> QED BY <1>5, <1>9, <2>2, <3>1
  <2>3. CASE FKind(io[1]) = "load"
    <3>1. fd = fdir.arch[b]
      BY <1>1, <2>3
    <3> QED BY <1>6, <1>9, <2>3, <3>1
  <2> QED BY <1>1, <2>1, <2>2, <2>3
<1> QED BY <1>7, <1>8, <1>9

(* What a lookup sees of a change of the names.                             *)
FSees ==
  /\ FLookOK' /\ flook'.pc = flook.pc /\ flook'.at = flook.at /\ flook'.late = flook.late
  /\ flook'.firstFail = flook.firstFail
  /\ flook.pc # "run" => flook' = flook
  /\ flook.pc = "run" =>
       /\ \A b : (b \in flook.ever => b \in flook'.ever) /\ (b \in flook.gap => b \in flook'.gap)
       /\ \A b \in FBlocks : IF FThere(b)' THEN b \in flook'.ever ELSE b \in flook'.gap

(* A lookup in progress sees the change of a name.                          *)
LEMMA FWatches ==
  ASSUME FLookOK, flook' = FWatch(fdir')
  PROVE  FSees
<1>1. CASE flook.pc = "run"
  <2>1. flook' = [flook EXCEPT !.ever = @ \union FPresent(fdir'), !.gap = @ \union (FBlocks \ FPresent(fdir'))]
    BY <1>1 DEF FWatch
  <2>2. /\ FLookOK' /\ flook'.pc = flook.pc /\ flook'.at = flook.at /\ flook'.late = flook.late
        /\ flook'.firstFail = flook.firstFail
        /\ flook'.ever = flook.ever \union FPresent(fdir')
        /\ flook'.gap = flook.gap \union (FBlocks \ FPresent(fdir'))
    BY <2>1 DEF FLookOK
  <2>3. \A b \in FBlocks : b \in FPresent(fdir') <=> FThere(b)'
    BY DEF FPresent, FThere
  <2> QED BY <1>1, <2>2, <2>3 DEF FSees
<1>2. CASE flook.pc # "run"
  BY <1>2 DEF FWatch, FSees, FLookOK
<1> QED BY <1>1, <1>2

(* A write adds a shard to one inode, or fails.                             *)
LEMMA FWriteIs ==
  ASSUME FTyped, FQueues, FSteps, NEW io \in DOMAIN fwork, WriteShard(io)
  PROVE  /\ FTyped' /\ FQueues' /\ FAround(io) /\ fmem' = fmem /\ flook' = flook /\ fdir' = fdir
         /\ fwork[io].pc = "io" /\ FKind(io[1]) = "dump" /\ fwork[io].fd \in 1..Len(fino) /\ Len(fino') = Len(fino)
         /\ \A x \in 1..Len(fino) : fino[x] \subseteq fino'[x]
         /\ \/ /\ FShard(io) \in fino'[fwork[io].fd] /\ fwork'[io].ok = fwork[io].ok
               /\ IF FLast(io) THEN fwork'[io].pc = "commit" ELSE fwork'[io].pc = "end"
            \/ /\ <<"io", io>> \in fstruck' /\ ~fwork'[io].ok /\ fino' = fino
               /\ IF FLast(io) THEN fwork'[io].pc = "remove" ELSE fwork'[io].pc = "end"
<1>0. /\ fcfg' = fcfg /\ fjob' = fjob /\ ffail' = ffail /\ fq' = fq /\ fgc' = fgc /\ fstruck \subseteq fstruck'
      /\ fmem' = fmem /\ flook' = flook /\ fdir' = fdir /\ fwork[io].pc = "io" /\ FKind(io[1]) = "dump"
  BY DEF WriteShard
<1>1. /\ FIoOK(io) /\ FWorkOK(fwork[io]) /\ FShard(io) \in 0..fcfg.nShardPerBlock - 1
      /\ fino \in Seq(SUBSET (0..fcfg.nShardPerBlock - 1)) /\ fwork[io].fd \in 1..Len(fino)
  BY <1>0, FIoIs DEF FTyped, FQueues, FBusyOK, FSteps
<1>2. CASE fino' = [fino EXCEPT ![fwork[io].fd] = @ \union {FShard(io)}] /\ FStep(io, IF FLast(io) THEN "commit" ELSE "end")
  <2>1. /\ fwork'[io].pc = (IF FLast(io) THEN "commit" ELSE "end") /\ fwork'[io].ok = fwork[io].ok
        /\ FWorkOK(fwork'[io]) /\ fwork'[io].left = fwork[io].left
        /\ DOMAIN fwork' = DOMAIN fwork /\ \A x \in DOMAIN fwork : x # io => fwork'[x] = fwork[x]
    BY <1>1, <1>2 DEF FWorkOK, FStep
  <2>2. FAround(io)
    BY <1>0, <2>1 DEF FAround
  <2>3. FQueues'
    BY <2>1, <2>2, FAroundKeeps
  <2>4. /\ Len(fino') = Len(fino) /\ fino' \in Seq(SUBSET (0..fcfg.nShardPerBlock - 1))
        /\ FShard(io) \in fino'[fwork[io].fd] /\ \A x \in 1..Len(fino) : fino[x] \subseteq fino'[x]
    BY <1>1, <1>2
  <2>5. FTyped'
    BY <1>0, <2>4, FSame DEF FTyped, FMemory, FDirOK, FLookOK
  <2> QED BY <1>0, <1>1, <2>1, <2>2, <2>3, <2>4, <2>5
<1>3. CASE /\ fstruck' = fstruck \union {<<"io", io>>} /\ fino' = fino
           /\ fwork' = [fwork EXCEPT ![io].ok = FALSE, ![io].pc = IF FLast(io) THEN "remove" ELSE "end"]
  <2>1. /\ fwork'[io].pc = (IF FLast(io) THEN "remove" ELSE "end") /\ ~fwork'[io].ok
        /\ FWorkOK(fwork'[io]) /\ fwork'[io].left = fwork[io].left
        /\ DOMAIN fwork' = DOMAIN fwork /\ \A x \in DOMAIN fwork : x # io => fwork'[x] = fwork[x]
    BY <1>1, <1>3 DEF FWorkOK
  <2>2. FAround(io)
    BY <1>0, <2>1 DEF FAround
  <2>3. FQueues'
    BY <2>1, <2>2, FAroundKeeps
  <2>4. FTyped'
    BY <1>0, <1>3, FSame DEF FTyped, FMemory, FDirOK, FLookOK
  <2> QED BY <1>0, <1>1, <1>3, <2>1, <2>2, <2>3, <2>4
<1> QED BY <1>2, <1>3 DEF WriteShard

(* A read that succeeds without a hole is right, whatever it found besides. *)
LEMMA FReadIs ==
  ASSUME FTyped, FQueues, FSteps, NEW io \in DOMAIN fwork, ReadShard(io)
  PROVE  /\ FTyped' /\ FQueues' /\ FAround(io) /\ flook' = flook /\ fdir' = fdir /\ fino' = fino
         /\ fwork[io].pc = "io" /\ FKind(io[1]) = "load" /\ fwork[io].fd \in 1..Len(fino)
         /\ fwork'[io].pc = "end"
         /\ \A j \in FJobs : \A k \in DOMAIN FIos(j) : <<j, k>> # io => fmem'[j][k] = fmem[j][k]
         /\ fwork'[io].ok => \E k \in fino[fwork[io].fd] : k >= FShard(io)
         /\ fwork'[io].ok /\ FShard(io) \in fino[fwork[io].fd] => fmem'[io[1]][io[2]] = "right"
<1>0. /\ fcfg' = fcfg /\ fjob' = fjob /\ ffail' = ffail /\ fq' = fq /\ fgc' = fgc /\ fstruck \subseteq fstruck'
      /\ fino' = fino /\ flook' = flook /\ fdir' = fdir /\ fwork[io].pc = "io" /\ FKind(io[1]) = "load"
  BY DEF ReadShard, ffiles
<1>1. /\ FIoOK(io) /\ FWorkOK(fwork[io]) /\ fwork[io].fd \in 1..Len(fino)
      /\ io[1] \in FJobs /\ io[2] \in DOMAIN FIos(io[1]) /\ io = <<io[1], io[2]>>
  BY <1>0, FIoIs DEF FTyped, FQueues, FBusyOK, FSteps, FIoOK
<1>2. DOMAIN fmem = FJobs /\ \A j \in FJobs : DOMAIN fmem[j] = DOMAIN FIos(j)
  BY DEF FTyped, FMemory
<1> DEFINE has == fino[fwork[io].fd]
           value == IF FShard(io) \in has THEN "right"
                    ELSE IF \E k \in has : k > FShard(io) THEN "hole" ELSE fmem[io[1]][io[2]]
<1>3. CASE /\ fmem' = [fmem EXCEPT ![io[1]][io[2]] = value]
           /\ fwork' = [fwork EXCEPT ![io].ok = \E k \in has : k >= FShard(io), ![io].pc = "end"]
  <2> DEFINE o == \E k \in has : k >= FShard(io)
  <2>0. fwork' = [fwork EXCEPT ![io].ok = o, ![io].pc = "end"] /\ o \in BOOLEAN
    BY <1>3
  <2> HIDE DEF o
  <2>1. /\ fwork'[io].pc = "end" /\ fwork'[io].ok = o
        /\ FWorkOK(fwork'[io]) /\ fwork'[io].left = fwork[io].left
        /\ DOMAIN fwork' = DOMAIN fwork /\ \A x \in DOMAIN fwork : x # io => fwork'[x] = fwork[x]
    BY <1>1, <2>0 DEF FWorkOK
  <2>2. FAround(io)
    BY <1>0, <2>1 DEF FAround
  <2>3. FQueues'
    BY <2>1, <2>2, FAroundKeeps
  <2> HIDE DEF value, has
  <2>4. /\ DOMAIN fmem' = FJobs /\ \A j \in FJobs : DOMAIN fmem'[j] = DOMAIN FIos(j)
        /\ fmem'[io[1]][io[2]] = value
        /\ \A j \in FJobs : \A k \in DOMAIN FIos(j) : (j # io[1] \/ k # io[2]) => fmem'[j][k] = fmem[j][k]
    BY <1>1, <1>2, <1>3
  <2>5. FTyped'
    BY <1>0, <2>4, FSame DEF FTyped, FMemory, FDirOK, FLookOK
  <2>6. \A j \in FJobs : \A k \in DOMAIN FIos(j) : <<j, k>> # io => fmem'[j][k] = fmem[j][k]
    BY <1>1, <2>4
  <2>7. FShard(io) \in has => value = "right"
    BY DEF value
  <2> QED BY <1>0, <1>1, <2>1, <2>2, <2>3, <2>4, <2>5, <2>6, <2>7 DEF o, has
<1>4. CASE fmem' = fmem /\ fwork' = [fwork EXCEPT ![io].ok = FALSE, ![io].pc = "end"]
  <2>1. /\ fwork'[io].pc = "end" /\ ~fwork'[io].ok
        /\ FWorkOK(fwork'[io]) /\ fwork'[io].left = fwork[io].left
        /\ DOMAIN fwork' = DOMAIN fwork /\ \A x \in DOMAIN fwork : x # io => fwork'[x] = fwork[x]
    BY <1>1, <1>4 DEF FWorkOK
  <2>2. FAround(io)
    BY <1>0, <2>1 DEF FAround
  <2>3. FQueues'
    BY <2>1, <2>2, FAroundKeeps
  <2>4. FTyped'
    BY <1>0, <1>4, FSame DEF FTyped, FMemory, FDirOK, FLookOK
  <2> QED BY <1>0, <1>1, <1>4, <2>1, <2>2, <2>3, <2>4
<1> QED BY <1>3, <1>4 DEF ReadShard

(* A commit moves the .tmp name, or has none to move.                       *)
LEMMA FCommitIs ==
  ASSUME FTyped, FQueues, FSteps, NEW io \in DOMAIN fwork, CommitFile(io)
  PROVE  /\ FTyped' /\ FQueues' /\ FAround(io) /\ fmem' = fmem /\ fino' = fino
         /\ fwork[io].pc = "commit" /\ FKind(io[1]) = "dump" /\ FLast(io) /\ fwork'[io].ok = fwork[io].ok
         /\ \/ /\ fdir.tmp[FBlock(io)] # 0 /\ fwork'[io].pc = "end" /\ FSees
               /\ fdir'.arch[FBlock(io)] = fdir.tmp[FBlock(io)] /\ fdir'.tmp[FBlock(io)] = 0
               /\ \A b \in FBlocks : b # FBlock(io) => fdir'.tmp[b] = fdir.tmp[b] /\ fdir'.arch[b] = fdir.arch[b]
            \/ /\ fdir.tmp[FBlock(io)] = 0 \/ <<"io", io>> \in fstruck'
               /\ fwork'[io].pc = "remove" /\ fdir' = fdir /\ flook' = flook
<1> DEFINE b == FBlock(io)
           d == [fdir EXCEPT !.arch[b] = fdir.tmp[b], !.tmp[b] = 0]
<1>0. /\ fcfg' = fcfg /\ fjob' = fjob /\ ffail' = ffail /\ fq' = fq /\ fgc' = fgc /\ fstruck \subseteq fstruck'
      /\ fino' = fino /\ fmem' = fmem /\ fwork[io].pc = "commit"
  BY DEF CommitFile
<1>1. /\ FIoOK(io) /\ FWorkOK(fwork[io]) /\ FKind(io[1]) = "dump" /\ FLast(io) /\ b \in FBlocks
      /\ fdir = [tmp |-> fdir.tmp, arch |-> fdir.arch]
      /\ fdir.tmp \in [FBlocks -> 0..Len(fino)] /\ fdir.arch \in [FBlocks -> 0..Len(fino)] /\ Len(fino) \in Nat
  BY <1>0, FIoIs DEF FTyped, FQueues, FBusyOK, FSteps, FDirOK
<1>2. ASSUME NEW p \in {"end", "remove"}, FStep(io, p)
      PROVE  FAround(io) /\ FQueues' /\ fwork'[io].pc = p /\ fwork'[io].ok = fwork[io].ok
  <2>1. /\ fwork'[io].pc = p /\ fwork'[io].ok = fwork[io].ok
        /\ FWorkOK(fwork'[io]) /\ fwork'[io].left = fwork[io].left
        /\ DOMAIN fwork' = DOMAIN fwork /\ \A x \in DOMAIN fwork : x # io => fwork'[x] = fwork[x]
    BY <1>1, <1>2 DEF FWorkOK, FStep
  <2>2. FAround(io)
    BY <1>0, <2>1 DEF FAround
  <2> QED BY <2>1, <2>2, FAroundKeeps
<1>3. CASE fdir.tmp[b] # 0 /\ fdir' = d /\ flook' = FWatch(d) /\ FStep(io, "end")
  <2>1. FAround(io) /\ FQueues' /\ fwork'[io].pc = "end" /\ fwork'[io].ok = fwork[io].ok
    BY <1>2, <1>3
  <2>2. FSees
    <3>1. flook' = FWatch(fdir')
      BY <1>3
    <3> QED BY <3>1, FWatches DEF FTyped
  <2>3. /\ fdir' = [tmp |-> fdir'.tmp, arch |-> fdir'.arch]
        /\ fdir'.tmp = [fdir.tmp EXCEPT ![b] = 0] /\ fdir'.arch = [fdir.arch EXCEPT ![b] = fdir.tmp[b]]
    BY <1>1, <1>3
  <2>4. /\ fdir'.arch[b] = fdir.tmp[b] /\ fdir'.tmp[b] = 0
        /\ \A c \in FBlocks : c # b => fdir'.tmp[c] = fdir.tmp[c] /\ fdir'.arch[c] = fdir.arch[c]
        /\ fdir'.tmp \in [FBlocks -> 0..Len(fino)] /\ fdir'.arch \in [FBlocks -> 0..Len(fino)]
    BY <1>1, <2>3
  <2>5. FTyped'
    BY <1>0, <2>2, <2>3, <2>4, FSame DEF FTyped, FMemory, FDirOK, FSees
  <2> QED BY <1>0, <1>1, <1>3, <2>1, <2>2, <2>4, <2>5
<1>4. CASE (fdir.tmp[b] = 0 \/ <<"io", io>> \in fstruck') /\ fdir' = fdir /\ flook' = flook /\ FStep(io, "remove")
  <2>1. FAround(io) /\ FQueues' /\ fwork'[io].pc = "remove" /\ fwork'[io].ok = fwork[io].ok
    BY <1>2, <1>4
  <2>2. FTyped'
    BY <1>0, <1>4, FSame DEF FTyped, FMemory, FDirOK, FLookOK
  <2> QED BY <1>0, <1>1, <1>4, <2>1, <2>2
<1> QED BY <1>3, <1>4 DEF CommitFile

(* The .tmp name goes away.                                                 *)
LEMMA FRemoveIs ==
  ASSUME FTyped, FQueues, FSteps, NEW io \in DOMAIN fwork, RemoveTmp(io)
  PROVE  /\ FTyped' /\ FQueues' /\ FAround(io) /\ fmem' = fmem /\ fino' = fino /\ flook' = flook
         /\ fwork[io].pc = "remove" /\ FKind(io[1]) = "dump" /\ FLast(io)
         /\ fwork'[io].pc = "end" /\ fwork'[io].ok = fwork[io].ok
         /\ fdir'.arch = fdir.arch /\ fdir'.tmp[FBlock(io)] = 0
         /\ \A b \in FBlocks : b # FBlock(io) => fdir'.tmp[b] = fdir.tmp[b]
<1> DEFINE b == FBlock(io)
<1>0. /\ fcfg' = fcfg /\ fjob' = fjob /\ ffail' = ffail /\ fq' = fq /\ fgc' = fgc /\ fstruck' = fstruck
      /\ fino' = fino /\ fmem' = fmem /\ fwork[io].pc = "remove" /\ flook' = flook
  BY DEF RemoveTmp
<1>1. /\ FIoOK(io) /\ FWorkOK(fwork[io]) /\ FKind(io[1]) = "dump" /\ FLast(io) /\ b \in FBlocks
      /\ fdir = [tmp |-> fdir.tmp, arch |-> fdir.arch]
      /\ fdir.tmp \in [FBlocks -> 0..Len(fino)] /\ fdir.arch \in [FBlocks -> 0..Len(fino)] /\ Len(fino) \in Nat
  BY <1>0, FIoIs DEF FTyped, FQueues, FBusyOK, FSteps, FDirOK
<1>2. /\ fwork'[io].pc = "end" /\ fwork'[io].ok = fwork[io].ok
      /\ FWorkOK(fwork'[io]) /\ fwork'[io].left = fwork[io].left
      /\ DOMAIN fwork' = DOMAIN fwork /\ \A x \in DOMAIN fwork : x # io => fwork'[x] = fwork[x]
  BY <1>1 DEF FWorkOK, FStep, RemoveTmp
<1>3. FAround(io)
  BY <1>0, <1>2 DEF FAround
<1>4. FQueues'
  BY <1>2, <1>3, FAroundKeeps
<1>5. /\ fdir' = [tmp |-> fdir'.tmp, arch |-> fdir'.arch]
      /\ fdir'.tmp = [fdir.tmp EXCEPT ![b] = 0] /\ fdir'.arch = fdir.arch
  BY <1>1 DEF RemoveTmp
<1>6. /\ fdir'.tmp[b] = 0 /\ fdir'.tmp \in [FBlocks -> 0..Len(fino)]
      /\ \A c \in FBlocks : c # b => fdir'.tmp[c] = fdir.tmp[c]
  BY <1>1, <1>5
<1>7. FTyped'
  BY <1>0, <1>1, <1>5, <1>6, FSame DEF FTyped, FMemory, FDirOK, FLookOK
<1> QED BY <1>0, <1>1, <1>2, <1>3, <1>4, <1>5, <1>6, <1>7

(* The collector and the lookups leave tasks, workers and contents alone.   *)
FAside == /\ fcfg' = fcfg /\ fjob' = fjob /\ ffail' = ffail /\ fq' = fq /\ fwork' = fwork /\ fino' = fino
          /\ fmem' = fmem /\ fstruck \subseteq fstruck'

(* So their queues and latches stay.                                        *)
LEMMA FAsideKeeps ==
  ASSUME FQueues, FAside
  PROVE  FQueues'
<1>1. \A x \in DOMAIN fwork : FWorkOK(fwork'[x]) /\ fwork'[x].left = fwork[x].left
  BY DEF FAside, FQueues, FBusyOK
<1> QED BY <1>1, FStepKeeps, FSame DEF FAside

(* The collector removes names, and was started.                            *)
LEMMA FGcRemoves ==
  ASSUME FTyped, FQueues, GcRemoves
  PROVE  /\ FTyped' /\ FQueues' /\ FAside /\ FSees /\ fgc # <<>> /\ fstruck' = fstruck
         /\ fdir'.tmp = fdir.tmp
         /\ \A b \in FBlocks : fdir'.arch[b] = fdir.arch[b] \/ fdir'.arch[b] = 0
<1>0. /\ fcfg' = fcfg /\ fjob' = fjob /\ ffail' = ffail /\ fq' = fq /\ fwork' = fwork /\ fstruck' = fstruck
      /\ fino' = fino /\ fmem' = fmem /\ fgc # <<>>
      /\ fdir' = [fdir EXCEPT !.arch[Head(fgc)] = 0] /\ flook' = FWatch(fdir')
  BY DEF GcRemoves
<1>1. FAside
  BY <1>0 DEF FAside
<1>2. /\ fdir = [tmp |-> fdir.tmp, arch |-> fdir.arch]
      /\ fdir.tmp \in [FBlocks -> 0..Len(fino)] /\ fdir.arch \in [FBlocks -> 0..Len(fino)] /\ Len(fino) \in Nat
  BY DEF FTyped, FDirOK
<1>3. /\ fdir' = [tmp |-> fdir'.tmp, arch |-> fdir'.arch]
      /\ fdir'.tmp = fdir.tmp /\ fdir'.arch = [fdir.arch EXCEPT ![Head(fgc)] = 0]
  BY <1>0, <1>2
<1>4. /\ \A b \in FBlocks : fdir'.arch[b] = fdir.arch[b] \/ fdir'.arch[b] = 0
      /\ fdir'.arch \in [FBlocks -> 0..Len(fino)]
  <2> DEFINE h == Head(fgc)
  <2>1. fdir'.arch = [fdir.arch EXCEPT ![h] = 0]
    BY <1>3
  <2> HIDE DEF h
  <2>2. \A b \in FBlocks : fdir'.arch[b] = IF b = h THEN 0 ELSE fdir.arch[b]
    BY <1>2, <2>1
  <2>3. DOMAIN fdir'.arch = FBlocks /\ \A b \in FBlocks : fdir'.arch[b] \in 0..Len(fino)
    BY <1>2, <2>1, <2>2
  <2>4. fdir'.arch \in [FBlocks -> 0..Len(fino)]
    BY <1>2, <2>1, <2>3
  <2> QED BY <2>2, <2>4
<1>5. FSees
  BY <1>0, FWatches DEF FTyped
<1>6. FTyped'
  BY <1>0, <1>2, <1>3, <1>4, <1>5, FSame DEF FTyped, FMemory, FDirOK, FSees
<1> QED BY <1>0, <1>1, <1>3, <1>4, <1>5, <1>6, FAsideKeeps

(* The collector only lists names.                                          *)
LEMMA FGcScans ==
  ASSUME FTyped, FQueues, GcScans
  PROVE  FTyped' /\ FQueues' /\ FAside /\ fdir' = fdir /\ flook' = flook /\ ~FClean'
<1>0. /\ fcfg' = fcfg /\ fjob' = fjob /\ ffail' = ffail /\ fq' = fq /\ fwork' = fwork
      /\ fino' = fino /\ fmem' = fmem /\ fdir' = fdir /\ flook' = flook /\ fstruck' = fstruck \union {<<"gc", 0>>}
  BY DEF GcScans, ffiles
<1>1. FAside
  BY <1>0 DEF FAside
<1>2. FTyped'
  BY <1>0, FSame DEF FTyped, FMemory, FDirOK, FLookOK
<1>3. <<"gc", 0>> \in fstruck' /\ <<"gc", 0>>[1] = "gc"
  BY <1>0
<1>4. ~FClean'
  BY <1>3 DEF FClean, FStruck
<1> QED BY <1>0, <1>1, <1>2, <1>4, FAsideKeeps

(* The steps that do not touch files.                                       *)
LEMMA FTypedStays ==
  ASSUME FTyped, fcfg' = fcfg, fino' = fino, fdir' = fdir, fmem' = fmem, FLookOK'
  PROVE  FTyped'
BY DEF FTyped, FMemory, FDirOK, FJobs, FIos, FBlocks

----------------------------------------------------------------------------
(* Blocks of several shards with one worker                                 *)

(* With one worker there are no abandoned workers and dumps are in order.   *)
LEMMA FSeriesIs ==
  ASSUME FSeries
  PROVE  /\ ~FStuck /\ fcfg.conc = 1
         /\ \A j \in FJobs : FKind(j) = "dump" => FLastIsLast(j)
         /\ \A i, j \in FJobs : i # j /\ FKind(i) = "dump" /\ FKind(j) = "dump" =>
              \A k \in DOMAIN FIos(i), m \in DOMAIN FIos(j) : FBlock(<<i, k>>) # FBlock(<<j, m>>)
BY DEF FSeries, FOneWriter, FStuck

(* Dumps under way are of different blocks.                                 *)
LEMMA FApart ==
  ASSUME FTyped, FQueues, FOneByOne, FSeries, NEW x \in DOMAIN fwork, NEW y \in DOMAIN fwork, x # y,
         FKind(x[1]) = "dump", FKind(y[1]) = "dump"
  PROVE  FBlock(x) # FBlock(y)
<1>1. FIoOK(x) /\ FIoOK(y)
  BY DEF FQueues, FBusyOK
<1>2. x[1] # y[1]
  BY DEF FOneByOne, FPool
<1>3. FBlock(<<x[1], x[2]>>) # FBlock(<<y[1], y[2]>>)
  BY <1>1, <1>2, FSeriesIs, FIoIs DEF FIoOK, FTyped
<1> QED BY <1>1, <1>3 DEF FIoOK

(* While the last shard of a block is written no shard of it waits.         *)
LEMMA FNothingAfter ==
  ASSUME FTyped, FQueues, FSeries, NEW io \in DOMAIN fwork, FKind(io[1]) = "dump", FLast(io),
         NEW k \in DOMAIN FIos(io[1]), <<io[1], k>> \in fq
  PROVE  FBlock(<<io[1], k>>) # FBlock(io)
<1> DEFINE j == io[1]
<1>1. /\ FIoOK(io) /\ io = <<j, io[2]>> /\ j \in FJobs /\ io[2] \in DOMAIN FIos(j) /\ io \notin fq
      /\ FIos(j) \in Seq(FBlocks \X (0..fcfg.nShardPerBlock - 1)) /\ DOMAIN FIos(j) = 1..Len(FIos(j))
      /\ Len(FIos(j)) \in Nat
  BY FIoIs, FSetupIs DEF FQueues, FBusyOK, FWaiting, FIoOK, FTyped
<1>2. k > io[2]
  <2>1. CASE k < io[2]
    <3>1. io \in fq
      BY <1>1, <2>1 DEF FQueues, FOrder
    <3> QED BY <1>1, <3>1
  <2>2. k # io[2]
    BY <1>1
  <2> QED BY <1>1, <2>1, <2>2
<1>3. SUFFICES ASSUME FBlock(<<j, k>>) = FBlock(io)  PROVE FALSE
  OBVIOUS
<1>4. FIos(j)[k] = <<FBlock(io), FShard(<<j, k>>)>> /\ FShard(<<j, k>>) \in 0..fcfg.nShardPerBlock - 1
  BY <1>1, <1>3 DEF FBlock, FShard, FIo
<1>5. FLastIsLast(j)
  BY <1>1, FSeriesIs
<1>6. PICK m \in 1..io[2] : FIos(j)[m] = <<FBlock(io), FShard(<<j, k>>)>>
  <2>1. FLast(<<j, io[2]>>)
    BY <1>1
  <2>2. \A s \in 0..fcfg.nShardPerBlock - 1 : \E m \in 1..io[2] : FIos(j)[m] = <<FBlock(<<j, io[2]>>), s>>
    BY <1>1, <1>5, <2>1 DEF FLastIsLast
  <2>3. FBlock(<<j, io[2]>>) = FBlock(io)
    BY <1>1
  <2> DEFINE s == FShard(<<j, k>>)
  <2>4. s \in 0..fcfg.nShardPerBlock - 1
    BY <1>4
  <2> HIDE DEF s
  <2>5. \E m \in 1..io[2] : FIos(j)[m] = <<FBlock(io), s>>
    BY <2>2, <2>3, <2>4
  <2> QED BY <2>5 DEF s
<1>7. m = k
  <2>1. m \in DOMAIN FIos(j) /\ FIos(j)[m] = FIos(j)[k]
    BY <1>1, <1>4, <1>6
  <2> HIDE DEF j
  <2>2. \A i \in DOMAIN FIos(j) : \A n \in DOMAIN FIos(j) : FIos(j)[n] = FIos(j)[i] => n = i
    BY <1>5 DEF FLastIsLast
  <2> QED BY <2>1, <2>2 DEF j
<1> QED BY <1>1, <1>2, <1>6, <1>7

(* When the last shard is to be committed all shards are there.             *)
LEMMA FAllThere ==
  ASSUME FTyped, FQueues, FSteps, FOneByOne, FSeries, NEW io \in DOMAIN fwork, FKind(io[1]) = "dump", FLast(io),
         fwork[io].pc = "commit"
  PROVE  fdir.tmp[FBlock(io)] # 0 /\ FWhole(fdir.tmp[FBlock(io)])
<1> DEFINE j == io[1]
           x == fdir.tmp[FBlock(io)]
<1>1. /\ FIoOK(io) /\ io = <<j, io[2]>> /\ j \in FJobs /\ io[2] \in DOMAIN FIos(j)
      /\ DOMAIN FIos(j) = 1..Len(FIos(j)) /\ Len(FIos(j)) \in Nat
      /\ FBlock(io) \in FBlocks
  BY FIoIs, FSetupIs DEF FQueues, FBusyOK, FIoOK, FTyped
<1>2. FWritten(io) /\ FHas(FBlock(io), FShard(io))
  BY DEF FOneByOne, FWriter
<1>3. FLastIsLast(j)
  BY <1>1, FSeriesIs
<1>4. \A s \in 0..fcfg.nShardPerBlock - 1 : FHas(FBlock(io), s)
  <2> SUFFICES ASSUME NEW s \in 0..fcfg.nShardPerBlock - 1  PROVE FHas(FBlock(io), s)
    OBVIOUS
  <2>1. PICK m \in 1..io[2] : FIos(j)[m] = <<FBlock(io), s>>
    <3>1. FLast(<<j, io[2]>>)
      BY <1>1
    <3>2. \A t \in 0..fcfg.nShardPerBlock - 1 : \E m \in 1..io[2] : FIos(j)[m] = <<FBlock(<<j, io[2]>>), t>>
      BY <1>1, <1>3, <3>1 DEF FLastIsLast
    <3> QED BY <1>1, <3>2
  <2>2. FBlock(<<j, m>>) = FBlock(io) /\ FShard(<<j, m>>) = s
    BY <2>1 DEF FBlock, FShard, FIo
  <2>3. CASE m = io[2]
    BY <1>1, <1>2, <2>2, <2>3
  <2>4. CASE m < io[2]
    BY <1>1, <1>2, <2>2, <2>4 DEF FWritten
  <2> QED BY <1>1, <2>3, <2>4
<1>5. x # 0 /\ x \in 1..Len(fino)
  BY <1>1, <1>2 DEF FHas, FTyped, FDirOK
<1>6. fino[x] \subseteq 0..fcfg.nShardPerBlock - 1
  BY <1>5 DEF FTyped
<1>7. 0..fcfg.nShardPerBlock - 1 \subseteq fino[x]
  BY <1>4 DEF FHas
<1> QED BY <1>5, <1>6, <1>7 DEF FWhole

(* Files that only grow.                                                    *)
LEMMA FGrowing ==
  ASSUME FTyped, FTyped', fcfg' = fcfg, \A x \in 1..Len(fino) : fino[x] \subseteq fino'[x] /\ x \in 1..Len(fino')
  PROVE  /\ \A x \in 1..Len(fino) : FWhole(x) => FWhole(x)'
         /\ \A b \in FBlocks : \A s : fdir'.tmp[b] = fdir.tmp[b] \/ fdir.tmp[b] = 0 => (FHas(b, s) => FHas(b, s)')
<1>1. /\ \A x \in 1..Len(fino) : fino[x] \subseteq 0..fcfg.nShardPerBlock - 1
      /\ \A x \in 1..Len(fino') : fino'[x] \subseteq 0..fcfg.nShardPerBlock - 1
  BY DEF FTyped
<1>2. \A b \in FBlocks : fdir.tmp[b] \in 0..Len(fino) /\ Len(fino) \in Nat
  BY DEF FTyped, FDirOK
<1>3. \A x \in 1..Len(fino) : FWhole(x) => FWhole(x)'
  BY <1>1 DEF FWhole
<1>4. ASSUME NEW b \in FBlocks, NEW s, fdir'.tmp[b] = fdir.tmp[b] \/ fdir.tmp[b] = 0, FHas(b, s)  PROVE FHas(b, s)'
  BY <1>2, <1>4 DEF FHas
<1> QED BY <1>3, <1>4

(* The lookup where no name changes, and where one does.                    *)
LEMMA FSearchStays ==
  ASSUME FSearch, fcfg' = fcfg, flook' = flook, fdir'.arch = fdir.arch
  PROVE  FSearch'
BY DEF FSearch, FThere, FList, FWorkers, FMine, FBlocks

(* Where a name changes, the lookup has noted it.                           *)
LEMMA FSearchSees ==
  ASSUME FTyped, FSearch, fcfg' = fcfg, FSees
  PROVE  FSearch'
<1>1. /\ FList' = FList /\ FWorkers' = FWorkers /\ FBlocks' = FBlocks /\ \A w, i : FMine(w, i)' = FMine(w, i)
      /\ FList \in Seq(FBlocks) /\ Len(FList) \in Nat
  BY FSetupIs DEF FList, FWorkers, FMine, FBlocks, FTyped
<1>2. CASE flook.pc # "run"
  <2>1. flook' = flook
    BY <1>2 DEF FSees
  <2> QED BY <1>1, <1>2, <2>1 DEF FSearch
<1>3. CASE flook.pc = "run"
  BY <1>1, <1>3 DEF FSearch, FSees
<1> QED BY <1>2, <1>3

(* Who writes another block goes on as before.                              *)
LEMMA FWriterStays ==
  ASSUME FTyped, NEW x \in DOMAIN fwork, FWriter(x), fwork'[x] = fwork[x], fcfg' = fcfg,
         fdir'.tmp[FBlock(x)] = fdir.tmp[FBlock(x)],
         \A s : FHas(FBlock(x), s) => FHas(FBlock(x), s)'
  PROVE  FWriter(x)'
<1>1. /\ FBlock(x)' = FBlock(x) /\ FShard(x)' = FShard(x) /\ FLast(x)' = FLast(x) /\ FIos(x[1])' = FIos(x[1])
      /\ \A io : FBlock(io)' = FBlock(io) /\ FShard(io)' = FShard(io)
  BY DEF FBlock, FShard, FLast, FIos, FIo
<1>2. FWritten(x) => FWritten(x)'
  BY <1>1 DEF FWritten
<1> QED BY <1>1, <1>2 DEF FWriter

(* What the I/Os before have written stays written.                         *)
LEMMA FPassedStays ==
  ASSUME FTyped, NEW j \in FJobs, FPassed(j), fcfg' = fcfg,
         \A k : <<j, k>> \in fq' => <<j, k>> \in fq,
         \A k, m \in DOMAIN FIos(j) : <<j, k>> \in fq' /\ <<j, m>> \in fq \union DOMAIN fwork
                    => <<j, m>> \in fq' \union DOMAIN fwork' \/ FBlock(<<j, m>>) # FBlock(<<j, k>>)
                       \/ FHas(FBlock(<<j, k>>), FShard(<<j, m>>))',
         \A k \in DOMAIN FIos(j) : <<j, k>> \in fq' => \A s : FHas(FBlock(<<j, k>>), s) => FHas(FBlock(<<j, k>>), s)'
  PROVE  FPassed(j)'
<1>1. FIos(j)' = FIos(j) /\ \A io : FBlock(io)' = FBlock(io) /\ FShard(io)' = FShard(io)
  BY DEF FBlock, FShard, FIos, FIo
<1>2. SUFFICES ASSUME NEW m \in DOMAIN FIos(j), NEW k \in DOMAIN FIos(j), m < k,
                      FBlock(<<j, m>>) = FBlock(<<j, k>>), <<j, k>> \in fq', <<j, m>> \notin fq', <<j, m>> \notin DOMAIN fwork'
               PROVE  FHas(FBlock(<<j, k>>), FShard(<<j, m>>))'
  BY <1>1 DEF FPassed
<1>3. CASE <<j, m>> \in fq \union DOMAIN fwork
  BY <1>2, <1>3
<1>4. CASE <<j, m>> \notin fq \union DOMAIN fwork
  <2>1. FHas(FBlock(<<j, k>>), FShard(<<j, m>>))
    BY <1>2, <1>4 DEF FPassed
  <2>2. \A s : FHas(FBlock(<<j, k>>), s) => FHas(FBlock(<<j, k>>), s)'
    BY <1>2
  <2> QED BY <1>1, <2>1, <2>2
<1> QED BY <1>3, <1>4

(* One worker goes on: the others are where they were, and what is known of *)
(* other blocks stays, as nothing waits behind the last shard of a block.   *)
FKeepsHas(io) ==
  \A b \in FBlocks : \A s : FHas(b, s) => FHas(b, s)' \/ (b = FBlock(io) /\ FKind(io[1]) = "dump" /\ FLast(io))
FKeepsTmp(io) ==
  \A b \in FBlocks : b # FBlock(io) \/ FKind(io[1]) # "dump" => fdir'.tmp[b] = fdir.tmp[b]

(* One worker goes on: what is queued behind it finds the earlier shards.   *)
LEMMA FAroundPassed ==
  ASSUME FTyped, FQueues, FSeries, NEW io \in DOMAIN fwork, FAround(io), FKeepsHas(io),
         NEW j \in FJobs, FKind(j) = "dump", FPassed(j)
  PROVE  FPassed(j)'
<1>1. fcfg' = fcfg /\ fq' = fq /\ DOMAIN fwork' = DOMAIN fwork
  BY DEF FAround
<1>2. \A x : FBlock(x)' = FBlock(x) /\ FShard(x)' = FShard(x)
  BY <1>1 DEF FBlock, FShard, FIos, FIo
<1>3. FIoOK(io) /\ io = <<io[1], io[2]>> /\ io[1] \in FJobs /\ io[2] \in DOMAIN FIos(io[1])
  BY FIoIs DEF FTyped, FQueues, FBusyOK, FIoOK
<1>4. ASSUME NEW k \in DOMAIN FIos(j), <<j, k>> \in fq, NEW s, FHas(FBlock(<<j, k>>), s)
      PROVE  FHas(FBlock(<<j, k>>), s)'
  <2>1. FBlock(<<j, k>>) \in FBlocks
    BY FSetupIs, FIoIs DEF FTyped, FIoOK
  <2>2. CASE FKind(io[1]) = "dump" /\ FLast(io)
    <3>1. CASE j = io[1]
      <4>1. FBlock(<<j, k>>) # FBlock(io)
        BY <1>4, <2>2, <3>1, FNothingAfter
      <4> QED BY <1>2, <1>4, <2>1, <4>1 DEF FKeepsHas
    <3>2. CASE j # io[1]
      <4>1. FBlock(<<j, k>>) # FBlock(<<io[1], io[2]>>)
        BY <1>3, <2>2, <3>2, FSeriesIs
      <4>2. FBlock(<<j, k>>) # FBlock(io)
        BY <1>3, <4>1
      <4> QED BY <1>2, <1>4, <2>1, <4>2 DEF FKeepsHas
    <3> QED BY <3>1, <3>2
  <2>3. CASE ~(FKind(io[1]) = "dump" /\ FLast(io))
    BY <1>2, <1>4, <2>1, <2>3 DEF FKeepsHas
  <2> QED BY <2>2, <2>3
<1>5. \A k, m \in DOMAIN FIos(j) : <<j, k>> \in fq' /\ <<j, m>> \in fq \union DOMAIN fwork
                  => <<j, m>> \in fq' \union DOMAIN fwork' \/ FBlock(<<j, m>>) # FBlock(<<j, k>>)
                     \/ FHas(FBlock(<<j, k>>), FShard(<<j, m>>))'
  BY <1>1
<1>6. \A k \in DOMAIN FIos(j) : <<j, k>> \in fq' => \A s : FHas(FBlock(<<j, k>>), s) => FHas(FBlock(<<j, k>>), s)'
  BY <1>1, <1>4
<1> QED BY <1>1, <1>5, <1>6, FPassedStays

(* One worker goes on: the conditions of blocks with several shards.        *)
LEMMA FAroundOneByOne ==
  ASSUME FInv, NEW io \in DOMAIN fwork, FAround(io), FTyped', FKeepsHas(io), FKeepsTmp(io),
         \A x \in 1..Len(fino) : fino[x] \subseteq fino'[x] /\ x \in 1..Len(fino'),
         FSeries => \A b \in FBlocks : fdir'.arch[b] # 0 => FWhole(fdir.arch[b])',
         FSeries /\ FKind(io[1]) = "dump" => FWriter(io)',
         FSeries /\ FKind(io[1]) = "load" /\ fwork'[io].pc = "io" => FWhole(fwork[io].fd)'
  PROVE  FOneByOne'
<1>1. FTyped /\ FQueues /\ FSteps /\ FOneByOne
  BY DEF FInv
<1>3. /\ fcfg' = fcfg /\ fjob' = fjob /\ ffail' = ffail /\ fq' = fq /\ fstruck \subseteq fstruck'
      /\ DOMAIN fwork' = DOMAIN fwork /\ \A x \in DOMAIN fwork : x # io => fwork'[x] = fwork[x]
  BY DEF FAround
<1>4. /\ FJobs' = FJobs /\ FBlocks' = FBlocks
      /\ \A j : FKind(j)' = FKind(j) /\ FPool(j)' = FPool(j)
      /\ \A x : FBlock(x)' = FBlock(x) /\ FShard(x)' = FShard(x) /\ FLast(x)' = FLast(x)
      /\ FSeries' => FSeries
  BY <1>3, FSame
<1>5. \A x \in 1..Len(fino) : FWhole(x) => FWhole(x)'
  BY <1>1, <1>3, FGrowing
<1>7. \A x \in DOMAIN fwork : FIoOK(x) /\ FBlock(x) \in FBlocks /\ x[1] \in FJobs
  BY <1>1, FIoIs DEF FTyped, FQueues, FBusyOK, FIoOK
<1>8. SUFFICES ASSUME FSeries, FSeries'
               PROVE  /\ \A b \in FBlocks : fdir'.arch[b] # 0 => FWhole(fdir.arch[b])'
                      /\ \A x, y \in DOMAIN fwork : FPool(x[1]) = FPool(y[1]) => x = y
                      /\ \A x \in DOMAIN fwork : /\ FKind(x[1]) = "dump" => FWriter(x)'
                                                 /\ FKind(x[1]) = "load" /\ fwork'[x].pc = "io" => FWhole(fwork[x].fd)'
                      /\ \A j \in FJobs : FKind(j) = "dump" /\ fjob[j].st = "wait" /\ j \notin ffail => FPassed(j)'
  BY <1>3, <1>4 DEF FOneByOne
<1>11. \A x, y \in DOMAIN fwork : FPool(x[1]) = FPool(y[1]) => x = y
  BY <1>1, <1>8 DEF FOneByOne
<1>12. \A j \in FJobs : FKind(j) = "dump" /\ fjob[j].st = "wait" /\ j \notin ffail => FPassed(j)'
  BY <1>1, <1>8, FAroundPassed DEF FOneByOne
<1>13. ASSUME NEW x \in DOMAIN fwork, FKind(x[1]) = "dump"  PROVE FWriter(x)'
  <2>1. FWriter(x)
    BY <1>1, <1>8, <1>13 DEF FOneByOne
  <2>2. CASE x # io
    <3>1. FBlock(x) # FBlock(io) \/ FKind(io[1]) # "dump"
      BY <1>1, <1>8, <1>13, <2>2, FApart
    <3>2. fdir'.tmp[FBlock(x)] = fdir.tmp[FBlock(x)]
      BY <1>7, <3>1 DEF FKeepsTmp
    <3>3. \A s : FHas(FBlock(x), s) => FHas(FBlock(x), s)'
      BY <1>4, <1>7, <3>1 DEF FKeepsHas
    <3> QED BY <1>1, <1>3, <2>1, <2>2, <3>2, <3>3, FWriterStays
  <2>3. CASE x = io
    BY <1>8, <1>13, <2>3
  <2> QED BY <2>2, <2>3
<1>14. ASSUME NEW x \in DOMAIN fwork, FKind(x[1]) = "load", fwork'[x].pc = "io"  PROVE FWhole(fwork[x].fd)'
  <2>1. CASE x # io
    <3>1. fwork[x].pc = "io" /\ fwork'[x].fd = fwork[x].fd /\ fwork[x].fd \in 1..Len(fino) /\ FWhole(fwork[x].fd)
      BY <1>1, <1>3, <1>8, <1>14, <2>1 DEF FSteps, FOneByOne
    <3> QED BY <1>5, <3>1
  <2>2. CASE x = io
    BY <1>8, <1>14, <2>2
  <2> QED BY <2>1, <2>2
<1> QED BY <1>8, <1>11, <1>12, <1>13, <1>14

(* Open: each worker is where its kind of I/O may be.                       *)
LEMMA FOpenSteps ==
  ASSUME FInv, NEW io \in DOMAIN fwork, OpenFile(io)
  PROVE  FSteps'
<1>1. FTyped /\ FQueues /\ FSteps
  BY DEF FInv
<1>2. FAround(io) /\ \A x \in 1..Len(fino) : x \in 1..Len(fino')
  BY <1>1, FOpenIs
<1>3. DOMAIN fwork' = DOMAIN fwork /\ (\A x : FLast(x)' = FLast(x)) /\ (\A j : FKind(j)' = FKind(j))
  BY <1>2, FSame DEF FAround
<1>4. FBlock(io) \in FBlocks
  BY <1>1, FIoIs DEF FTyped, FQueues, FBusyOK
<1>5. fdir.tmp[FBlock(io)] \in 0..Len(fino) /\ fdir.arch[FBlock(io)] \in 0..Len(fino) /\ Len(fino) \in Nat
  BY <1>1, <1>4 DEF FTyped, FDirOK
<1>6. /\ fwork'[io].pc = "io" => fwork'[io].fd \in 1..Len(fino')
      /\ fwork'[io].pc \in {"commit", "remove"} => FKind(io[1]) = "dump" /\ FLast(io)
  <2>1. \/ fwork'[io].pc = "io" /\ Len(fino') = Len(fino) + 1 /\ fwork'[io].fd = Len(fino) + 1
        \/ fwork'[io].pc = "io" /\ fino' = fino /\ fdir.tmp[FBlock(io)] # 0 /\ fwork'[io].fd = fdir.tmp[FBlock(io)]
        \/ fwork'[io].pc = "io" /\ fino' = fino /\ fdir.arch[FBlock(io)] # 0 /\ fwork'[io].fd = fdir.arch[FBlock(io)]
        \/ fwork'[io].pc = "end"
        \/ fwork'[io].pc = "remove" /\ FKind(io[1]) = "dump" /\ FLast(io)
    BY <1>1, FOpenIs
  <2> QED BY <1>5, <2>1
<1>7. \A x \in DOMAIN fwork : x # io => fwork'[x] = fwork[x]
  BY <1>2 DEF FAround
<1> QED BY <1>1, <1>2, <1>3, <1>6, <1>7 DEF FSteps

(* Open, for blocks of several shards.                                      *)
LEMMA FOpenOneByOne ==
  ASSUME FInv, NEW io \in DOMAIN fwork, OpenFile(io)
  PROVE  FOneByOne'
<1>1. FTyped /\ FQueues /\ FSteps /\ FOneByOne
  BY DEF FInv
<1>2. /\ FTyped' /\ FAround(io) /\ fwork[io].pc = "open" /\ fdir'.arch = fdir.arch
      /\ \A x \in 1..Len(fino) : fino[x] \subseteq fino'[x] /\ x \in 1..Len(fino')
  BY <1>1, FOpenIs
<1>3. fcfg' = fcfg /\ FIos(io[1])' = FIos(io[1]) /\ \A x : FBlock(x)' = FBlock(x) /\ FShard(x)' = FShard(x) /\ FLast(x)' = FLast(x)
  BY <1>2, FSame DEF FAround
<1>5. \A x \in 1..Len(fino) : FWhole(x) => FWhole(x)'
  BY <1>1, <1>2, <1>3, FGrowing
<1>6. FKeepsHas(io)
  <2>1. \A b \in FBlocks : fdir'.tmp[b] = fdir.tmp[b] \/ fdir.tmp[b] = 0
    BY <1>1, FOpenIs
  <2> QED BY <1>1, <1>2, <1>3, <2>1, FGrowing DEF FKeepsHas
<1>7. FKeepsTmp(io)
  BY <1>1, FOpenIs DEF FKeepsTmp
<1>8. FBlock(io) \in FBlocks /\ io[1] \in FJobs
  BY <1>1, FIoIs DEF FTyped, FQueues, FBusyOK, FIoOK
<1>9. \A b \in FBlocks : fdir.arch[b] \in 0..Len(fino) /\ Len(fino) \in Nat
  BY <1>1 DEF FTyped, FDirOK
<1>10. ASSUME FSeries  PROVE \A b \in FBlocks : fdir'.arch[b] # 0 => FWhole(fdir.arch[b])'
  BY <1>1, <1>2, <1>5, <1>9, <1>10 DEF FOneByOne
<1>11. ASSUME FSeries, FKind(io[1]) = "dump"  PROVE FWriter(io)'
  <2>1. FWritten(io)
    BY <1>1, <1>2, <1>11 DEF FOneByOne, FWriter
  <2>2. \A b \in FBlocks : \A s : FHas(b, s) => FHas(b, s)'
    <3>1. \A b \in FBlocks : fdir'.tmp[b] = fdir.tmp[b] \/ fdir.tmp[b] = 0
      BY <1>1, FOpenIs
    <3> QED BY <1>1, <1>2, <1>3, <3>1, FGrowing
  <2>3. FWritten(io)'
    BY <1>3, <1>8, <2>1, <2>2 DEF FWritten
  <2>4. \/ fwork'[io].pc = "io" /\ fwork'[io].fd = fdir'.tmp[FBlock(io)]
        \/ fwork'[io].pc \in {"end", "remove"} /\ ~fwork'[io].ok
    BY <1>1, <1>11, FOpenIs
  <2> QED BY <1>3, <2>3, <2>4 DEF FWriter
<1>12. ASSUME FSeries, FKind(io[1]) = "load", fwork'[io].pc = "io"  PROVE FWhole(fwork[io].fd)'
  <2>1. fwork'[io].fd = fdir.arch[FBlock(io)] /\ fdir.arch[FBlock(io)] # 0
    BY <1>1, <1>12, FOpenIs
  <2> QED BY <1>2, <1>8, <1>10, <1>12, <2>1
<1> QED BY <1>2, <1>6, <1>7, <1>10, <1>11, <1>12, FAroundOneByOne

(* One worker goes on: what loads have read.                                *)
LEMMA FAroundLoads ==
  ASSUME FInv, NEW io \in DOMAIN fwork, FAround(io),
         \A j \in FJobs : \A k \in DOMAIN FIos(j) : <<j, k>> # io => fmem'[j][k] = fmem[j][k],
         FOneWriter /\ FKind(io[1]) = "load" => FReader(io)'
  PROVE  FLoads'
<1>1. FTyped /\ FQueues /\ FLoads
  BY DEF FInv
<1>2. /\ fcfg' = fcfg /\ fjob' = fjob /\ ffail' = ffail /\ fq' = fq /\ fstruck \subseteq fstruck'
      /\ DOMAIN fwork' = DOMAIN fwork /\ \A x \in DOMAIN fwork : x # io => fwork'[x] = fwork[x]
  BY DEF FAround
<1>3. /\ FJobs' = FJobs /\ (\A j : FKind(j)' = FKind(j) /\ FIos(j)' = FIos(j)) /\ (FOneWriter' => FOneWriter)
  BY <1>2, FSame
<1>4. \A x \in DOMAIN fwork : x = <<x[1], x[2]>> /\ x[1] \in FJobs /\ x[2] \in DOMAIN FIos(x[1])
  BY <1>1, FIoIs DEF FTyped, FQueues, FBusyOK, FIoOK
<1>5. SUFFICES ASSUME FOneWriter
               PROVE  /\ \A x \in DOMAIN fwork : FKind(x[1]) = "load" => FReader(x)'
                      /\ \A j \in FJobs : FKind(j) = "load" => FLoading(j)'
  BY <1>2, <1>3 DEF FLoads
<1>6. ASSUME NEW x \in DOMAIN fwork, FKind(x[1]) = "load"  PROVE FReader(x)'
  <2>1. CASE x = io
    BY <1>5, <1>6, <2>1
  <2>2. CASE x # io
    <3>1. FReader(x)
      BY <1>1, <1>5, <1>6 DEF FLoads
    <3>2. fmem'[x[1]][x[2]] = fmem[x[1]][x[2]]
      BY <1>4, <2>2
    <3> QED BY <1>2, <2>2, <3>1, <3>2 DEF FReader, FRead
  <2> QED BY <2>1, <2>2
<1>7. ASSUME NEW j \in FJobs, FKind(j) = "load"  PROVE FLoading(j)'
  <2>1. FLoading(j)
    BY <1>1, <1>5, <1>7 DEF FLoads
  <2>2. \A k \in DOMAIN FIos(j) : <<j, k>> # io => (FRead(j, k) => FRead(j, k)')
    BY DEF FRead
  <2>3. fjob[j].st = "ok" => \A k \in DOMAIN FIos(j) : <<j, k>> # io
    BY <1>1, <1>4 DEF FQueues, FStates, FIdle
  <2> QED BY <1>2, <1>3, <2>1, <2>2, <2>3 DEF FLoading
<1> QED BY <1>6, <1>7

(* One worker goes on: what dumps without faults leave behind.              *)
LEMMA FAroundDumps ==
  ASSUME FInv, NEW io \in DOMAIN fwork, FAround(io), FTyped',
         FClean' => \A b \in FBlocks : /\ FThere(b) => FThere(b)'
                                       /\ fdir.tmp[b] # 0 \/ FThere(b) => fdir'.tmp[b] # 0 \/ FThere(b)',
         FClean' /\ FClean /\ FKind(io[1]) = "dump" => FDumper(io)',
         \A x \in 1..Len(fino) : fino[x] \subseteq fino'[x] /\ x \in 1..Len(fino'),
         FClean' /\ fcfg.nShardPerBlock = 1 /\ FKind(io[1]) = "dump" /\ fwork[io].pc = "io"
           => \A x : x = fwork[io].fd => FWhole(x)',
         FClean' => \A b \in FBlocks :
           /\ fdir'.tmp[b] = 0 \/ fdir'.tmp[b] = fdir.tmp[b] \/ FFilling(fdir.tmp[b])'
           /\ fdir'.arch[b] = fdir.tmp[b] \/ fdir'.arch[b] = fdir.arch[b]
  PROVE  FDumps'
<1>1. FTyped /\ FQueues /\ FDumps
  BY DEF FInv
<1>2. /\ fcfg' = fcfg /\ fjob' = fjob /\ ffail' = ffail /\ fq' = fq /\ fgc' = fgc /\ fstruck \subseteq fstruck'
      /\ DOMAIN fwork' = DOMAIN fwork /\ \A x \in DOMAIN fwork : x # io => fwork'[x] = fwork[x]
  BY DEF FAround
<1>3. /\ FJobs' = FJobs /\ FBlocks' = FBlocks /\ (\A j : FKind(j)' = FKind(j) /\ FIos(j)' = FIos(j))
      /\ (\A x : FBlock(x)' = FBlock(x) /\ FLast(x)' = FLast(x)) /\ (FClean' => FClean)
  BY <1>2, FSame
<1>4. \A x \in DOMAIN fwork : FBlock(x) \in FBlocks
  BY <1>1, FIoIs DEF FTyped, FQueues, FBusyOK
<1>5. SUFFICES ASSUME FClean, FClean'
               PROVE  /\ \A x \in DOMAIN fwork : FKind(x[1]) = "dump" => FDumper(x)'
                      /\ \A j \in FJobs : FKind(j) = "dump" /\ fjob[j].st # "new" =>
                           \A k \in DOMAIN FIos(j) : FLast(<<j, k>>) => FKept(j, k)'
                      /\ fcfg.nShardPerBlock = 1 => \A b \in FBlocks : FFull(fdir.tmp[b])' /\ FFull(fdir.arch[b])'
  BY <1>1, <1>2, <1>3 DEF FDumps
<1>6. ASSUME NEW x \in DOMAIN fwork, FKind(x[1]) = "dump"  PROVE FDumper(x)'
  <2>1. CASE x = io
    BY <1>5, <1>6, <2>1
  <2>2. CASE x # io
    <3>1. FDumper(x) /\ fwork'[x] = fwork[x] /\ FBlock(x)' = FBlock(x) /\ FLast(x)' = FLast(x)
      BY <1>1, <1>2, <1>3, <1>5, <1>6, <2>2 DEF FDumps
    <3>2. /\ FThere(FBlock(x)) => FThere(FBlock(x))'
          /\ fdir.tmp[FBlock(x)] # 0 \/ FThere(FBlock(x)) => fdir'.tmp[FBlock(x)] # 0 \/ FThere(FBlock(x))'
      BY <1>3, <1>4, <1>5
    <3> QED BY <3>1, <3>2 DEF FDumper
  <2> QED BY <2>1, <2>2
<1>7. ASSUME NEW j \in FJobs, FKind(j) = "dump", fjob[j].st # "new", NEW k \in DOMAIN FIos(j), FLast(<<j, k>>)
      PROVE  FKept(j, k)'
  <2>1. FKept(j, k)
    BY <1>1, <1>5, <1>7 DEF FDumps
  <2>2. FBlock(<<j, k>>) \in FBlocks
    BY <1>1, FSetupIs, FIoIs DEF FTyped, FIoOK
  <2>3. FThere(FBlock(<<j, k>>)) => FThere(FBlock(<<j, k>>))'
    BY <1>3, <1>5, <2>2
  <2> QED BY <1>2, <2>1, <2>3 DEF FKept
<1>8. ASSUME fcfg.nShardPerBlock = 1, NEW b \in FBlocks  PROVE FFull(fdir.tmp[b])' /\ FFull(fdir.arch[b])'
  <2>1. \A x \in 1..Len(fino) : FWhole(x) => FWhole(x)'
    BY <1>1, <1>2, FGrowing
  <2>2. \A x \in 1..Len(fino) : FFilling(x) => FFilling(x)' \/ FWhole(x)'
    <3> SUFFICES ASSUME NEW x \in 1..Len(fino), FFilling(x)  PROVE FFilling(x)' \/ FWhole(x)'
      OBVIOUS
    <3>1. PICK y \in DOMAIN fwork : FKind(y[1]) = "dump" /\ fwork[y].pc = "io" /\ fwork[y].fd = x
      BY DEF FFilling
    <3>2. CASE y = io
      BY <1>5, <1>8, <3>1, <3>2
    <3>3. CASE y # io
      BY <1>2, <1>3, <3>1, <3>3 DEF FFilling
    <3> QED BY <3>2, <3>3
  <2>3. FFull(fdir.tmp[b]) /\ FFull(fdir.arch[b])
    BY <1>1, <1>5, <1>8 DEF FDumps
  <2>4. fdir.tmp[b] \in 0..Len(fino) /\ fdir.arch[b] \in 0..Len(fino) /\ Len(fino) \in Nat
    BY <1>1 DEF FTyped, FDirOK
  <2>5. \A x \in 0..Len(fino) : FFull(x) => FFull(x)'
    BY <2>1, <2>2, <2>4 DEF FFull
  <2>6. FFull(fdir.tmp[b])'
    <3>1. fdir'.tmp[b] = 0 \/ fdir'.tmp[b] = fdir.tmp[b] \/ FFilling(fdir.tmp[b])'
      BY <1>5
    <3>2. CASE fdir'.tmp[b] = 0
      BY <3>2 DEF FFull
    <3>3. CASE fdir'.tmp[b] = fdir.tmp[b]
      BY <2>3, <2>4, <2>5, <3>3
    <3>4. CASE FFilling(fdir.tmp[b])'
      BY <3>4 DEF FFull
    <3> QED BY <3>1, <3>2, <3>3, <3>4
  <2>7. FFull(fdir.arch[b])'
    BY <1>5, <2>3, <2>4, <2>5
  <2> QED BY <2>6, <2>7
<1> QED BY <1>6, <1>7, <1>8

(* One worker goes on: the others are where they may be.                    *)
LEMMA FAroundSteps ==
  ASSUME FInv, NEW io \in DOMAIN fwork, FAround(io), \A x \in 1..Len(fino) : x \in 1..Len(fino'),
         fwork'[io].pc = "io" => fwork'[io].fd \in 1..Len(fino'),
         fwork'[io].pc = "commit" \/ fwork'[io].pc = "remove" => FKind(io[1]) = "dump" /\ FLast(io)
  PROVE  FSteps'
<1>1. FSteps
  BY DEF FInv
<1>2. /\ DOMAIN fwork' = DOMAIN fwork /\ (\A x : FLast(x)' = FLast(x)) /\ (\A j : FKind(j)' = FKind(j))
      /\ \A x \in DOMAIN fwork : x # io => fwork'[x] = fwork[x]
  BY FSame DEF FAround
<1> QED BY <1>1, <1>2 DEF FSteps

(* Open keeps the invariant.                                                *)
LEMMA FOpenKeeps ==
  ASSUME FInv, NEW io \in DOMAIN fwork, OpenFile(io)
  PROVE  FInv'
<1>1. FTyped /\ FQueues /\ FSteps /\ FSearch /\ FDumps
  BY DEF FInv
<1>2. /\ FTyped' /\ FQueues' /\ FAround(io) /\ fwork[io].pc = "open" /\ fdir'.arch = fdir.arch /\ fmem' = fmem /\ flook' = flook
      /\ \A x \in 1..Len(fino) : fino[x] \subseteq fino'[x] /\ x \in 1..Len(fino')
  BY <1>1, FOpenIs
<1>3. fcfg' = fcfg /\ fstruck \subseteq fstruck' /\ FBlock(io)' = FBlock(io) /\ FLast(io)' = FLast(io) /\ FBlock(io) \in FBlocks
  BY <1>1, <1>2, FSame, FIoIs DEF FAround, FTyped, FQueues, FBusyOK
<1>4. FSteps' /\ FOneByOne'
  BY FOpenSteps, FOpenOneByOne
<1>5. FLoads'
  <2>1. FKind(io[1]) = "load" => FReader(io)'
    <3>1. FKind(io[1]) = "load" => fwork'[io].pc # "end" \/ ~fwork'[io].ok
      BY <1>1, FOpenIs
    <3> QED BY <3>1 DEF FReader
  <2>2. \A j \in FJobs : \A k \in DOMAIN FIos(j) : <<j, k>> # io => fmem'[j][k] = fmem[j][k]
    BY <1>2
  <2> QED BY <1>2, <2>1, <2>2, FAroundLoads
<1>6. FDumps'
  <2>1. <<"io", io>> \in fstruck' => ~FClean'
    <3>1. <<"io", io>>[1] = "io"
      OBVIOUS
    <3> QED BY <3>1 DEF FClean, FStruck
  <2>2. \A b : FThere(b)' = FThere(b)
    BY <1>2 DEF FThere
  <2>3. \A b \in FBlocks : fdir.tmp[b] # 0 => fdir'.tmp[b] # 0
    BY <1>1, FOpenIs
  <2>4. FClean' /\ FKind(io[1]) = "dump" =>
          fwork'[io].pc = "io" /\ fwork'[io].ok /\ fdir'.tmp[FBlock(io)] # 0
    <3>1. FDirOK(fdir) /\ Len(fino) \in Nat
      BY <1>1 DEF FTyped
    <3> QED BY <1>1, <2>1, <3>1, FOpenIs
  <2>5. FClean' /\ FClean /\ FKind(io[1]) = "dump" => FDumper(io)'
    BY <1>3, <2>4 DEF FDumper
  <2>6. \A b \in FBlocks : fdir'.tmp[b] = fdir.tmp[b] \/ FFilling(fdir.tmp[b])'
    <3> SUFFICES ASSUME NEW b \in FBlocks, fdir'.tmp[b] # fdir.tmp[b]  PROVE FFilling(fdir.tmp[b])'
      OBVIOUS
    <3>1. /\ FKind(io[1]) = "dump" /\ fwork'[io].pc = "io" /\ fwork'[io].fd = fdir'.tmp[b]
      BY <1>1, FOpenIs
    <3>2. FKind(io[1])' = FKind(io[1]) /\ io \in DOMAIN fwork'
      BY <1>2, FSame DEF FAround
    <3> QED BY <3>1, <3>2 DEF FFilling
  <2>7. \A b \in FBlocks : /\ FThere(b) => FThere(b)'
                           /\ fdir.tmp[b] # 0 \/ FThere(b) => fdir'.tmp[b] # 0 \/ FThere(b)'
    BY <2>2, <2>3
  <2>8. \A b \in FBlocks : /\ fdir'.tmp[b] = 0 \/ fdir'.tmp[b] = fdir.tmp[b] \/ FFilling(fdir.tmp[b])'
                           /\ fdir'.arch[b] = fdir.tmp[b] \/ fdir'.arch[b] = fdir.arch[b]
    BY <1>2, <2>6
  <2> QED BY <1>2, <2>5, <2>7, <2>8, FAroundDumps
<1>7. FSearch'
  BY <1>1, <1>2, <1>3, FSearchStays
<1> QED BY <1>2, <1>4, <1>5, <1>6, <1>7 DEF FInv

(* A write keeps the invariant.                                             *)
LEMMA FWriteKeeps ==
  ASSUME FInv, NEW io \in DOMAIN fwork, WriteShard(io)
  PROVE  FInv'
<1>1. FTyped /\ FQueues /\ FSteps /\ FOneByOne /\ FSearch /\ FDumps
  BY DEF FInv
<1>2. /\ FTyped' /\ FQueues' /\ FAround(io) /\ fmem' = fmem /\ flook' = flook /\ fdir' = fdir
      /\ fwork[io].pc = "io" /\ FKind(io[1]) = "dump" /\ fwork[io].fd \in 1..Len(fino) /\ Len(fino') = Len(fino)
      /\ \A x \in 1..Len(fino) : fino[x] \subseteq fino'[x]
  BY <1>1, FWriteIs
<1>3. /\ fcfg' = fcfg /\ fstruck \subseteq fstruck' /\ FIos(io[1])' = FIos(io[1])
      /\ \A x : FBlock(x)' = FBlock(x) /\ FShard(x)' = FShard(x) /\ FLast(x)' = FLast(x)
  BY <1>2, FSame DEF FAround
<1>4. FBlock(io) \in FBlocks /\ FShard(io) \in 0..fcfg.nShardPerBlock - 1
  BY <1>1, FIoIs DEF FTyped, FQueues, FBusyOK
<1>5. \A x \in 1..Len(fino) : fino[x] \subseteq fino'[x] /\ x \in 1..Len(fino')
  BY <1>2
<1>6. /\ \A x \in 1..Len(fino) : FWhole(x) => FWhole(x)'
      /\ \A b \in FBlocks : \A s : FHas(b, s) => FHas(b, s)'
  <2>1. \A b \in FBlocks : fdir'.tmp[b] = fdir.tmp[b]
    BY <1>2
  <2> QED BY <1>1, <1>2, <1>3, <1>5, <2>1, FGrowing
<1>7. /\ fwork'[io].pc = "io" => FALSE
      /\ fwork'[io].pc = "commit" \/ fwork'[io].pc = "remove" => FLast(io)
      /\ fwork'[io].pc = "commit" \/ (fwork'[io].pc = "end" /\ fwork'[io].ok) => FShard(io) \in fino'[fwork[io].fd]
  BY <1>1, FWriteIs
<1>8. FSteps'
  BY <1>2, <1>5, <1>7, FAroundSteps
<1>9. FOneByOne'
  <2>1. FKeepsHas(io) /\ FKeepsTmp(io)
    BY <1>2, <1>6 DEF FKeepsHas, FKeepsTmp
  <2>2. FSeries => \A b \in FBlocks : fdir'.arch[b] # 0 => FWhole(fdir.arch[b])'
    <3>1. \A b \in FBlocks : fdir.arch[b] \in 0..Len(fino) /\ Len(fino) \in Nat
      BY <1>1 DEF FTyped, FDirOK
    <3> QED BY <1>1, <1>2, <1>6, <3>1 DEF FOneByOne
  <2>3. ASSUME FSeries  PROVE FWriter(io)'
    <3>1. FWriter(io)
      BY <1>1, <1>2, <2>3 DEF FOneByOne
    <3>2. FWritten(io)'
      BY <1>2, <1>3, <1>4, <1>6, <3>1 DEF FWriter, FWritten
    <3>3. FShard(io) \in fino'[fwork[io].fd] => FHas(FBlock(io), FShard(io))'
      <4>1. fwork[io].fd = fdir.tmp[FBlock(io)] /\ fwork[io].fd # 0
        BY <1>2, <3>1 DEF FWriter
      <4> QED BY <1>2, <1>3, <4>1 DEF FHas
    <3> QED BY <1>3, <1>7, <3>2, <3>3 DEF FWriter
  <2> QED BY <1>2, <1>5, <2>1, <2>2, <2>3, FAroundOneByOne
<1>10. FLoads'
  <2>1. \A j \in FJobs : \A k \in DOMAIN FIos(j) : <<j, k>> # io => fmem'[j][k] = fmem[j][k]
    BY <1>2
  <2> QED BY <1>2, <2>1, FAroundLoads
<1>11. FDumps'
  <2>1. <<"io", io>> \in fstruck' => ~FClean'
    <3>1. <<"io", io>>[1] = "io"
      OBVIOUS
    <3> QED BY <3>1 DEF FClean, FStruck
  <2>2. \A b : FThere(b)' = FThere(b)
    BY <1>2 DEF FThere
  <2>3. FClean' => /\ FShard(io) \in fino'[fwork[io].fd] /\ fwork'[io].ok = fwork[io].ok
                   /\ IF FLast(io) THEN fwork'[io].pc = "commit" ELSE fwork'[io].pc = "end"
    BY <1>1, <2>1, FWriteIs
  <2>4. ASSUME FClean', FClean  PROVE FDumper(io)'
    <3>1. FDumper(io)
      BY <1>1, <1>2, <2>4 DEF FDumps
    <3> QED BY <1>2, <1>3, <2>2, <2>3, <2>4, <3>1 DEF FDumper
  <2>5. ASSUME FClean', fcfg.nShardPerBlock = 1, NEW x, x = fwork[io].fd  PROVE FWhole(x)'
    <3>1. fino'[x] \subseteq 0..0 /\ 0 \in fino'[x]
      BY <1>2, <1>3, <1>4, <2>3, <2>5 DEF FTyped
    <3> QED BY <1>3, <2>5, <3>1 DEF FWhole
  <2>6. \A b \in FBlocks : /\ FThere(b) => FThere(b)'
                           /\ fdir.tmp[b] # 0 \/ FThere(b) => fdir'.tmp[b] # 0 \/ FThere(b)'
    BY <1>2, <2>2
  <2>7. \A b \in FBlocks : /\ fdir'.tmp[b] = 0 \/ fdir'.tmp[b] = fdir.tmp[b] \/ FFilling(fdir.tmp[b])'
                           /\ fdir'.arch[b] = fdir.tmp[b] \/ fdir'.arch[b] = fdir.arch[b]
    BY <1>2
  <2> QED BY <1>2, <1>5, <2>4, <2>5, <2>6, <2>7, FAroundDumps
<1>12. FSearch'
  BY <1>1, <1>2, <1>3, FSearchStays
<1> QED BY <1>2, <1>8, <1>9, <1>10, <1>11, <1>12 DEF FInv

(* A read keeps the invariant.                                              *)
LEMMA FReadKeeps ==
  ASSUME FInv, NEW io \in DOMAIN fwork, ReadShard(io)
  PROVE  FInv'
<1>1. FTyped /\ FQueues /\ FSteps /\ FOneByOne /\ FSearch /\ FDumps
  BY DEF FInv
<1>2. /\ FTyped' /\ FQueues' /\ FAround(io) /\ flook' = flook /\ fdir' = fdir /\ fino' = fino
      /\ fwork[io].pc = "io" /\ FKind(io[1]) = "load" /\ fwork[io].fd \in 1..Len(fino) /\ fwork'[io].pc = "end"
      /\ \A j \in FJobs : \A k \in DOMAIN FIos(j) : <<j, k>> # io => fmem'[j][k] = fmem[j][k]
  BY <1>1, FReadIs
<1>3. fcfg' = fcfg /\ fstruck \subseteq fstruck'
  BY <1>2 DEF FAround
<1>4. FShard(io) \in 0..fcfg.nShardPerBlock - 1
  BY <1>1, FIoIs DEF FTyped, FQueues, FBusyOK
<1>5. \A x \in 1..Len(fino) : fino[x] \subseteq fino'[x] /\ x \in 1..Len(fino')
  BY <1>2
<1>6. /\ \A x : FWhole(x)' = FWhole(x)
      /\ \A b, s : FHas(b, s)' = FHas(b, s)
      /\ \A b : FThere(b)' = FThere(b)
  BY <1>2, <1>3 DEF FWhole, FHas, FThere
<1>7. FSteps'
  BY <1>2, <1>5, FAroundSteps
<1>8. FOneByOne'
  <2>1. FKeepsHas(io) /\ FKeepsTmp(io)
    BY <1>2, <1>6 DEF FKeepsHas, FKeepsTmp
  <2>2. FSeries => \A b \in FBlocks : fdir'.arch[b] # 0 => FWhole(fdir.arch[b])'
    BY <1>1, <1>2, <1>6 DEF FOneByOne
  <2> QED BY <1>2, <1>5, <2>1, <2>2, FAroundOneByOne
<1>9. FLoads'
  <2>1. ASSUME FOneWriter, fwork'[io].ok  PROVE fmem'[io[1]][io[2]] = "right"
    <3>1. PICK k \in fino[fwork[io].fd] : k >= FShard(io)
      BY <1>1, <2>1, FReadIs
    <3>2. fino[fwork[io].fd] \subseteq 0..fcfg.nShardPerBlock - 1 /\ fcfg.nShardPerBlock \in Nat
      BY <1>1, <1>2, FSetupIs DEF FTyped
    <3>3. CASE fcfg.nShardPerBlock = 1
      <4>1. k = 0 /\ FShard(io) = 0
        BY <1>4, <3>1, <3>2, <3>3
      <4> QED BY <1>1, <2>1, <3>1, <4>1, FReadIs
    <3>4. CASE fcfg.nShardPerBlock # 1
      <4>1. FSeries
        BY <2>1, <3>4 DEF FSeries
      <4>2. FWhole(fwork[io].fd)
        BY <1>1, <1>2, <4>1 DEF FOneByOne
      <4>3. FShard(io) \in fino[fwork[io].fd]
        BY <1>4, <4>2 DEF FWhole
      <4> QED BY <1>1, <2>1, <4>3, FReadIs
    <3> QED BY <3>3, <3>4
  <2>2. FOneWriter => FReader(io)'
    BY <2>1 DEF FReader, FRead
  <2> QED BY <1>2, <2>2, FAroundLoads
<1>10. FDumps'
  <2>1. \A b \in FBlocks : /\ FThere(b) => FThere(b)'
                           /\ fdir.tmp[b] # 0 \/ FThere(b) => fdir'.tmp[b] # 0 \/ FThere(b)'
    BY <1>2, <1>6
  <2>2. \A b \in FBlocks : /\ fdir'.tmp[b] = 0 \/ fdir'.tmp[b] = fdir.tmp[b] \/ FFilling(fdir.tmp[b])'
                           /\ fdir'.arch[b] = fdir.tmp[b] \/ fdir'.arch[b] = fdir.arch[b]
    BY <1>2
  <2> QED BY <1>2, <1>5, <2>1, <2>2, FAroundDumps
<1>11. FSearch'
  BY <1>1, <1>2, <1>3, FSearchStays
<1> QED BY <1>2, <1>7, <1>8, <1>9, <1>10, <1>11 DEF FInv

(* A commit keeps the invariant.                                            *)
LEMMA FCommitKeeps ==
  ASSUME FInv, NEW io \in DOMAIN fwork, CommitFile(io)
  PROVE  FInv'
<1> DEFINE b == FBlock(io)
<1>1. FTyped /\ FQueues /\ FSteps /\ FOneByOne /\ FSearch /\ FDumps
  BY DEF FInv
<1>2. /\ FTyped' /\ FQueues' /\ FAround(io) /\ fmem' = fmem /\ fino' = fino
      /\ fwork[io].pc = "commit" /\ FKind(io[1]) = "dump" /\ FLast(io) /\ fwork'[io].ok = fwork[io].ok
  BY <1>1, FCommitIs
<1>3. /\ fcfg' = fcfg /\ fstruck \subseteq fstruck' /\ FIos(io[1])' = FIos(io[1])
      /\ \A x : FBlock(x)' = FBlock(x) /\ FShard(x)' = FShard(x) /\ FLast(x)' = FLast(x)
  BY <1>2, FSame DEF FAround
<1>4. b \in FBlocks /\ \A c \in FBlocks : fdir.tmp[c] \in 0..Len(fino) /\ fdir.arch[c] \in 0..Len(fino)
  BY <1>1, FIoIs DEF FTyped, FQueues, FBusyOK, FDirOK
<1>5. \A x \in 1..Len(fino) : fino[x] \subseteq fino'[x] /\ x \in 1..Len(fino')
  BY <1>2
<1>6. /\ \A x : FWhole(x)' = FWhole(x)
      /\ \A c \in FBlocks : c # b => fdir'.tmp[c] = fdir.tmp[c] /\ fdir'.arch[c] = fdir.arch[c]
      /\ \/ /\ fdir.tmp[b] # 0 /\ fwork'[io].pc = "end" /\ fdir'.arch[b] = fdir.tmp[b] /\ fdir'.tmp[b] = 0 /\ FSees
         \/ /\ fdir.tmp[b] = 0 \/ <<"io", io>> \in fstruck'
            /\ fwork'[io].pc = "remove" /\ fdir' = fdir /\ flook' = flook
  BY <1>1, <1>2, <1>3, FCommitIs DEF FWhole
<1>7. FSteps'
  BY <1>2, <1>5, <1>6, FAroundSteps
<1>8. FOneByOne'
  <2>1. FKeepsHas(io) /\ FKeepsTmp(io)
    BY <1>2, <1>6 DEF FKeepsHas, FKeepsTmp, FHas
  <2>2. ASSUME FSeries, NEW c \in FBlocks, fdir'.arch[c] # 0  PROVE FWhole(fdir.arch[c])'
    <3>1. fdir.tmp[b] # 0 /\ FWhole(fdir.tmp[b])
      BY <1>1, <1>2, <2>2, FAllThere
    <3>2. CASE fdir'.arch[c] = fdir.tmp[b]
      BY <1>6, <3>1, <3>2
    <3>3. CASE fdir'.arch[c] # fdir.tmp[b]
      <4>1. fdir'.arch[c] = fdir.arch[c]
        BY <1>6, <3>3
      <4>2. FWhole(fdir.arch[c])
        BY <1>1, <2>2, <4>1 DEF FOneByOne
      <4> QED BY <1>6, <4>1, <4>2
    <3> QED BY <3>2, <3>3
  <2>3. ASSUME FSeries  PROVE FWriter(io)'
    BY <1>2, <1>3, <1>6 DEF FWriter
  <2> QED BY <1>2, <1>5, <2>1, <2>2, <2>3, FAroundOneByOne
<1>9. FLoads'
  <2>1. \A j \in FJobs : \A k \in DOMAIN FIos(j) : <<j, k>> # io => fmem'[j][k] = fmem[j][k]
    BY <1>2
  <2> QED BY <1>2, <2>1, FAroundLoads
<1>10. FDumps'
  <2>1. \A c \in FBlocks : /\ FThere(c) => FThere(c)'
                           /\ fdir.tmp[c] # 0 \/ FThere(c) => fdir'.tmp[c] # 0 \/ FThere(c)'
    BY <1>6 DEF FThere
  <2>2. \A c \in FBlocks : /\ fdir'.tmp[c] = 0 \/ fdir'.tmp[c] = fdir.tmp[c] \/ FFilling(fdir.tmp[c])'
                           /\ fdir'.arch[c] = fdir.tmp[c] \/ fdir'.arch[c] = fdir.arch[c]
    BY <1>6
  <2>3. ASSUME FClean', FClean  PROVE FDumper(io)'
    <3>1. fwork[io].ok /\ (fdir.tmp[b] # 0 \/ FThere(b))
      BY <1>1, <1>2, <2>3 DEF FDumps, FDumper
    <3>2. <<"io", io>> \notin fstruck'
      BY <2>3 DEF FClean, FStruck
    <3>3. fwork'[io].ok /\ fwork'[io].pc \in {"end", "remove"} /\ FThere(b)'
      BY <1>2, <1>3, <1>6, <3>1, <3>2 DEF FThere
    <3> QED BY <3>3 DEF FDumper
  <2> QED BY <1>2, <1>5, <2>1, <2>2, <2>3, FAroundDumps
<1>11. FSearch'
  <2>1. CASE flook' = flook /\ fdir' = fdir
    BY <1>1, <1>3, <2>1, FSearchStays
  <2>2. CASE FSees
    BY <1>1, <1>3, <2>2, FSearchSees
  <2> QED BY <1>6, <2>1, <2>2
<1> QED BY <1>2, <1>7, <1>8, <1>9, <1>10, <1>11 DEF FInv

(* The removal of a .tmp file keeps the invariant.                          *)
LEMMA FRemoveKeeps ==
  ASSUME FInv, NEW io \in DOMAIN fwork, RemoveTmp(io)
  PROVE  FInv'
<1> DEFINE b == FBlock(io)
<1>1. FTyped /\ FQueues /\ FSteps /\ FOneByOne /\ FSearch /\ FDumps
  BY DEF FInv
<1>2. /\ FTyped' /\ FQueues' /\ FAround(io) /\ fmem' = fmem /\ fino' = fino /\ flook' = flook
      /\ fwork[io].pc = "remove" /\ FKind(io[1]) = "dump" /\ FLast(io) /\ fwork'[io].pc = "end" /\ fwork'[io].ok = fwork[io].ok
      /\ fdir'.arch = fdir.arch /\ fdir'.tmp[b] = 0 /\ \A c \in FBlocks : c # b => fdir'.tmp[c] = fdir.tmp[c]
  BY <1>1, FRemoveIs
<1>3. /\ fcfg' = fcfg /\ fstruck \subseteq fstruck'
      /\ \A x : FBlock(x)' = FBlock(x) /\ FShard(x)' = FShard(x) /\ FLast(x)' = FLast(x)
  BY <1>2, FSame DEF FAround
<1>5. \A x \in 1..Len(fino) : fino[x] \subseteq fino'[x] /\ x \in 1..Len(fino')
  BY <1>2
<1>6. (\A x : FWhole(x)' = FWhole(x)) /\ (\A c : FThere(c)' = FThere(c))
  BY <1>2, <1>3 DEF FWhole, FThere
<1>7. FSteps'
  BY <1>2, <1>5, FAroundSteps
<1>8. FOneByOne'
  <2>1. FKeepsHas(io) /\ FKeepsTmp(io)
    BY <1>2 DEF FKeepsHas, FKeepsTmp, FHas
  <2>2. FSeries => \A c \in FBlocks : fdir'.arch[c] # 0 => FWhole(fdir.arch[c])'
    BY <1>1, <1>2, <1>6 DEF FOneByOne
  <2>3. FWriter(io)'
    BY <1>2, <1>3 DEF FWriter
  <2> QED BY <1>2, <1>5, <2>1, <2>2, <2>3, FAroundOneByOne
<1>9. FLoads'
  <2>1. \A j \in FJobs : \A k \in DOMAIN FIos(j) : <<j, k>> # io => fmem'[j][k] = fmem[j][k]
    BY <1>2
  <2> QED BY <1>2, <2>1, FAroundLoads
<1>10. FDumps'
  <2>1. ASSUME FClean  PROVE FThere(b)
    BY <1>1, <1>2, <2>1 DEF FDumps, FDumper
  <2>2. FClean' => FClean
    BY <1>3, FSame
  <2>3. FClean' => \A c \in FBlocks : /\ FThere(c) => FThere(c)'
                                      /\ fdir.tmp[c] # 0 \/ FThere(c) => fdir'.tmp[c] # 0 \/ FThere(c)'
    BY <1>2, <1>6, <2>1, <2>2
  <2>4. \A c \in FBlocks : /\ fdir'.tmp[c] = 0 \/ fdir'.tmp[c] = fdir.tmp[c] \/ FFilling(fdir.tmp[c])'
                           /\ fdir'.arch[c] = fdir.tmp[c] \/ fdir'.arch[c] = fdir.arch[c]
    BY <1>2
  <2>5. ASSUME FClean', FClean  PROVE FDumper(io)'
    <3>1. fwork[io].ok /\ FThere(b)
      BY <1>1, <1>2, <2>5 DEF FDumps, FDumper
    <3>2. fwork'[io].ok /\ fwork'[io].pc = "end" /\ FThere(b)'
      BY <1>2, <1>3, <1>6, <3>1
    <3> QED BY <3>2 DEF FDumper
  <2>6. FTyped' /\ FAround(io) /\ fwork[io].pc # "io"
    BY <1>2
  <2> HIDE DEF b
  <2> QED BY <1>5, <2>3, <2>4, <2>5, <2>6, FAroundDumps
<1>11. FSearch'
  BY <1>1, <1>2, <1>3, FSearchStays
<1> QED BY <1>2, <1>7, <1>8, <1>9, <1>10, <1>11 DEF FInv

----------------------------------------------------------------------------
(* Steps that leave the files alone                                         *)

(* Files, memory, collector and lookup stay what they are.                  *)
FStill == /\ fcfg' = fcfg /\ fino' = fino /\ fdir' = fdir /\ fmem' = fmem /\ fgc' = fgc /\ flook' = flook
          /\ fstruck \subseteq fstruck'

(* A worker that was there, and one that has just taken an I/O.             *)
FOld(x) == /\ x \in DOMAIN fwork /\ fwork'[x].pc = fwork[x].pc /\ fwork'[x].fd = fwork[x].fd
           /\ fwork'[x].ok = fwork[x].ok
FNew(x) == /\ fwork'[x].pc = "open" /\ fwork'[x].ok
           /\ FSeries => /\ FKind(x[1]) = "dump" => FWritten(x)
                         /\ \A y \in DOMAIN fwork' : FPool(y[1]) = FPool(x[1]) => y = x

(* What such a step keeps, whatever it does to queues and tasks.            *)
LEMMA FStillKeeps ==
  ASSUME FInv, FStill, FQueues', \A x \in DOMAIN fwork' : FOld(x) \/ FNew(x),
         FSeries => \A j \in FJobs : FKind(j) = "dump" /\ fjob'[j].st = "wait" /\ j \notin ffail' => FPassed(j)',
         FOneWriter => \A j \in FJobs : FKind(j) = "load" => FLoading(j)',
         FClean' => /\ \A j \in FJobs : FKind(j) = "dump" => j \notin ffail'
                    /\ \A j \in FJobs : FKind(j) = "dump" /\ fjob'[j].st # "new" =>
                         \A k \in DOMAIN FIos(j) : FLast(<<j, k>>) => FKept(j, k)'
                    /\ \A x \in DOMAIN fwork : fwork[x].pc = "io" =>
                         x \in DOMAIN fwork' /\ fwork'[x].pc = "io" /\ fwork'[x].fd = fwork[x].fd
  PROVE  FInv'
<1>1. FTyped /\ FQueues /\ FSteps /\ FOneByOne /\ FLoads /\ FDumps /\ FSearch
  BY DEF FInv
<1>2. /\ fcfg' = fcfg /\ fino' = fino /\ fdir' = fdir /\ fmem' = fmem /\ fgc' = fgc /\ flook' = flook
      /\ fstruck \subseteq fstruck'
  BY DEF FStill
<1>3. /\ FJobs' = FJobs /\ FBlocks' = FBlocks
      /\ \A j : FKind(j)' = FKind(j) /\ FIos(j)' = FIos(j) /\ FPool(j)' = FPool(j)
      /\ \A x : FBlock(x)' = FBlock(x) /\ FShard(x)' = FShard(x) /\ FLast(x)' = FLast(x)
      /\ (FOneWriter' => FOneWriter) /\ (FSeries' => FSeries) /\ (FClean' => FClean)
  BY <1>2, FSame
<1>4. /\ \A x : FWhole(x)' = FWhole(x) /\ \A b, s : FHas(b, s)' = FHas(b, s)
      /\ \A b : FThere(b)' = FThere(b) /\ \A j, k : FRead(j, k)' = FRead(j, k)
  BY <1>2 DEF FWhole, FHas, FThere, FRead
<1>5. FTyped'
  BY <1>1, <1>2, FTypedStays DEF FTyped, FLookOK
<1>6. FSearch'
  BY <1>1, <1>2, FSearchStays
<1>7. FSteps'
  BY <1>1, <1>2, <1>3 DEF FSteps, FOld, FNew
<1>8. FOneByOne'
  <2>1. SUFFICES ASSUME FSeries
                 PROVE  /\ \A b \in FBlocks : fdir'.arch[b] # 0 => FWhole(fdir.arch[b])'
                        /\ \A x, y \in DOMAIN fwork' : FPool(x[1]) = FPool(y[1]) => x = y
                        /\ \A x \in DOMAIN fwork' : /\ FKind(x[1]) = "dump" => FWriter(x)'
                                                    /\ FKind(x[1]) = "load" /\ fwork'[x].pc = "io" => FWhole(fwork[x].fd)'
                        /\ \A j \in FJobs : FKind(j) = "dump" /\ fjob'[j].st = "wait" /\ j \notin ffail' => FPassed(j)'
    BY <1>3 DEF FOneByOne
  <2>2. \A b \in FBlocks : fdir'.arch[b] # 0 => FWhole(fdir.arch[b])'
    BY <1>1, <1>2, <1>4, <2>1 DEF FOneByOne
  <2>3. \A x, y \in DOMAIN fwork' : FPool(x[1]) = FPool(y[1]) => x = y
    <3>1. \A x, y \in DOMAIN fwork : FPool(x[1]) = FPool(y[1]) => x = y
      BY <1>1, <2>1 DEF FOneByOne
    <3> QED BY <2>1, <3>1 DEF FOld, FNew
  <2>4. ASSUME NEW x \in DOMAIN fwork', FKind(x[1]) = "dump"  PROVE FWriter(x)'
    <3>1. FWritten(x)' = FWritten(x)
      BY <1>3, <1>4 DEF FWritten
    <3>2. FHas(FBlock(x), FShard(x))' = FHas(FBlock(x), FShard(x))
      BY <1>3, <1>4
    <3>3. CASE FOld(x)
      <4>1. FWriter(x)
        BY <1>1, <2>1, <2>4, <3>3 DEF FOneByOne, FOld
      <4> QED BY <1>2, <1>3, <3>1, <3>2, <3>3, <4>1 DEF FOld, FWriter
    <3>4. CASE FNew(x)
      BY <2>1, <2>4, <3>1, <3>4 DEF FNew, FWriter
    <3> QED BY <3>3, <3>4
  <2>5. ASSUME NEW x \in DOMAIN fwork', FKind(x[1]) = "load", fwork'[x].pc = "io"  PROVE FWhole(fwork[x].fd)'
    <3>1. FOld(x)
      BY <2>5 DEF FNew
    <3>2. FWhole(fwork[x].fd) /\ fwork'[x].fd = fwork[x].fd
      BY <1>1, <2>1, <2>5, <3>1 DEF FOneByOne, FOld
    <3> QED BY <1>4, <3>2
  <2> QED BY <2>1, <2>2, <2>3, <2>4, <2>5
<1>9. FLoads'
  <2>1. SUFFICES ASSUME FOneWriter
                 PROVE  /\ \A x \in DOMAIN fwork' : FKind(x[1]) = "load" => FReader(x)'
                        /\ \A j \in FJobs : FKind(j) = "load" => FLoading(j)'
    BY <1>3 DEF FLoads
  <2>2. ASSUME NEW x \in DOMAIN fwork', FKind(x[1]) = "load"  PROVE FReader(x)'
    <3>1. CASE FOld(x)
      <4>1. FReader(x)
        BY <1>1, <2>1, <2>2, <3>1 DEF FLoads, FOld
      <4> QED BY <1>4, <3>1, <4>1 DEF FReader, FOld
    <3>2. CASE FNew(x)
      BY <3>2 DEF FReader, FNew
    <3> QED BY <3>1, <3>2
  <2> QED BY <2>1, <2>2
<1>10. FDumps'
  <2>1. SUFFICES ASSUME FClean', FClean
                 PROVE  /\ \A x \in DOMAIN fwork' : FKind(x[1]) = "dump" => FDumper(x)'
                        /\ fcfg.nShardPerBlock = 1 => \A b \in FBlocks : FFull(fdir.tmp[b])' /\ FFull(fdir.arch[b])'
    BY <1>1, <1>2, <1>3 DEF FDumps
  <2>2. ASSUME NEW x \in DOMAIN fwork', FKind(x[1]) = "dump"  PROVE FDumper(x)'
    <3>1. FThere(FBlock(x))' = FThere(FBlock(x))
      BY <1>3, <1>4
    <3>2. CASE FOld(x)
      <4>1. FDumper(x)
        BY <1>1, <2>1, <2>2, <3>2 DEF FDumps, FOld
      <4> QED BY <1>2, <1>3, <3>1, <3>2, <4>1 DEF FDumper, FOld
    <3>3. CASE FNew(x)
      BY <3>3 DEF FDumper, FNew
    <3> QED BY <3>2, <3>3
  <2>3. ASSUME fcfg.nShardPerBlock = 1, NEW b \in FBlocks  PROVE FFull(fdir.tmp[b])' /\ FFull(fdir.arch[b])'
    <3>1. \A x : FFilling(x) => FFilling(x)'
      BY <1>3, <2>1 DEF FFilling
    <3>2. \A x : FFull(x) => FFull(x)'
      BY <1>4, <3>1 DEF FFull
    <3>3. FFull(fdir.tmp[b]) /\ FFull(fdir.arch[b])
      BY <1>1, <2>1, <2>3 DEF FDumps
    <3> QED BY <1>2, <3>2, <3>3
  <2> QED BY <2>2, <2>3
<1> QED BY <1>5, <1>6, <1>7, <1>8, <1>9, <1>10 DEF FInv

(* The end of an I/O keeps the invariant.                                   *)
LEMMA FEndKeeps ==
  ASSUME FInv, NEW io \in DOMAIN fwork, EndIo(io)
  PROVE  FInv'
<1>1. FTyped /\ FQueues /\ FSteps /\ FOneByOne /\ FLoads /\ FDumps
  BY DEF FInv
<1>2. FStill /\ fwork[io].pc = "end"
  BY DEF EndIo, FStill, ffiles
<1>3. /\ FQueues' /\ fq' = fq /\ (\A i \in FJobs : fjob'[i].st = fjob[i].st)
      /\ DOMAIN fwork' = DOMAIN fwork \ {io} /\ (\A x \in DOMAIN fwork' : fwork'[x] = fwork[x])
      /\ ffail' = IF fwork[io].ok THEN ffail ELSE ffail \union {io[1]}
  BY <1>1, FEndQueues
<1>4. FIoOK(io) /\ io = <<io[1], io[2]>> /\ io[1] \in FJobs /\ io[2] \in DOMAIN FIos(io[1])
  BY <1>1, FIoIs DEF FTyped, FQueues, FBusyOK, FIoOK
<1>5. \A x \in DOMAIN fwork' : FOld(x)
  BY <1>3 DEF FOld
<1>6. /\ fcfg' = fcfg /\ fino' = fino /\ fdir' = fdir /\ fmem' = fmem /\ fstruck \subseteq fstruck'
  BY <1>2 DEF FStill
<1>7. /\ (\A j : FKind(j)' = FKind(j) /\ FIos(j)' = FIos(j)) /\ (FClean' => FClean)
      /\ \A x : FBlock(x)' = FBlock(x) /\ FShard(x)' = FShard(x)
  BY <1>6, FSame
<1>8. (\A b, s : FHas(b, s)' = FHas(b, s)) /\ (\A b : FThere(b)' = FThere(b)) /\ (\A j, k : FRead(j, k)' = FRead(j, k))
  BY <1>6 DEF FHas, FThere, FRead
<1>9. ASSUME FSeries, NEW j \in FJobs, FKind(j) = "dump", fjob'[j].st = "wait", j \notin ffail'  PROVE FPassed(j)'
  <2>1. FPassed(j) /\ (j = io[1] => fwork[io].ok)
    BY <1>1, <1>3, <1>9 DEF FOneByOne
  <2>2. ASSUME j = io[1], NEW k \in DOMAIN FIos(j), <<j, k>> \in fq, FBlock(io) = FBlock(<<j, k>>)
        PROVE  FHas(FBlock(<<j, k>>), FShard(io))
    <3>1. ~FLast(io)
      BY <1>1, <1>9, <2>2, FNothingAfter
    <3>2. FWriter(io)
      BY <1>1, <1>9, <2>2 DEF FOneByOne
    <3>3. FHas(FBlock(io), FShard(io))
      BY <1>2, <2>1, <2>2, <3>1, <3>2 DEF FWriter
    <3> QED BY <2>2, <3>3
  <2>3. ASSUME NEW k \in DOMAIN FIos(j), NEW m \in DOMAIN FIos(j), <<j, k>> \in fq', <<j, m>> \in fq \union DOMAIN fwork
        PROVE  \/ <<j, m>> \in fq' \union DOMAIN fwork' \/ FBlock(<<j, m>>) # FBlock(<<j, k>>)
               \/ FHas(FBlock(<<j, k>>), FShard(<<j, m>>))'
    <3>1. CASE <<j, m>> = io
      <4>1. j = io[1]
        BY <1>4, <3>1
      <4>2. FBlock(<<j, m>>) = FBlock(<<j, k>>) => FHas(FBlock(<<j, k>>), FShard(<<j, m>>))
        BY <1>3, <2>2, <2>3, <3>1, <4>1
      <4> QED BY <1>7, <1>8, <4>2
    <3>2. CASE <<j, m>> # io
      BY <1>3, <2>3, <3>2
    <3> QED BY <3>1, <3>2
  <2>4. \A k \in DOMAIN FIos(j) : <<j, k>> \in fq' => \A s : FHas(FBlock(<<j, k>>), s) => FHas(FBlock(<<j, k>>), s)'
    BY <1>7, <1>8
  <2> QED BY <1>1, <1>3, <1>6, <2>1, <2>3, <2>4, FPassedStays
<1>10. ASSUME FOneWriter, NEW j \in FJobs, FKind(j) = "load"  PROVE FLoading(j)'
  <2>1. FLoading(j) /\ (j = io[1] => FReader(io))
    BY <1>1, <1>10 DEF FLoads
  <2>2. fjob'[j].st = fjob[j].st /\ (j \in ffail => j \in ffail') /\ (j = io[1] /\ j \notin ffail' => fwork[io].ok)
    BY <1>3
  <2>3. ASSUME j \notin ffail', NEW k \in DOMAIN FIos(j), <<j, k>> \in DOMAIN fwork  PROVE <<j, k>> \in DOMAIN fwork' \/ FRead(j, k)
    <3>1. CASE <<j, k>> = io
      BY <1>2, <1>4, <2>1, <2>2, <2>3, <3>1 DEF FReader
    <3>2. CASE <<j, k>> # io
      BY <1>3, <2>3, <3>2
    <3> QED BY <3>1, <3>2
  <2> QED BY <1>3, <1>7, <1>8, <2>1, <2>2, <2>3 DEF FLoading
<1>11. ASSUME FClean'
       PROVE  /\ \A j \in FJobs : FKind(j) = "dump" => j \notin ffail'
              /\ \A j \in FJobs : FKind(j) = "dump" /\ fjob'[j].st # "new" =>
                   \A k \in DOMAIN FIos(j) : FLast(<<j, k>>) => FKept(j, k)'
              /\ \A x \in DOMAIN fwork : fwork[x].pc = "io" =>
                   x \in DOMAIN fwork' /\ fwork'[x].pc = "io" /\ fwork'[x].fd = fwork[x].fd
  <2>1. FClean /\ (FKind(io[1]) = "dump" => FDumper(io))
    BY <1>1, <1>7, <1>11 DEF FDumps
  <2>2. \A j \in FJobs : FKind(j) = "dump" => j \notin ffail'
    BY <1>1, <1>3, <2>1 DEF FDumps, FDumper
  <2>3. ASSUME NEW j \in FJobs, FKind(j) = "dump", fjob'[j].st # "new", NEW k \in DOMAIN FIos(j), FLast(<<j, k>>)
        PROVE  FKept(j, k)'
    <3>1. FKept(j, k)
      BY <1>1, <1>3, <2>1, <2>3 DEF FDumps
    <3>2. CASE <<j, k>> = io
      <4>1. FThere(FBlock(io))
        BY <1>2, <1>4, <2>1, <2>3, <3>2 DEF FDumper
      <4> QED BY <1>7, <1>8, <3>2, <4>1 DEF FKept
    <3>3. CASE <<j, k>> # io
      BY <1>3, <1>7, <1>8, <3>1, <3>3 DEF FKept
    <3> QED BY <3>2, <3>3
  <2>4. \A x \in DOMAIN fwork : fwork[x].pc = "io" =>
                   x \in DOMAIN fwork' /\ fwork'[x].pc = "io" /\ fwork'[x].fd = fwork[x].fd
    BY <1>2, <1>3
  <2> QED BY <2>2, <2>3, <2>4
<1> QED BY <1>2, <1>3, <1>5, <1>9, <1>10, <1>11, FStillKeeps

(* The monitor keeps the invariant.                                         *)
LEMMA FAbandonKeeps ==
  ASSUME FInv, NEW io \in DOMAIN fwork, Abandon(io)
  PROVE  FInv'
<1>1. FTyped /\ FQueues /\ FOneByOne /\ FLoads
  BY DEF FInv
<1>2. FStill /\ fstruck' = fstruck \union {<<"stuck", io>>}
  BY DEF Abandon, FStill, ffiles
<1>3. /\ FQueues' /\ fq' = fq /\ FStuck' /\ (\A i \in FJobs : fjob'[i].st = fjob[i].st) /\ DOMAIN fwork' = DOMAIN fwork
      /\ \A x \in DOMAIN fwork : /\ fwork'[x].pc = fwork[x].pc /\ fwork'[x].fd = fwork[x].fd
                                 /\ fwork'[x].ok = fwork[x].ok
      /\ ffail' = ffail \union {io[1]}
  BY <1>1, FAbandonQueues
<1>4. \A x \in DOMAIN fwork' : FOld(x)
  BY <1>3 DEF FOld
<1>5. /\ fcfg' = fcfg /\ fino' = fino /\ fdir' = fdir /\ fmem' = fmem /\ fstruck \subseteq fstruck'
  BY <1>2 DEF FStill
<1>6. /\ (\A j : FKind(j)' = FKind(j) /\ FIos(j)' = FIos(j))
      /\ \A x : FBlock(x)' = FBlock(x) /\ FShard(x)' = FShard(x)
  BY <1>5, FSame
<1>7. ~FClean'
  <2>1. <<"stuck", io>> \in fstruck' /\ <<"stuck", io>>[1] = "stuck"
    BY <1>2
  <2> QED BY <2>1 DEF FClean, FStruck
<1>8. (\A b, s : FHas(b, s)' = FHas(b, s)) /\ (\A j, k : FRead(j, k)' = FRead(j, k))
  BY <1>5 DEF FHas, FRead
<1>9. ASSUME FSeries, NEW j \in FJobs, FKind(j) = "dump", fjob'[j].st = "wait", j \notin ffail'  PROVE FPassed(j)'
  <2>1. FPassed(j)
    BY <1>1, <1>3, <1>9 DEF FOneByOne
  <2> QED BY <1>3, <1>6, <1>8, <2>1 DEF FPassed
<1>10. ASSUME FOneWriter, NEW j \in FJobs, FKind(j) = "load"  PROVE FLoading(j)'
  <2>1. FLoading(j)
    BY <1>1, <1>10 DEF FLoads
  <2> QED BY <1>3, <1>6, <1>8, <2>1 DEF FLoading
<1> QED BY <1>2, <1>3, <1>4, <1>7, <1>9, <1>10, FStillKeeps

(* A crash keeps the invariant.                                             *)
LEMMA FCrashKeeps ==
  ASSUME FInv, NEW p, Crash(p)
  PROVE  FInv'
<1>1. FTyped /\ FQueues /\ FOneByOne /\ FLoads
  BY DEF FInv
<1>2. FStill
  BY DEF Crash, FStill, ffiles
<1>3. /\ FQueues' /\ <<"crash", p>> \in fstruck' /\ fq' \subseteq fq
      /\ DOMAIN fwork' \subseteq DOMAIN fwork /\ (\A x \in DOMAIN fwork' : fwork'[x] = fwork[x])
      /\ \A i \in FJobs : \/ fjob'[i].st = "dead"
                          \/ /\ fjob'[i] = fjob[i] /\ (i \in ffail' <=> i \in ffail)
                             /\ \A k : /\ <<i, k>> \in fq' <=> <<i, k>> \in fq
                                       /\ <<i, k>> \in DOMAIN fwork' <=> <<i, k>> \in DOMAIN fwork
  BY <1>1, FCrashQueues
<1>4. \A x \in DOMAIN fwork' : FOld(x)
  BY <1>3 DEF FOld
<1>5. /\ fcfg' = fcfg /\ fino' = fino /\ fdir' = fdir /\ fmem' = fmem /\ fstruck \subseteq fstruck'
  BY <1>2 DEF FStill
<1>6. /\ (\A j : FKind(j)' = FKind(j) /\ FIos(j)' = FIos(j))
      /\ \A x : FBlock(x)' = FBlock(x) /\ FShard(x)' = FShard(x)
  BY <1>5, FSame
<1>7. ~FClean'
  <2>1. <<"crash", p>>[1] = "crash"
    OBVIOUS
  <2> QED BY <1>3, <2>1 DEF FClean, FStruck
<1>8. (\A b, s : FHas(b, s)' = FHas(b, s)) /\ (\A j, k : FRead(j, k)' = FRead(j, k))
  BY <1>5 DEF FHas, FRead
<1>9. ASSUME FSeries, NEW j \in FJobs, FKind(j) = "dump", fjob'[j].st = "wait", j \notin ffail'  PROVE FPassed(j)'
  <2>1. /\ fjob'[j] = fjob[j] /\ j \notin ffail
        /\ \A k : /\ <<j, k>> \in fq' <=> <<j, k>> \in fq
                  /\ <<j, k>> \in DOMAIN fwork' <=> <<j, k>> \in DOMAIN fwork
    BY <1>3, <1>9
  <2>2. FPassed(j)
    BY <1>1, <1>9, <2>1 DEF FOneByOne
  <2> QED BY <1>6, <1>8, <2>1, <2>2 DEF FPassed
<1>10. ASSUME FOneWriter, NEW j \in FJobs, FKind(j) = "load"  PROVE FLoading(j)'
  <2>1. FLoading(j)
    BY <1>1, <1>10 DEF FLoads
  <2>2. CASE fjob'[j].st = "dead"
    BY <2>2 DEF FLoading
  <2>3. CASE fjob'[j].st # "dead"
    <3>1. /\ fjob'[j] = fjob[j] /\ (j \in ffail' <=> j \in ffail)
          /\ \A k : /\ <<j, k>> \in fq' <=> <<j, k>> \in fq
                    /\ <<j, k>> \in DOMAIN fwork' <=> <<j, k>> \in DOMAIN fwork
      BY <1>3, <2>3
    <3> QED BY <1>6, <1>8, <2>1, <3>1 DEF FLoading
  <2> QED BY <2>2, <2>3
<1> QED BY <1>2, <1>3, <1>4, <1>7, <1>9, <1>10, FStillKeeps

(* Submit keeps the invariant.                                              *)
LEMMA FSubmitKeeps ==
  ASSUME FInv, NEW j \in FJobs, Submit(j)
  PROVE  FInv'
<1>1. FTyped /\ FQueues /\ FOneByOne /\ FLoads /\ FDumps
  BY DEF FInv
<1>2. FStill /\ fstruck' = fstruck /\ fwork' = fwork /\ ffail' = ffail /\ fq' = fq \union FWaits(j)
  BY DEF Submit, FStill, ffiles
<1>3. FQueues'
  BY <1>1, FSubmitQueues
<1>4. \A x \in DOMAIN fwork' : FOld(x)
  BY <1>2 DEF FOld
<1>5. /\ fcfg' = fcfg /\ fino' = fino /\ fdir' = fdir /\ fmem' = fmem /\ fstruck \subseteq fstruck'
  BY <1>2 DEF FStill
<1>6. /\ (\A i : FKind(i)' = FKind(i) /\ FIos(i)' = FIos(i)) /\ (FClean' => FClean)
      /\ \A x : FBlock(x)' = FBlock(x) /\ FShard(x)' = FShard(x)
  BY <1>5, FSame
<1>7. (\A b, s : FHas(b, s)' = FHas(b, s)) /\ (\A i, k : FRead(i, k)' = FRead(i, k)) /\ (\A b : FThere(b)' = FThere(b))
  BY <1>5 DEF FHas, FRead, FThere
<1>8. /\ fjob'[j].st = "wait" /\ \A i \in FJobs : i # j => fjob'[i] = fjob[i]
      /\ \A i, k : <<i, k>> \in fq' <=> <<i, k>> \in fq \/ (i = j /\ k \in DOMAIN FIos(j))
  <2>1. \A i, k : <<i, k>> \in FWaits(j) <=> i = j /\ k \in DOMAIN FIos(j)
    BY DEF FWaits
  <2> QED BY <1>1, <1>2, <2>1 DEF Submit, FQueues, FJobsOK
<1>9. ASSUME FSeries, NEW i \in FJobs, FKind(i) = "dump", fjob'[i].st = "wait", i \notin ffail'  PROVE FPassed(i)'
  <2>1. CASE i = j
    BY <1>6, <1>8, <2>1 DEF FPassed
  <2>2. CASE i # j
    <3>1. FPassed(i)
      BY <1>1, <1>2, <1>8, <1>9, <2>2 DEF FOneByOne
    <3> QED BY <1>2, <1>6, <1>7, <1>8, <2>2, <3>1 DEF FPassed
  <2> QED BY <2>1, <2>2
<1>10. ASSUME FOneWriter, NEW i \in FJobs, FKind(i) = "load"  PROVE FLoading(i)'
  <2>1. CASE i = j
    BY <1>6, <1>8, <2>1 DEF FLoading
  <2>2. CASE i # j
    <3>1. FLoading(i)
      BY <1>1, <1>10 DEF FLoads
    <3> QED BY <1>2, <1>6, <1>7, <1>8, <2>2, <3>1 DEF FLoading
  <2> QED BY <2>1, <2>2
<1>11. ASSUME FClean'
       PROVE  /\ \A i \in FJobs : FKind(i) = "dump" => i \notin ffail'
              /\ \A i \in FJobs : FKind(i) = "dump" /\ fjob'[i].st # "new" =>
                   \A k \in DOMAIN FIos(i) : FLast(<<i, k>>) => FKept(i, k)'
              /\ \A x \in DOMAIN fwork : fwork[x].pc = "io" =>
                   x \in DOMAIN fwork' /\ fwork'[x].pc = "io" /\ fwork'[x].fd = fwork[x].fd
  <2>1. FClean
    BY <1>6, <1>11
  <2>2. ASSUME NEW i \in FJobs, FKind(i) = "dump", fjob'[i].st # "new", NEW k \in DOMAIN FIos(i), FLast(<<i, k>>)
        PROVE  FKept(i, k)'
    <3>1. CASE i = j
      BY <1>8, <2>2, <3>1 DEF FKept
    <3>2. CASE i # j
      <4>1. FKept(i, k)
        BY <1>1, <1>8, <2>1, <2>2, <3>2 DEF FDumps
      <4> QED BY <1>2, <1>6, <1>7, <1>8, <4>1 DEF FKept
    <3> QED BY <3>1, <3>2
  <2> QED BY <1>1, <1>2, <2>1, <2>2 DEF FDumps
<1> QED BY <1>2, <1>3, <1>4, <1>9, <1>10, <1>11, FStillKeeps

(* Wait keeps the invariant.                                                *)
LEMMA FWaitKeeps ==
  ASSUME FInv, NEW j \in FJobs, Wait(j)
  PROVE  FInv'
<1>1. FTyped /\ FQueues /\ FOneByOne /\ FLoads /\ FDumps
  BY DEF FInv
<1>2. FStill /\ fstruck' = fstruck /\ fwork' = fwork /\ fq' = fq
  BY DEF Wait, FReturn, FStill, ffiles
<1>3. /\ FQueues' /\ FUnderWay(j) /\ ffail' \subseteq ffail
      /\ (\A i \in FJobs : i # j => fjob'[i] = fjob[i] /\ (i \in ffail => i \in ffail'))
      /\ ~FUnderWay(j)' /\ (j \notin ffail \/ ~FStuck => FIdle(j))
      /\ fjob'[j].st = "ok" => j \notin ffail /\ fjob[j].st = "wait"
  BY <1>1, FWaitQueues
<1>4. \A x \in DOMAIN fwork' : FOld(x)
  BY <1>2 DEF FOld
<1>5. /\ fcfg' = fcfg /\ fino' = fino /\ fdir' = fdir /\ fmem' = fmem /\ fstruck \subseteq fstruck'
  BY <1>2 DEF FStill
<1>6. /\ (\A i : FKind(i)' = FKind(i) /\ FIos(i)' = FIos(i)) /\ (FClean' => FClean)
      /\ \A x : FBlock(x)' = FBlock(x) /\ FShard(x)' = FShard(x)
  BY <1>5, FSame
<1>7. (\A b, s : FHas(b, s)' = FHas(b, s)) /\ (\A i, k : FRead(i, k)' = FRead(i, k)) /\ (\A b : FThere(b)' = FThere(b))
  BY <1>5 DEF FHas, FRead, FThere
<1>8. fjob'[j].st # "wait" /\ fjob[j].st # "new"
  BY <1>3 DEF FUnderWay
<1>9. ASSUME FSeries, NEW i \in FJobs, FKind(i) = "dump", fjob'[i].st = "wait", i \notin ffail'  PROVE FPassed(i)'
  <2>1. i # j /\ FPassed(i)
    BY <1>1, <1>3, <1>8, <1>9 DEF FOneByOne
  <2> QED BY <1>2, <1>6, <1>7, <2>1 DEF FPassed
<1>10. ASSUME FOneWriter, NEW i \in FJobs, FKind(i) = "load"  PROVE FLoading(i)'
  <2>1. FLoading(i)
    BY <1>1, <1>10 DEF FLoads
  <2>2. CASE i = j
    <3>1. ASSUME fjob'[j].st = "ok", NEW k \in DOMAIN FIos(j)  PROVE FRead(j, k)
      <4>1. FIdle(j)
        BY <1>3, <3>1
      <4>2. <<j, k>> \notin fq /\ <<j, k>> \notin DOMAIN fwork
        <5>1. <<j, k>>[1] = j
          OBVIOUS
        <5> QED BY <4>1, <5>1 DEF FIdle
      <4> QED BY <1>3, <2>1, <2>2, <3>1, <4>2 DEF FLoading
    <3> QED BY <1>6, <1>7, <1>8, <2>2, <3>1 DEF FLoading
  <2>3. CASE i # j
    BY <1>2, <1>3, <1>6, <1>7, <2>1, <2>3 DEF FLoading
  <2> QED BY <2>2, <2>3
<1>11. ASSUME FClean'
       PROVE  /\ \A i \in FJobs : FKind(i) = "dump" => i \notin ffail'
              /\ \A i \in FJobs : FKind(i) = "dump" /\ fjob'[i].st # "new" =>
                   \A k \in DOMAIN FIos(i) : FLast(<<i, k>>) => FKept(i, k)'
              /\ \A x \in DOMAIN fwork : fwork[x].pc = "io" =>
                   x \in DOMAIN fwork' /\ fwork'[x].pc = "io" /\ fwork'[x].fd = fwork[x].fd
  <2>1. FClean
    BY <1>6, <1>11
  <2>2. \A i \in FJobs : fjob'[i].st # "new" => fjob[i].st # "new"
    BY <1>3, <1>8
  <2>3. \A i, k : FKept(i, k)' = FKept(i, k)
    BY <1>2, <1>6, <1>7 DEF FKept
  <2> QED BY <1>1, <1>2, <1>3, <2>1, <2>2, <2>3 DEF FDumps
<1> QED BY <1>2, <1>3, <1>4, <1>9, <1>10, <1>11, FStillKeeps

(* A Wait that expires keeps the invariant.                                 *)
LEMMA FExpiresKeeps ==
  ASSUME FInv, NEW j \in FJobs, WaitExpires(j)
  PROVE  FInv'
<1>1. FTyped /\ FQueues /\ FOneByOne /\ FLoads
  BY DEF FInv
<1>3. /\ FQueues' /\ fwork' = fwork /\ ffail \subseteq ffail'
      /\ <<"timeout", j>> \in fstruck' /\ fstruck \subseteq fstruck'
      /\ fq' \subseteq fq /\ (\A io \in fq : io \in fq' \/ io[1] \in ffail')
      /\ \A i \in FJobs : \/ fjob'[i].st = fjob[i].st
                          \/ i \in ffail' /\ fjob[i].st = "wait" /\ fjob'[i].st = "drain"
  BY <1>1, FExpiresQueues
<1>2. FStill
  BY <1>3 DEF WaitExpires, FStill, ffiles
<1>4. \A x \in DOMAIN fwork' : FOld(x)
  BY <1>3 DEF FOld
<1>5. /\ fcfg' = fcfg /\ fino' = fino /\ fdir' = fdir /\ fmem' = fmem /\ fstruck \subseteq fstruck'
  BY <1>2 DEF FStill
<1>6. /\ (\A i : FKind(i)' = FKind(i) /\ FIos(i)' = FIos(i))
      /\ \A x : FBlock(x)' = FBlock(x) /\ FShard(x)' = FShard(x)
  BY <1>5, FSame
<1>7. (\A b, s : FHas(b, s)' = FHas(b, s)) /\ (\A i, k : FRead(i, k)' = FRead(i, k))
  BY <1>5 DEF FHas, FRead
<1>8. ~FClean'
  <2>1. <<"timeout", j>>[1] = "timeout"
    OBVIOUS
  <2> QED BY <1>3, <2>1 DEF FClean, FStruck
<1>9. \A i, k : i \notin ffail' => (<<i, k>> \in fq' <=> <<i, k>> \in fq)
  <2>1. \A i, k : <<i, k>>[1] = i
    OBVIOUS
  <2> QED BY <1>3, <2>1
<1>10. ASSUME FSeries, NEW i \in FJobs, FKind(i) = "dump", fjob'[i].st = "wait", i \notin ffail'  PROVE FPassed(i)'
  <2>1. FPassed(i)
    BY <1>1, <1>3, <1>10 DEF FOneByOne
  <2> QED BY <1>3, <1>6, <1>7, <1>9, <1>10, <2>1 DEF FPassed
<1>11. ASSUME FOneWriter, NEW i \in FJobs, FKind(i) = "load"  PROVE FLoading(i)'
  <2>1. FLoading(i)
    BY <1>1, <1>11 DEF FLoads
  <2>2. fjob'[i].st = "ok" => fjob[i].st = "ok"
    BY <1>3
  <2>3. i \notin ffail' /\ fjob'[i].st = "wait" => i \notin ffail /\ fjob[i].st = "wait"
    BY <1>3
  <2> QED BY <1>3, <1>6, <1>7, <1>9, <2>1, <2>2, <2>3 DEF FLoading
<1> QED BY <1>2, <1>3, <1>4, <1>8, <1>10, <1>11, FStillKeeps

(* A worker that takes an I/O keeps the invariant.                          *)
LEMMA FTakeKeeps ==
  ASSUME FInv, NEW io \in fq, TakeIo(io)
  PROVE  FInv'
<1>1. FTyped /\ FQueues /\ FOneByOne /\ FLoads /\ FDumps
  BY DEF FInv
<1>2. FStill /\ fstruck' = fstruck
  BY DEF TakeIo, FStill, ffiles
<1>3. /\ FQueues' /\ ffail' = ffail /\ fq' = fq \ {io} /\ (\A i \in FJobs : fjob'[i].st = fjob[i].st)
      /\ \/ io[1] \in ffail /\ fwork' = fwork
         \/ io[1] \notin ffail /\ fwork' = FTaken(io)
  BY <1>1, FTakeQueues
<1>4. /\ FIoOK(io) /\ io = <<io[1], io[2]>> /\ io[1] \in FJobs /\ io[2] \in DOMAIN FIos(io[1])
      /\ io \notin DOMAIN fwork
  BY <1>1, FIoIs DEF FTyped, FQueues, FWaiting, FIoOK
<1>5. /\ fcfg' = fcfg /\ fino' = fino /\ fdir' = fdir /\ fmem' = fmem /\ fstruck \subseteq fstruck'
  BY <1>2 DEF FStill
<1>6. /\ (\A i : FKind(i)' = FKind(i) /\ FIos(i)' = FIos(i)) /\ (FClean' => FClean)
      /\ \A x : FBlock(x)' = FBlock(x) /\ FShard(x)' = FShard(x)
  BY <1>5, FSame
<1>7. (\A b, s : FHas(b, s)' = FHas(b, s)) /\ (\A i, k : FRead(i, k)' = FRead(i, k)) /\ (\A b : FThere(b)' = FThere(b))
  BY <1>5 DEF FHas, FRead, FThere
<1>8. /\ \A x \in DOMAIN fwork : x \in DOMAIN fwork' /\ FOld(x)
      /\ io[1] \notin ffail => /\ io \in DOMAIN fwork' /\ fwork'[io].pc = "open" /\ fwork'[io].ok
                               /\ \A x \in DOMAIN fwork' : x \in DOMAIN fwork \/ x = io
      /\ io[1] \in ffail => fwork' = fwork
  BY <1>3, <1>4 DEF FTaken, FOld
<1>9. ASSUME FSeries, io[1] \notin ffail
      PROVE  /\ \A y \in DOMAIN fwork : FPool(y[1]) # FPool(io[1])
             /\ FKind(io[1]) = "dump" => fjob[io[1]].st = "wait" /\ FWritten(io)
  <2>1. \A y \in DOMAIN fwork : FPool(y[1]) # FPool(io[1])
    <3>1. \A y \in DOMAIN fwork : ~fwork[y].left
      BY <1>1, <1>9, FSeriesIs DEF FQueues, FAway
    <3>2. IsFiniteSet(FBusy(FPool(io[1])))
      BY <1>1, FS_Subset DEF FQueues, FBusyOK, FBusy
    <3>3. Cardinality(FBusy(FPool(io[1]))) < 1 /\ Cardinality(FBusy(FPool(io[1]))) \in Nat
      BY <1>9, <3>2, FSeriesIs, FS_CardinalityType DEF TakeIo
    <3>4. FBusy(FPool(io[1])) = {}
      BY <3>2, <3>3, FS_EmptySet
    <3> QED BY <3>1, <3>4 DEF FBusy
  <2>2. ASSUME FKind(io[1]) = "dump"  PROVE fjob[io[1]].st = "wait" /\ FWritten(io)
    <3>1. ~FIdle(io[1]) /\ ~FStuck
      BY <1>9, FSeriesIs DEF FIdle
    <3>2. fjob[io[1]].st = "wait"
      BY <1>1, <1>4, <1>9, <3>1 DEF FQueues, FStates, FUnderWay
    <3>3. FPassed(io[1])
      BY <1>1, <1>4, <1>9, <2>2, <3>2 DEF FOneByOne
    <3>4. ASSUME NEW m \in DOMAIN FIos(io[1]), m < io[2]
          PROVE  <<io[1], m>> \notin fq /\ <<io[1], m>> \notin DOMAIN fwork
      <4>1. FBefore(<<io[1], m>>, io)
        BY <3>4 DEF FBefore
      <4>2. \A x \in fq : ~FBefore(x, io)
        BY DEF TakeIo
      <4>3. <<io[1], m>>[1] = io[1]
        OBVIOUS
      <4> QED BY <2>1, <4>1, <4>2, <4>3
    <3>5. FWritten(io)
      <4> SUFFICES ASSUME NEW m \in DOMAIN FIos(io[1]), m < io[2], FBlock(<<io[1], m>>) = FBlock(io)
                   PROVE  FHas(FBlock(io), FShard(<<io[1], m>>))
        BY DEF FWritten
      <4>1. FBlock(<<io[1], io[2]>>) = FBlock(io) /\ <<io[1], io[2]>> \in fq
        BY <1>4
      <4>2. FHas(FBlock(<<io[1], io[2]>>), FShard(<<io[1], m>>))
        BY <1>4, <3>3, <3>4, <4>1 DEF FPassed
      <4> QED BY <4>1, <4>2
    <3> QED BY <3>2, <3>5
  <2> QED BY <2>1, <2>2
<1>10. \A x \in DOMAIN fwork' : FOld(x) \/ FNew(x)
  <2> SUFFICES ASSUME NEW x \in DOMAIN fwork', x \notin DOMAIN fwork  PROVE FNew(x)
    BY <1>8
  <2>1. x = io /\ io[1] \notin ffail
    BY <1>8
  <2> QED BY <1>8, <1>9, <2>1 DEF FNew
<1>11. \A i, k : /\ <<i, k>> \in fq' => <<i, k>> \in fq
                 /\ i \notin ffail /\ (<<i, k>> \in fq \/ <<i, k>> \in DOMAIN fwork) => <<i, k>> \in fq' \/ <<i, k>> \in DOMAIN fwork'
  <2>1. \A i, k : <<i, k>>[1] = i
    OBVIOUS
  <2> QED BY <1>3, <1>8, <2>1
<1>12. ASSUME FSeries, NEW i \in FJobs, FKind(i) = "dump", fjob'[i].st = "wait", i \notin ffail'  PROVE FPassed(i)'
  <2>1. FPassed(i)
    BY <1>1, <1>3, <1>12 DEF FOneByOne
  <2> QED BY <1>3, <1>6, <1>7, <1>11, <1>12, <2>1 DEF FPassed
<1>13. ASSUME FOneWriter, NEW i \in FJobs, FKind(i) = "load"  PROVE FLoading(i)'
  <2>1. FLoading(i)
    BY <1>1, <1>13 DEF FLoads
  <2> QED BY <1>3, <1>6, <1>7, <1>11, <2>1 DEF FLoading
<1>14. ASSUME FClean'
       PROVE  /\ \A i \in FJobs : FKind(i) = "dump" => i \notin ffail'
              /\ \A i \in FJobs : FKind(i) = "dump" /\ fjob'[i].st # "new" =>
                   \A k \in DOMAIN FIos(i) : FLast(<<i, k>>) => FKept(i, k)'
              /\ \A x \in DOMAIN fwork : fwork[x].pc = "io" =>
                   x \in DOMAIN fwork' /\ fwork'[x].pc = "io" /\ fwork'[x].fd = fwork[x].fd
  <2>1. FClean
    BY <1>6, <1>14
  <2>2. \A i \in FJobs : FKind(i) = "dump" => i \notin ffail'
    BY <1>1, <1>3, <2>1 DEF FDumps
  <2>3. \A i, k : i \notin ffail' => (FKept(i, k) => FKept(i, k)')
    BY <1>3, <1>6, <1>7, <1>11 DEF FKept
  <2>4. \A x \in DOMAIN fwork : fwork[x].pc = "io" =>
                   x \in DOMAIN fwork' /\ fwork'[x].pc = "io" /\ fwork'[x].fd = fwork[x].fd
    BY <1>8 DEF FOld
  <2> QED BY <1>1, <1>3, <2>1, <2>2, <2>3, <2>4 DEF FDumps
<1> QED BY <1>2, <1>3, <1>10, <1>12, <1>13, <1>14, FStillKeeps

----------------------------------------------------------------------------
(* The collector and the lookups                                            *)

(* They keep what is known of workers and files, if names only disappear.   *)
LEMMA FAsideRest ==
  ASSUME FInv, FAside, fdir'.tmp = fdir.tmp, \A b \in FBlocks : fdir'.arch[b] = fdir.arch[b] \/ fdir'.arch[b] = 0,
         FClean' => fgc' = fgc /\ fdir' = fdir
  PROVE  FSteps' /\ FOneByOne' /\ FLoads' /\ FDumps'
<1>1. FTyped /\ FQueues /\ FSteps /\ FOneByOne /\ FLoads /\ FDumps
  BY DEF FInv
<1>2. /\ fcfg' = fcfg /\ fjob' = fjob /\ ffail' = ffail /\ fq' = fq /\ fwork' = fwork /\ fino' = fino
      /\ fmem' = fmem /\ fstruck \subseteq fstruck'
  BY DEF FAside
<1>3. /\ FJobs' = FJobs /\ FBlocks' = FBlocks
      /\ \A j : FKind(j)' = FKind(j) /\ FIos(j)' = FIos(j) /\ FPool(j)' = FPool(j)
      /\ \A x : FBlock(x)' = FBlock(x) /\ FShard(x)' = FShard(x) /\ FLast(x)' = FLast(x)
      /\ (FOneWriter' => FOneWriter) /\ (FSeries' => FSeries) /\ (FClean' => FClean)
  BY <1>2, FSame
<1>4. (\A x : FWhole(x)' = FWhole(x)) /\ (\A b, s : FHas(b, s)' = FHas(b, s)) /\ (\A j, k : FRead(j, k)' = FRead(j, k))
  BY <1>2 DEF FWhole, FHas, FRead
<1>5. FSteps'
  BY <1>1, <1>2, <1>3 DEF FSteps
<1>6. FLoads'
  BY <1>1, <1>2, <1>3, <1>4 DEF FLoads, FReader, FLoading
<1>7. FOneByOne'
  <2>1. \A x \in DOMAIN fwork : FWriter(x) => FWriter(x)'
    BY <1>2, <1>3, <1>4 DEF FWriter, FWritten
  <2>2. \A j : FPassed(j) => FPassed(j)'
    BY <1>2, <1>3, <1>4 DEF FPassed
  <2>3. FSeries => \A b \in FBlocks : fdir'.arch[b] # 0 => FWhole(fdir.arch[b])'
    BY <1>1, <1>4 DEF FOneByOne
  <2> QED BY <1>1, <1>2, <1>3, <1>4, <2>1, <2>2, <2>3 DEF FOneByOne
<1>8. FDumps'
  <2> SUFFICES ASSUME FClean'  PROVE FDumps'
    BY DEF FDumps
  <2>1. fgc' = fgc /\ fdir' = fdir
    OBVIOUS
  <2>2. (\A b : FThere(b)' = FThere(b)) /\ (\A x : FFilling(x)' = FFilling(x))
    BY <1>2, <1>3, <2>1 DEF FThere, FFilling
  <2>3. (\A x : FFull(x)' = FFull(x)) /\ (\A x \in DOMAIN fwork : FDumper(x)' = FDumper(x)) /\ (\A j, k : FKept(j, k)' = FKept(j, k))
    BY <1>2, <1>3, <1>4, <2>1, <2>2 DEF FFull, FDumper, FKept
  <2> QED BY <1>1, <1>2, <1>3, <2>1, <2>3 DEF FDumps
<1> QED BY <1>5, <1>6, <1>7, <1>8

(* The collector keeps the invariant.                                       *)
LEMMA FGcKeeps ==
  ASSUME FInv, GcScans \/ GcRemoves
  PROVE  FInv'
<1>1. FTyped /\ FQueues /\ FSearch /\ FDumps
  BY DEF FInv
<1>2. CASE GcScans
  <2>1. FTyped' /\ FQueues' /\ FAside /\ fdir' = fdir /\ flook' = flook /\ ~FClean'
    BY <1>1, <1>2, FGcScans
  <2>2. FSearch'
    BY <1>1, <2>1, FSearchStays DEF FAside
  <2> QED BY <2>1, <2>2, FAsideRest DEF FInv
<1>3. CASE GcRemoves
  <2>1. /\ FTyped' /\ FQueues' /\ FAside /\ FSees /\ fgc # <<>> /\ fstruck' = fstruck
        /\ fdir'.tmp = fdir.tmp
        /\ \A b \in FBlocks : fdir'.arch[b] = fdir.arch[b] \/ fdir'.arch[b] = 0
    BY <1>1, <1>3, FGcRemoves
  <2>2. ~FClean'
    BY <1>1, <2>1 DEF FDumps, FClean, FStruck
  <2>3. FSearch'
    BY <1>1, <2>1, FSearchSees DEF FAside
  <2> QED BY <2>1, <2>2, <2>3, FAsideRest DEF FInv
<1> QED BY <1>2, <1>3

(* Each position of the list belongs to one worker, which comes to it from  *)
(* the positions before.                                                    *)
LEMMA FNextIsFar ==
  ASSUME NEW c \in Nat, c >= 1, NEW q \in Nat, NEW r \in Nat, q < r, NEW w \in Nat
  PROVE  (w - 1) + r * c >= (w - 1) + q * c + c
<1>1. PICK d \in Nat : r = q + 1 + d
  <2>1. r - q - 1 \in Nat /\ r = q + 1 + (r - q - 1)
    OBVIOUS
  <2> QED BY <2>1
<1>2. PICK dc \in Nat : dc = d * c
  OBVIOUS
<1>3. (q + 1 + d) * c = q * c + c + d * c
  OBVIOUS
<1>4. PICK qc \in Nat : qc = q * c
  OBVIOUS
<1> QED BY <1>1, <1>2, <1>3, <1>4

(* A worker comes to its next position from the one before.                 *)
LEMMA FMineIs ==
  ASSUME fcfg \in PosixSetups, NEW w \in FWorkers
  PROVE  /\ w - 1 \in Nat /\ FMine(w, w - 1)
         /\ \A i \in Nat : FMine(w, i) => FMine(w, i + fcfg.lookupConcurrency)
         /\ \A i, k \in Nat : FMine(w, i) /\ FMine(w, k) /\ i < k => i + fcfg.lookupConcurrency <= k
<1> DEFINE c == fcfg.lookupConcurrency
<1>1. c \in Nat /\ c >= 1 /\ w \in Nat /\ w >= 1
  BY FSetupIs DEF FWorkers
<1>2. w - 1 \in Nat /\ FMine(w, w - 1)
  <2>1. 0 \in 0..w - 1 /\ w - 1 = (w - 1) + 0 * c
    BY <1>1
  <2> QED BY <1>1, <2>1 DEF FMine
<1>3. ASSUME NEW i \in Nat, FMine(w, i)  PROVE FMine(w, i + c)
  <2>1. PICK q \in 0..i : i = (w - 1) + q * c
    BY <1>3 DEF FMine
  <2>2. q + 1 \in 0..i + c
    BY <1>1
  <2>3. (q + 1) * c = q * c + c
    BY <1>1
  <2>4. PICK qc \in Nat : qc = q * c
    BY <1>1
  <2>5. i + c = (w - 1) + (q + 1) * c
    BY <1>1, <2>1, <2>3, <2>4
  <2> QED BY <2>2, <2>5 DEF FMine
<1>4. ASSUME NEW i \in Nat, NEW k \in Nat, FMine(w, i), FMine(w, k), i < k  PROVE i + c <= k
  <2>1. PICK q \in 0..i : i = (w - 1) + q * c
    BY <1>4 DEF FMine
  <2>2. PICK r \in 0..k : k = (w - 1) + r * c
    BY <1>4 DEF FMine
  <2>3. q < r
    <3> SUFFICES ASSUME r <= q  PROVE FALSE
      OBVIOUS
    <3>1. PICK qc \in Nat, rc \in Nat : qc = q * c /\ rc = r * c
      BY <1>1
    <3>2. CASE r = q
      BY <1>4, <2>1, <2>2, <3>2
    <3>3. CASE r < q
      <4>1. (w - 1) + q * c >= (w - 1) + r * c + c
        BY <1>1, <3>3, FNextIsFar
      <4> QED BY <1>1, <1>4, <2>1, <2>2, <3>1, <4>1
    <3> QED BY <3>2, <3>3
  <2>4. (w - 1) + r * c >= (w - 1) + q * c + c
    BY <1>1, <2>3, FNextIsFar
  <2>5. PICK qc \in Nat : qc = q * c
    BY <1>1
  <2>6. PICK rc \in Nat : rc = r * c
    BY <1>1
  <2> QED BY <1>1, <2>1, <2>2, <2>4, <2>5, <2>6
<1> QED BY <1>2, <1>3, <1>4

(* Each position has a worker.                                              *)
LEMMA FSomeWorker ==
  ASSUME fcfg \in PosixSetups, NEW i \in Nat
  PROVE  \E w \in FWorkers : w - 1 \in 0..i /\ FMine(w, i)
<1> DEFINE c == fcfg.lookupConcurrency
<1>1. c \in Nat /\ c >= 1
  BY FSetupIs
<1>2. /\ i = c * (i \div c) + (i % c) /\ i % c \in 0..c - 1 /\ i \div c \in Nat
  BY <1>1
<1>3. PICK q \in Nat : q = i \div c
  BY <1>2
<1>4. PICK w \in Nat : w = (i % c) + 1
  BY <1>2
<1>5. i = (w - 1) + q * c
  BY <1>1, <1>2, <1>3, <1>4
<1>6. q * c >= q
  <2>1. PICK d \in Nat : c = 1 + d
    <3>1. c - 1 \in Nat /\ c = 1 + (c - 1)
      BY <1>1
    <3> QED BY <3>1
  <2>2. q * (1 + d) = q + q * d
    OBVIOUS
  <2>3. PICK qd \in Nat : qd = q * d
    OBVIOUS
  <2> QED BY <2>1, <2>2, <2>3
<1>7. PICK qc \in Nat : qc = q * c
  BY <1>1
<1>8. q \in 0..i /\ w \in FWorkers /\ w - 1 \in 0..i
  <2>1. PICK m \in 0..c - 1 : m = i % c
    BY <1>2
  <2>2. w = m + 1 /\ w - 1 \in Nat
    BY <1>1, <1>4, <2>1
  <2>3. w \in FWorkers
    BY <1>1, <2>1, <2>2 DEF FWorkers
  <2>4. i = (w - 1) + qc /\ qc >= q
    BY <1>5, <1>6, <1>7
  <2> QED BY <2>2, <2>3, <2>4
<1> QED BY <1>5, <1>8 DEF FMine

(* A lookup changes nothing but itself.                                     *)
LEMMA FLookupKeeps ==
  ASSUME FInv, FAside, fdir' = fdir, fgc' = fgc, FLookOK', FSearch'
  PROVE  FInv'
<1>1. FTyped /\ FQueues /\ FTyped' /\ FQueues'
  BY FTypedStays, FAsideKeeps DEF FAside, FInv
<1> QED BY <1>1, FAsideRest DEF FInv

(* The start of a lookup keeps the invariant.                               *)
LEMMA FStartsKeeps ==
  ASSUME FInv, LookupStarts
  PROVE  FInv'
<1>1. FTyped /\ FList \in Seq(FBlocks) /\ Len(FList) \in Nat /\ fcfg.lookupConcurrency \in Nat
  BY FSetupIs DEF FInv, FTyped
<1>2. FAside /\ fdir' = fdir /\ fgc' = fgc
  BY DEF LookupStarts, FAside, ffiles
<1>3. /\ flook' = [pc |-> "run", at |-> [w \in FWorkers |-> w - 1], late |-> FALSE, firstFail |-> Len(FList),
                   ever |-> FPresent(fdir), gap |-> FBlocks \ FPresent(fdir)]
      /\ flook'.pc = "run" /\ flook'.at = [w \in FWorkers |-> w - 1] /\ flook'.late = FALSE
      /\ flook'.firstFail = Len(FList) /\ flook'.ever = FPresent(fdir) /\ flook'.gap = FBlocks \ FPresent(fdir)
  BY DEF LookupStarts
<1>4. FLookOK'
  BY <1>1, <1>3 DEF FLookOK
<1>5. FList' = FList /\ FBlocks' = FBlocks /\ FWorkers' = FWorkers /\ (\A w, i : FMine(w, i)' = FMine(w, i)) /\ (\A b : FThere(b)' = FThere(b))
  BY <1>2 DEF FAside, FList, FBlocks, FWorkers, FMine, FThere
<1>6. \A b \in FBlocks : IF FThere(b) THEN b \in flook'.ever ELSE b \in flook'.gap
  BY <1>3 DEF FPresent, FThere
<1>7. \A w \in FWorkers : flook'.at[w] = w - 1 /\ w - 1 \in Nat /\ FMine(w, w - 1)
  BY <1>1, <1>3, FMineIs DEF FTyped
<1>8. \A i \in 0..Len(FList) - 1 : \E w \in FWorkers : flook'.at[w] \in 0..i /\ FMine(w, i)
  <2> SUFFICES ASSUME NEW i \in 0..Len(FList) - 1  PROVE \E w \in FWorkers : flook'.at[w] \in 0..i /\ FMine(w, i)
    OBVIOUS
  <2>0. i \in Nat /\ fcfg \in PosixSetups
    BY <1>1 DEF FTyped
  <2>1. PICK w \in FWorkers : w - 1 \in 0..i /\ FMine(w, i)
    BY <2>0, FSomeWorker
  <2> QED BY <1>7, <2>1
<1>9. FSearch'
  BY <1>1, <1>3, <1>5, <1>6, <1>7, <1>8 DEF FSearch
<1> QED BY <1>2, <1>4, <1>9, FLookupKeeps

(* A probe keeps the invariant: a position is passed only after a hit.      *)
LEMMA FProbesKeeps ==
  ASSUME FInv, NEW w \in DOMAIN flook.at, LookupProbes(w)
  PROVE  FInv'
<1> DEFINE i == flook.at[w]
           c == fcfg.lookupConcurrency
<1>1. /\ FTyped /\ FSearch /\ FLookOK /\ FList \in Seq(FBlocks) /\ Len(FList) \in Nat /\ c \in Nat /\ c >= 1
  BY FSetupIs DEF FInv, FTyped
<1>2. FAside /\ fdir' = fdir /\ fgc' = fgc
  BY DEF LookupProbes, FAside, ffiles
<1>3. /\ flook.pc = "run" /\ i >= 0 /\ w \in FWorkers /\ i \in Nat /\ FMine(w, i)
      /\ DOMAIN flook.at = FWorkers /\ flook.firstFail \in 0..Len(FList)
  BY <1>1 DEF LookupProbes, FSearch
<1>4. FList' = FList /\ FBlocks' = FBlocks /\ FWorkers' = FWorkers /\ (\A x, k : FMine(x, k)' = FMine(x, k)) /\ (\A b : FThere(b)' = FThere(b))
  BY <1>2 DEF FAside, FList, FBlocks, FWorkers, FMine, FThere
<1>5. ASSUME NEW f \in 0..Len(FList), NEW n, n = -1 \/ n = i + c,
             flook'.at = [flook.at EXCEPT ![w] = n], flook'.firstFail = f, f <= flook.firstFail,
             flook'.pc = flook.pc, flook'.late = flook.late, flook'.ever = flook.ever, flook'.gap = flook.gap,
             f # flook.firstFail => FList[f + 1] \in flook.gap,
             \A k \in 0..Len(FList) - 1 : k >= i /\ FMine(w, k) =>
                FList[k + 1] \in flook.ever \/ f <= k \/ flook.late \/ (n \in 0..k /\ FMine(w, k))
      PROVE  FSearch'
  <2>1. flook'.at[w] = n /\ DOMAIN flook'.at = FWorkers /\ \A x \in FWorkers : x # w => flook'.at[x] = flook.at[x]
    BY <1>3, <1>5
  <2>2. n = -1 \/ (n \in Nat /\ FMine(w, n))
    <3>1. FMine(w, i + c)
      BY <1>1, <1>3, FMineIs DEF FTyped
    <3> QED BY <1>1, <1>3, <1>5, <3>1
  <2>3. \A x \in FWorkers : flook'.at[x] = -1 \/ (flook'.at[x] \in Nat /\ FMine(x, flook'.at[x]))
    BY <1>1, <1>3, <2>1, <2>2 DEF FSearch
  <2>4. f < Len(FList) => FList[f + 1] \in flook.gap
    BY <1>1, <1>3, <1>5 DEF FSearch
  <2>5. ASSUME NEW k \in 0..Len(FList) - 1
        PROVE  \/ FList[k + 1] \in flook.ever \/ f <= k \/ flook.late
               \/ \E x \in FWorkers : flook'.at[x] \in 0..k /\ FMine(x, k)
    <3>1. CASE FList[k + 1] \in flook.ever \/ flook.firstFail <= k \/ flook.late
      BY <1>1, <1>3, <1>5, <3>1
    <3>2. CASE \E x \in FWorkers : flook.at[x] \in 0..k /\ FMine(x, k)
      <4>1. PICK x \in FWorkers : flook.at[x] \in 0..k /\ FMine(x, k)
        BY <3>2
      <4>2. CASE x # w
        BY <2>1, <4>1, <4>2
      <4>3. CASE x = w
        <5>1. k >= i /\ FMine(w, k)
          BY <1>3, <4>1, <4>3
        <5>2. FList[k + 1] \in flook.ever \/ f <= k \/ flook.late \/ (n \in 0..k /\ FMine(w, k))
          BY <1>5, <5>1
        <5> QED BY <1>3, <2>1, <5>2
      <4> QED BY <4>2, <4>3
    <3> QED BY <1>1, <1>3, <3>1, <3>2 DEF FSearch
  <2>6. \A b \in FBlocks : IF FThere(b) THEN b \in flook.ever ELSE b \in flook.gap
    BY <1>1, <1>3 DEF FSearch
  <2> QED BY <1>3, <1>4, <1>5, <2>1, <2>3, <2>4, <2>5, <2>6 DEF FSearch
<1>6. CASE flook' = [flook EXCEPT !.at[w] = -1] /\ (i >= Len(FList) \/ flook.late \/ flook.firstFail < i)
  <2>1. /\ FLookOK' /\ flook'.at = [flook.at EXCEPT ![w] = -1] /\ flook'.pc = flook.pc /\ flook'.late = flook.late
        /\ flook'.ever = flook.ever /\ flook'.gap = flook.gap /\ flook'.firstFail = flook.firstFail
    BY <1>1, <1>6 DEF FLookOK
  <2>2. \A k \in 0..Len(FList) - 1 : k >= i => flook.firstFail <= k \/ flook.late
    BY <1>1, <1>3, <1>6
  <2> DEFINE f == flook.firstFail
  <2>a. f \in 0..Len(FList) /\ f <= flook.firstFail /\ f = flook.firstFail
    BY <1>1, <1>3
  <2>b. \A k \in 0..Len(FList) - 1 : k >= i /\ FMine(w, k) =>
                FList[k + 1] \in flook.ever \/ f <= k \/ flook.late \/ (-1 \in 0..k /\ FMine(w, k))
    BY <2>2
  <2> HIDE DEF f
  <2>3. FSearch'
    BY <1>1, <1>3, <1>5, <2>1, <2>a, <2>b
  <2> QED BY <1>2, <2>1, <2>3, FLookupKeeps
<1>7. CASE /\ flook' = [flook EXCEPT !.at[w] = -1, !.firstFail = IF i < flook.firstFail THEN i ELSE flook.firstFail]
           /\ i < Len(FList) /\ fdir.arch[FList[i + 1]] = 0
  <2> DEFINE f == IF i < flook.firstFail THEN i ELSE flook.firstFail
  <2>0. f \in 0..Len(FList) /\ f <= flook.firstFail /\ f <= i /\ (f # flook.firstFail => f = i) /\ f \in Nat
    BY <1>1, <1>3
  <2>a. flook' = [flook EXCEPT !.at[w] = -1, !.firstFail = f]
    BY <1>7
  <2> HIDE DEF f
  <2>1. /\ FLookOK' /\ flook'.at = [flook.at EXCEPT ![w] = -1] /\ flook'.pc = flook.pc /\ flook'.late = flook.late
        /\ flook'.ever = flook.ever /\ flook'.gap = flook.gap /\ flook'.firstFail = f
    BY <1>1, <2>0, <2>a DEF FLookOK
  <2>2. \A k \in 0..Len(FList) - 1 : k >= i => f <= k
    BY <1>1, <1>3, <2>0
  <2>3. FList[i + 1] \in flook.gap
    <3>1. FList[i + 1] \in FBlocks /\ ~FThere(FList[i + 1])
      BY <1>1, <1>3, <1>7 DEF FThere
    <3> QED BY <1>1, <1>3, <3>1 DEF FSearch
  <2>4. FSearch'
    BY <1>1, <1>3, <1>5, <2>0, <2>1, <2>2, <2>3
  <2> QED BY <1>2, <2>1, <2>4, FLookupKeeps
<1>8. CASE flook' = [flook EXCEPT !.at[w] = i + c] /\ i < Len(FList) /\ fdir.arch[FList[i + 1]] # 0
  <2>1. /\ FLookOK' /\ flook'.at = [flook.at EXCEPT ![w] = i + c] /\ flook'.pc = flook.pc /\ flook'.late = flook.late
        /\ flook'.ever = flook.ever /\ flook'.gap = flook.gap /\ flook'.firstFail = flook.firstFail
    BY <1>1, <1>8 DEF FLookOK
  <2>2. FList[i + 1] \in flook.ever
    <3>1. FList[i + 1] \in FBlocks /\ FThere(FList[i + 1])
      BY <1>1, <1>3, <1>8 DEF FThere
    <3> QED BY <1>1, <1>3, <3>1 DEF FSearch
  <2>3. ASSUME NEW k \in 0..Len(FList) - 1, k >= i, FMine(w, k)
        PROVE  FList[k + 1] \in flook.ever \/ (i + c \in 0..k /\ FMine(w, k))
    <3>1. CASE k = i
      BY <2>2, <3>1
    <3>2. CASE k # i
      <4>1. i + c <= k
        BY <1>1, <1>3, <2>3, <3>2, FMineIs DEF FTyped
      <4> QED BY <1>1, <1>3, <2>3, <4>1
    <3> QED BY <3>1, <3>2
  <2> DEFINE f == flook.firstFail
             n == i + c
  <2>a. f \in 0..Len(FList) /\ f <= flook.firstFail /\ f = flook.firstFail /\ n = i + c
    BY <1>1, <1>3
  <2>b. \A k \in 0..Len(FList) - 1 : k >= i /\ FMine(w, k) =>
                FList[k + 1] \in flook.ever \/ f <= k \/ flook.late \/ (n \in 0..k /\ FMine(w, k))
    BY <2>3
  <2>c. flook'.at = [flook.at EXCEPT ![w] = n]
    BY <2>1
  <2> HIDE DEF f, n
  <2>4. FSearch'
    BY <1>1, <1>3, <1>5, <2>1, <2>a, <2>b, <2>c
  <2> QED BY <1>2, <2>1, <2>4, FLookupKeeps
<1> QED BY <1>1, <1>3, <1>6, <1>7, <1>8 DEF LookupProbes

(* A worker of the lookup that expires keeps the invariant.                 *)
LEMMA FLookupExpiresKeeps ==
  ASSUME FInv, NEW w \in DOMAIN flook.at, LookupExpires(w)
  PROVE  FInv'
<1>1. FTyped /\ FSearch /\ FLookOK /\ Len(FList) \in Nat
  BY FSetupIs DEF FInv, FTyped
<1>2. FAside /\ fdir' = fdir /\ fgc' = fgc /\ flook.pc = "run" /\ flook' = [flook EXCEPT !.at[w] = -1, !.late = TRUE]
  BY DEF LookupExpires, FAside, ffiles
<1>3. FList' = FList /\ FBlocks' = FBlocks /\ FWorkers' = FWorkers /\ (\A x, k : FMine(x, k)' = FMine(x, k)) /\ (\A b : FThere(b)' = FThere(b))
  BY <1>2 DEF FAside, FList, FBlocks, FWorkers, FMine, FThere
<1>4. /\ FLookOK' /\ flook'.at = [flook.at EXCEPT ![w] = -1] /\ flook'.pc = "run" /\ flook'.late
      /\ flook'.ever = flook.ever /\ flook'.gap = flook.gap /\ flook'.firstFail = flook.firstFail
  BY <1>1, <1>2 DEF FLookOK
<1>5. DOMAIN flook'.at = FWorkers /\ \A x \in FWorkers : flook'.at[x] = -1 \/ (flook'.at[x] \in Nat /\ FMine(x, flook'.at[x]))
  BY <1>1, <1>2, <1>4 DEF FSearch
<1>6. FSearch'
  BY <1>1, <1>2, <1>3, <1>4, <1>5 DEF FSearch
<1> QED BY <1>2, <1>4, <1>6, FLookupKeeps

(* The return of a lookup keeps the invariant.                              *)
LEMMA FLookupReturnsKeeps ==
  ASSUME FInv, LookupReturns
  PROVE  FInv'
<1>1. FTyped /\ FSearch /\ FLookOK
  BY DEF FInv, FTyped
<1>2. /\ FAside /\ fdir' = fdir /\ fgc' = fgc /\ flook.pc = "run" /\ \A w \in FWorkers : flook.at[w] = -1
      /\ flook' = [flook EXCEPT !.pc = IF flook.late THEN "error" ELSE "found"]
  BY DEF LookupReturns, FAside, ffiles
<1>3. FList' = FList /\ FBlocks' = FBlocks /\ FWorkers' = FWorkers /\ (\A x, k : FMine(x, k)' = FMine(x, k)) /\ (\A b : FThere(b)' = FThere(b))
  BY <1>2 DEF FAside, FList, FBlocks, FWorkers, FMine, FThere
<1>4. /\ FLookOK' /\ flook'.at = flook.at /\ flook'.pc = (IF flook.late THEN "error" ELSE "found") /\ flook'.late = flook.late
      /\ flook'.ever = flook.ever /\ flook'.gap = flook.gap /\ flook'.firstFail = flook.firstFail
  BY <1>1, <1>2 DEF FLookOK
<1>5. FSearch'
  BY <1>1, <1>2, <1>3, <1>4 DEF FSearch
<1> QED BY <1>2, <1>4, <1>5, FLookupKeeps

----------------------------------------------------------------------------
(* The invariant holds                                                      *)

(* The invariant holds initially.                                           *)
LEMMA FInitHolds ==
  ASSUME PosixInit
  PROVE  FInv
<1>0. /\ fcfg \in PosixSetups /\ ffail = {} /\ fq = {} /\ fwork = <<>> /\ fgc = <<>> /\ flook = FNoLookup /\ fstruck = {}
      /\ fjob = [j \in FJobs |-> [st |-> "new", left |-> 0, turn |-> 0]]
      /\ fino = [i \in DOMAIN fcfg.stored |-> 0..fcfg.nShardPerBlock - 1]
      /\ fdir = [tmp |-> [b \in FBlocks |-> 0], arch |-> [b \in FBlocks |-> FSeen(b)]]
      /\ fmem = [j \in FJobs |-> [k \in DOMAIN FIos(j) |-> "old"]]
  BY DEF PosixInit
<1>1. fcfg.stored \in Seq(FBlocks) /\ Len(fcfg.stored) \in Nat /\ DOMAIN fcfg.stored = 1..Len(fcfg.stored)
  BY <1>0, FSetupIs
<1>2. /\ fino \in Seq(SUBSET (0..fcfg.nShardPerBlock - 1)) /\ Len(fino) = Len(fcfg.stored)
      /\ \A x \in 1..Len(fino) : FWhole(x)
  BY <1>0, <1>1 DEF FWhole
<1>3. \A b \in FBlocks : FSeen(b) \in 0..Len(fino)
  <2> SUFFICES ASSUME NEW b \in FBlocks  PROVE FSeen(b) \in 0..Len(fino)
    OBVIOUS
  <2>1. CASE b \in Range(fcfg.stored)
    <3>1. \E i \in DOMAIN fcfg.stored : fcfg.stored[i] = b
      BY <2>1 DEF Range
    <3>2. FSeen(b) \in DOMAIN fcfg.stored
      BY <2>1, <3>1 DEF FSeen
    <3> QED BY <1>1, <1>2, <3>2
  <2>2. CASE b \notin Range(fcfg.stored)
    BY <1>1, <1>2, <2>2 DEF FSeen
  <2> QED BY <2>1, <2>2
<1>4. /\ fdir = [tmp |-> fdir.tmp, arch |-> fdir.arch]
      /\ fdir.tmp = [b \in FBlocks |-> 0] /\ fdir.arch = [b \in FBlocks |-> FSeen(b)]
  BY <1>0
<1>5. /\ fdir.tmp \in [FBlocks -> 0..Len(fino)] /\ fdir.arch \in [FBlocks -> 0..Len(fino)]
      /\ \A b \in FBlocks : fdir.tmp[b] = 0 /\ fdir.arch[b] \in 0..Len(fino)
  BY <1>1, <1>2, <1>3, <1>4
<1>6. FLookOK /\ FSearch
  BY <1>0 DEF FLookOK, FNoLookup, FSearch
<1>7. FTyped
  BY <1>0, <1>2, <1>4, <1>5, <1>6 DEF FTyped, FMemory, FDirOK
<1>8. \A j \in FJobs : fjob[j].st = "new" /\ FJobOK(fjob[j])
  BY <1>0 DEF FJobOK
<1>9. DOMAIN fwork = {} /\ fq = {}
  BY <1>0
<1>10. IsFiniteSet(fq) /\ IsFiniteSet(DOMAIN fwork)
  BY <1>9, FS_EmptySet
<1>11. FJobsOK /\ FWaiting /\ FBusyOK /\ FAway /\ FOrder
  BY <1>0, <1>8, <1>9, <1>10 DEF FJobsOK, FWaiting, FBusyOK, FAway, FOrder
<1>12. FStates
  BY <1>8, <1>9 DEF FStates, FIdle, FCount, FUnderWay
<1>13. FQueues
  BY <1>11, <1>12 DEF FQueues
<1>14. FSteps
  BY <1>9 DEF FSteps
<1>15. FOneByOne
  BY <1>2, <1>5, <1>8, <1>9 DEF FOneByOne
<1>16. FLoads
  BY <1>8, <1>9 DEF FLoads, FLoading
<1>17. FDumps
  <2>1. \A b \in FBlocks : FFull(fdir.tmp[b]) /\ FFull(fdir.arch[b])
    BY <1>2, <1>5 DEF FFull
  <2> QED BY <1>0, <1>8, <1>9, <2>1 DEF FDumps
<1> QED BY <1>6, <1>7, <1>13, <1>14, <1>15, <1>16, <1>17 DEF FInv

(* The invariant stays where nothing changes.                               *)
LEMMA FStayKeeps ==
  ASSUME FInv, UNCHANGED fvars
  PROVE  FInv'
<1>1. /\ fcfg' = fcfg /\ fjob' = fjob /\ ffail' = ffail /\ fq' = fq /\ fwork' = fwork /\ fino' = fino
      /\ fdir' = fdir /\ fmem' = fmem /\ fgc' = fgc /\ flook' = flook /\ fstruck' = fstruck
  BY DEF fvars
<1>2. FAside
  BY <1>1 DEF FAside
<1>3. FSearch' /\ FLookOK'
  BY <1>1, FSearchStays DEF FInv, FTyped, FLookOK
<1> QED BY <1>1, <1>2, <1>3, FLookupKeeps

(* Every step keeps the invariant.                                          *)
LEMMA FNextKeeps ==
  ASSUME FInv, [PosixNext]_fvars
  PROVE  FInv'
<1>1. CASE UNCHANGED fvars
  BY <1>1, FStayKeeps
<1>2. ASSUME NEW j \in FJobs, Submit(j)  PROVE FInv'
  BY <1>2, FSubmitKeeps
<1>3. ASSUME NEW j \in FJobs, Wait(j)  PROVE FInv'
  BY <1>3, FWaitKeeps
<1>4. ASSUME NEW j \in FJobs, WaitExpires(j)  PROVE FInv'
  BY <1>4, FExpiresKeeps
<1>5. ASSUME NEW io \in fq, TakeIo(io)  PROVE FInv'
  BY <1>5, FTakeKeeps
<1>6. ASSUME NEW io \in DOMAIN fwork,
             OpenFile(io) \/ WriteShard(io) \/ ReadShard(io) \/ CommitFile(io) \/ RemoveTmp(io) \/ EndIo(io) \/ Abandon(io)
      PROVE  FInv'
  BY <1>6, FOpenKeeps, FWriteKeeps, FReadKeeps, FCommitKeeps, FRemoveKeeps, FEndKeeps, FAbandonKeeps
<1>7. ASSUME NEW p, Crash(p)  PROVE FInv'
  BY <1>7, FCrashKeeps
<1>8. CASE LookupStarts
  BY <1>8, FStartsKeeps
<1>9. CASE LookupReturns
  BY <1>9, FLookupReturnsKeeps
<1>10. CASE GcScans \/ GcRemoves
  BY <1>10, FGcKeeps
<1>11. CASE PosixDone
  BY <1>11, FStayKeeps DEF PosixDone
<1>12. ASSUME NEW w \in DOMAIN flook.at, LookupProbes(w) \/ LookupExpires(w)  PROVE FInv'
  BY <1>12, FProbesKeeps, FLookupExpiresKeeps
<1> QED BY <1>1, <1>2, <1>3, <1>4, <1>5, <1>6, <1>7, <1>8, <1>9, <1>10, <1>11, <1>12 DEF PosixNext

(* The invariant is as strong as the property.                              *)
LEMMA FInvIsRight ==
  ASSUME FInv
  PROVE  PosixRight
<1>1. FTyped /\ FQueues /\ FOneByOne /\ FLoads /\ FDumps /\ FSearch
  BY DEF FInv
<1>2. PosixLoadRight
  BY <1>1 DEF PosixLoadRight, FLoads, FLoading, FRead
<1>3. PosixDumpKept
  <2> SUFFICES ASSUME FClean  PROVE PosixDumpKept
    BY DEF PosixDumpKept, FClean
  <2>1. ASSUME NEW j \in FJobs, fjob[j].st = "ok", FKind(j) = "dump", NEW k \in DOMAIN FIos(j), FLast(<<j, k>>)
        PROVE  fdir.arch[FBlock(<<j, k>>)] # 0
    <3>1. FKept(j, k)
      BY <1>1, <2>1 DEF FDumps
    <3>2. FIdle(j)
      BY <1>1, <2>1 DEF FQueues, FStates
    <3>3. <<j, k>>[1] = j
      OBVIOUS
    <3> QED BY <3>1, <3>2, <3>3 DEF FKept, FIdle, FThere
  <2>2. ASSUME \A j \in FJobs : FKind(j) = "dump" => fjob[j].st \notin {"wait", "drain"}, NEW b \in FPresent(fdir), FOneWriter
        PROVE  fino[fdir.arch[b]] = 0..fcfg.nShardPerBlock - 1
    <3>1. b \in FBlocks /\ fdir.arch[b] # 0
      BY DEF FPresent
    <3>2. CASE fcfg.nShardPerBlock = 1
      <4>1. ~FStuck
        BY DEF FClean, FStuck, FStruck
      <4>2. \A x : ~FFilling(x)
        <5> SUFFICES ASSUME NEW io \in DOMAIN fwork, FKind(io[1]) = "dump"  PROVE FALSE
          BY DEF FFilling
        <5>1. io[1] \in FJobs /\ ~FIdle(io[1])
          BY <1>1 DEF FQueues, FBusyOK, FIoOK, FIdle
        <5>2. FUnderWay(io[1])
          BY <1>1, <4>1, <5>1 DEF FQueues, FStates
        <5> QED BY <2>2, <5>1, <5>2 DEF FUnderWay
      <4>3. FFull(fdir.arch[b])
        BY <1>1, <3>1, <3>2 DEF FDumps
      <4> QED BY <3>1, <4>2, <4>3 DEF FFull, FWhole
    <3>3. CASE fcfg.nShardPerBlock # 1
      <4>1. FSeries
        BY <2>2, <3>3 DEF FSeries
      <4> QED BY <1>1, <3>1, <4>1 DEF FOneByOne, FWhole
    <3> QED BY <3>2, <3>3
  <2> QED BY <2>1, <2>2 DEF PosixDumpKept
<1>4. PosixLookupRight
  <2> SUFFICES ASSUME flook.pc = "found"
               PROVE  /\ \A i \in 1..flook.firstFail : FList[i] \in flook.ever
                      /\ flook.firstFail < Len(FList) => FList[flook.firstFail + 1] \in flook.gap
    BY DEF PosixLookupRight
  <2>1. Len(FList) \in Nat /\ flook.firstFail \in 0..Len(FList)
    BY <1>1, FSetupIs DEF FSearch, FTyped
  <2>2. ASSUME NEW i \in 1..flook.firstFail  PROVE FList[i] \in flook.ever
    <3>1. i - 1 \in 0..Len(FList) - 1 /\ ~(flook.firstFail <= i - 1) /\ (i - 1) + 1 = i
      BY <2>1
    <3>2. ~flook.late /\ \A w \in FWorkers : flook.at[w] = -1
      BY <1>1 DEF FSearch
    <3>3. PICK k \in 0..Len(FList) - 1 : k = i - 1
      BY <3>1
    <3>4. FList[k + 1] \in flook.ever
      BY <1>1, <3>1, <3>2, <3>3 DEF FSearch
    <3> QED BY <3>1, <3>3, <3>4
  <2> QED BY <1>1, <2>2 DEF FSearch
<1>5. PosixQuiet
  BY <1>1 DEF PosixQuiet, FQueues, FStates, FBusyOK, FIoOK, FIdle, FUnderWay, FStuck
<1> QED BY <1>2, <1>3, <1>4, <1>5 DEF PosixRight

(* A load of the posix store that reports success has read whole blocks     *)
(* (H2S, S2H and CommitFile, where FOneWriter holds); without faults dumps  *)
(* that report success are kept; what LookupOnPrefix finds was there and    *)
(* the next block was not; after Wait no worker uses the memory of the task *)
(* unless the monitor abandoned one.  For any tasks, processes, number of   *)
(* workers, crashes and failures.                                           *)
THEOREM PosixHolds == PosixSpec => []PosixRight
<1>1. PosixInit => FInv
  BY FInitHolds
<1>2. FInv /\ [PosixNext]_fvars => FInv'
  BY FNextKeeps
<1>3. FInv => PosixRight
  BY FInvIsRight
<1> QED BY <1>1, <1>2, <1>3, PTL DEF PosixSpec

----------------------------------------------------------------------------
(* SGLang: the invariant                                                    *)

YPoolOK == DOMAIN ypool = YRanks /\ \A r \in YRanks : DOMAIN ypool[r] = 1..ycfg.pool
YKeysOK(s) == s \in Seq(Range(s)) /\ Len(s) <= ycfg.pool /\ \A i, j \in DOMAIN s : s[i] = s[j] => i = j
YPagesOK(s) == s \in [1..Len(s) -> 1..ycfg.pool] /\ \A i, j \in DOMAIN s : i < j => s[i] < s[j]

(* The operation under way, and what its pages are.                         *)
YOpOK ==
  /\ yop = [kind |-> yop.kind, keys |-> yop.keys, pages |-> yop.pages]
  /\ yop.kind \in {"none", "set", "exists", "get"}
  /\ yop.kind # "none" => YKeysOK(yop.keys)
  /\ yop.kind = "set" => /\ Range(yop.keys) \subseteq DOMAIN ytree
                         /\ yop.pages = [i \in DOMAIN yop.keys |-> ytree[yop.keys[i]]]
  /\ yop.kind \in {"exists", "get"} => ytree = <<>>
  /\ yop.kind = "get" => YPagesOK(yop.pages) /\ Len(yop.pages) = Len(yop.keys)
YTyped == ycfg \in SglangSetups /\ YPoolOK /\ YOpOK /\ DOMAIN yans = YRanks

(* What pages and blocks hold.                                              *)
YBlock(k, r) == <<k, YSuffix(r)>>
YPageIs(r, p, k) == ypool[r][p] = YPieces(r, k)
YTreeOK == \A k \in DOMAIN ytree : /\ ytree[k] \in 1..ycfg.pool
                                   /\ \A r \in YRanks : YPageIs(r, ytree[k], k)
YNativeOK == \A r \in YRanks : \A k : YBlock(k, r) \in DOMAIN ynative => ynative[YBlock(k, r)] = YPieces(r, k)

(* What an answer means.                                                    *)
YFetched(r) == \A i \in DOMAIN yop.keys : YPageIs(r, yop.pages[i], yop.keys[i])
YDumped(r) == \A i \in DOMAIN yop.keys : YBlock(yop.keys[i], r) \in DOMAIN ynative
YAnswers == \A r \in YRanks :
  /\ yop.kind = "none" => yans[r] = -1
  /\ yop.kind = "set" => ylost \/ YSkips(r) \/ yans[r] = -1 \/ YDumped(r)
  /\ yop.kind = "exists" => yans[r] = -1 \/ yans[r] \in 0..Len(yop.keys)
  /\ yop.kind = "get" => yans[r] \in {-1, 0} \/ (yans[r] = Len(yop.keys) /\ YFetched(r))
YBackedUp == ylost \/ \A k \in yback, r \in YRanks : YBlock(k, r) \in DOMAIN ynative
YFound == yop.kind \in {"exists", "get"} /\ ~ylost /\ Range(yop.keys) \subseteq yback =>
            \A r \in YRanks : yans[r] \in {-1, Len(yop.keys)}
YInv == YTyped /\ YTreeOK /\ YNativeOK /\ YAnswers /\ YBackedUp /\ YFound

----------------------------------------------------------------------------
(* SGLang: least and greatest numbers                                       *)

(* A set of numbers has a least one, and a greatest one if it is bounded.   *)
LEMMA LeastNat ==
  ASSUME NEW S, S \subseteq Nat, S # {}
  PROVE  \E x \in S : \A y \in S : x <= y
<1> DEFINE R == {p \in Nat \X Nat : p[1] < p[2]}
<1>1. IsWellFoundedOn(OpToRel(<, Nat), Nat)
  BY NatLessThanWellFounded
<1>2. OpToRel(<, Nat) = R
  BY DEF OpToRel
<1>3. IsWellFoundedOn(R, Nat)
  BY <1>1, <1>2
<1> HIDE DEF R
<1>4. PICK x \in S : \A y \in S : ~(<<y, x>> \in R)
  BY <1>3, WFMin
<1>5. ASSUME NEW y \in S  PROVE x <= y
  <2>1. x \in Nat /\ y \in Nat /\ <<y, x>> \notin R
    BY <1>4
  <2>2. y < x => <<y, x>> \in R
    BY <2>1 DEF R
  <2> QED BY <2>1, <2>2
<1> QED BY <1>5

LEMMA GreatestNat ==
  ASSUME NEW S, S \subseteq Nat, S # {}, NEW b \in Nat, \A x \in S : x <= b
  PROVE  \E x \in S : \A y \in S : x >= y
<1> DEFINE T == {n \in Nat : \E x \in S : n = b - x}
<1>1. T \subseteq Nat /\ T # {}
  <2>1. PICK x \in S : x \in Nat /\ x <= b
    OBVIOUS
  <2>2. b - x \in T
    BY <2>1
  <2> QED BY <2>2
<1>2. \A x \in S : b - x \in T
  OBVIOUS
<1>3. \A n \in T : \E x \in S : n = b - x
  OBVIOUS
<1> HIDE DEF T
<1>4. PICK n \in T : \A m \in T : n <= m
  BY <1>1, LeastNat
<1>5. PICK x \in S : n = b - x
  BY <1>3
<1>6. ASSUME NEW y \in S  PROVE x >= y
  <2>1. b - y \in T /\ n <= b - y /\ y \in Nat /\ x \in Nat
    BY <1>2, <1>4
  <2> QED BY <1>5, <2>1
<1> QED BY <1>6

----------------------------------------------------------------------------
(* SGLang: sizes, keys, addresses                                           *)

(* A page is one piece or two, and they fill a block exactly.               *)
LEMMA YSetupIs ==
  ASSUME ycfg \in SglangSetups
  PROVE  /\ YPerPage = 1 \/ YPerPage = 2
         /\ \A x : YWhole(x) = x
         /\ ycfg.pool \in Nat /\ ycfg.ranks \in Nat /\ 0 \in YRanks
         /\ \A s \in ycfg.prefixes : YKeysOK(s)
<1>1. SglangSetup(ycfg)
  BY SglangAssumption
<1>2. ycfg.mla \in BOOLEAN /\ ycfg.pageBytes \in Nat /\ (ycfg.mla \/ ycfg.pageBytes % 2 = 0)
  BY <1>1 DEF SglangSetup
<1>3. YPerPage = 1 \/ YPerPage = 2
  BY DEF YPerPage
<1>4. YTensorSize * YPerPage = YPageBytes /\ YBlockSize = YPageBytes
  <2>1. CASE ycfg.mla
    BY <1>2, <2>1 DEF YTensorSize, YPerPage, YPageBytes, YBlockSize
  <2>2. CASE ~ycfg.mla
    <3>1. (ycfg.pageBytes \div 2) * 2 = ycfg.pageBytes
      BY <1>2, <2>2
    <3> QED BY <3>1, <2>2 DEF YTensorSize, YPerPage, YPageBytes, YBlockSize
  <2> QED BY <2>1, <2>2
<1>5. \A x : YWhole(x) = x
  BY <1>4 DEF YWhole
<1>6. ycfg.pool \in Nat /\ ycfg.ranks \in Nat /\ 0 \in YRanks
  BY <1>1 DEF SglangSetup, YRanks
<1>7. \A s \in ycfg.prefixes : YKeysOK(s)
  BY <1>1 DEF SglangSetup, YKeysOK
<1> QED BY <1>3, <1>5, <1>6, <1>7

LEMMA YPieceFn ==
  ASSUME NEW r, NEW k
  PROVE  /\ YPieces(r, k) = [j \in 1..YPerPage |-> YPieces(r, k)[j]]
         /\ YNoPage = [j \in 1..YPerPage |-> YNoPage[j]]
<1>1. \A x : <<x>> = [j \in 1..1 |-> <<x>>[j]]
  OBVIOUS
<1>2. \A x, y : <<x, y>> = [j \in 1..2 |-> <<x, y>>[j]]
  OBVIOUS
<1>3. CASE ycfg.mla
  <2>1. YPerPage = 1 /\ YPieces(r, k) = <<<<k, "kv">>>> /\ YNoPage = <<YGarbage>>
    BY <1>3 DEF YPieces, YNoPage, YPerPage
  <2> QED BY <1>1, <2>1
<1>4. CASE ~ycfg.mla
  <2>1. YPerPage = 2 /\ YPieces(r, k) = <<<<k, "k", r>>, <<k, "v", r>>>> /\ YNoPage = <<YGarbage, YGarbage>>
    BY <1>4 DEF YPieces, YNoPage, YPerPage
  <2> QED BY <1>2, <2>1
<1> QED BY <1>3, <1>4

(* Ranks that share a key share its pieces.                                 *)
LEMMA YSuffixes ==
  ASSUME NEW r, NEW q, YSuffix(r) = YSuffix(q), NEW k
  PROVE  YPieces(r, k) = YPieces(q, k)
BY DEF YSuffix, YPieces

LEMMA YBlocks ==
  ASSUME NEW r, NEW q, NEW k, NEW l, YBlock(k, r) = YBlock(l, q)
  PROVE  k = l /\ YPieces(r, k) = YPieces(q, l)
<1>1. k = l /\ YSuffix(r) = YSuffix(q)
  BY DEF YBlock
<1> QED BY <1>1, YSuffixes

(* A sequence of n elements.                                                *)
YLong(s, n) == n \in Nat /\ DOMAIN s = 1..n /\ Len(s) = n
YApart(s) == \A i, j \in DOMAIN s : s[i] = s[j] => i = j

LEMMA YLongIs ==
  ASSUME NEW n \in Nat, NEW T, NEW s \in [1..n -> T]
  PROVE  YLong(s, n)
<1>1. s \in Seq(T)
  OBVIOUS
<1>2. Len(s) \in Nat /\ DOMAIN s = 1..Len(s)
  BY <1>1
<1>3. DOMAIN s = 1..n
  OBVIOUS
<1>4. Len(s) = n
  BY <1>2, <1>3
<1> QED BY <1>3, <1>4 DEF YLong

LEMMA YKeysAre ==
  ASSUME NEW s, YKeysOK(s)
  PROVE  YLong(s, Len(s)) /\ YApart(s) /\ Len(s) <= ycfg.pool
BY DEF YKeysOK, YLong, YApart

LEMMA YPhysicalIs ==
  ASSUME NEW s, YKeysOK(s), NEW r
  PROVE  /\ YLong(YPhysical(r, s), Len(s)) /\ YApart(YPhysical(r, s))
         /\ \A i \in DOMAIN s : YPhysical(r, s)[i] = YBlock(s[i], r)
<1>1. YLong(s, Len(s)) /\ YApart(s)
  BY YKeysAre
<1>2. DOMAIN s = 1..Len(s) /\ Len(s) \in Nat
  BY <1>1 DEF YLong
<1>3. YPhysical(r, s) = [i \in 1..Len(s) |-> YBlock(s[i], r)]
  BY <1>2 DEF YPhysical, YBlock
<1> DEFINE T == {YBlock(s[i], r) : i \in 1..Len(s)}
<1>4. YPhysical(r, s) \in [1..Len(s) -> T]
  BY <1>3
<1> HIDE DEF T
<1>5. YLong(YPhysical(r, s), Len(s))
  BY <1>2, <1>4, YLongIs
<1>6. YApart(YPhysical(r, s))
  <2>1. SUFFICES ASSUME NEW i \in 1..Len(s), NEW j \in 1..Len(s), YPhysical(r, s)[i] = YPhysical(r, s)[j]
                 PROVE  i = j
    BY <1>3 DEF YApart
  <2>2. YBlock(s[i], r) = YBlock(s[j], r)
    BY <2>1, <1>3
  <2>3. s[i] = s[j]
    BY <2>2 DEF YBlock
  <2> QED BY <2>3, <1>1, <1>2 DEF YApart
<1> QED BY <1>2, <1>3, <1>5, <1>6

(* _generate_task puts the pieces of a page in a row.                       *)
YRowsOK(rows, pages) == rows = [i \in DOMAIN pages |-> [j \in 1..YPerPage |-> <<pages[i], j>>]]

LEMMA YRowItem ==
  ASSUME YPerPage = 1 \/ YPerPage = 2, NEW i \in Nat, i >= 1, NEW j \in 1..YPerPage
  PROVE  YRow((i - 1) * YPerPage + j) = i /\ YItem((i - 1) * YPerPage + j) = j
BY DEF YRow, YItem

LEMMA YRowsAre ==
  ASSUME YPerPage = 1 \/ YPerPage = 2, NEW pages, NEW n, YLong(pages, n)
  PROVE  YRowsOK(YRows(pages), pages)
<1>1. n \in Nat /\ DOMAIN pages = 1..n /\ Len(pages) = n
  BY DEF YLong
<1>2. ASSUME NEW i \in 1..n, NEW j \in 1..YPerPage
      PROVE  YPointers(pages)[(i - 1) * YPerPage + j] = <<pages[i], j>>
  <2>1. (i - 1) * YPerPage + j \in 1..n * YPerPage
    <3>1. CASE YPerPage = 1
      BY <1>1, <3>1
    <3>2. CASE YPerPage = 2
      BY <1>1, <3>2
    <3> QED BY <3>1, <3>2
  <2>2. YRow((i - 1) * YPerPage + j) = i /\ YItem((i - 1) * YPerPage + j) = j
    BY <1>1, YRowItem
  <2> QED BY <1>1, <2>1, <2>2 DEF YPointers
<1> QED BY <1>1, <1>2 DEF YRowsOK, YRows

(* The k-th of a range.                                                     *)
LEMMA YNthIs ==
  ASSUME NEW S, NEW a \in Int, NEW c \in Nat, S = a + 1..a + c
  PROVE  Cardinality(S) = c /\ \A j \in 1..c : YNth(S, j) = a + j
<1>1. ASSUME NEW n \in Int, n >= a, n <= a + c
      PROVE  Cardinality({m \in S : m <= n}) = n - a
  <2> DEFINE M == {m \in S : m <= n}
  <2>1. M = a + 1..n
    BY <1>1
  <2>2. Cardinality(a + 1..n) = IF a + 1 > n THEN 0 ELSE n - (a + 1) + 1
    BY FS_Interval
  <2> HIDE DEF M
  <2>3. Cardinality(M) = n - a
    BY <1>1, <2>1, <2>2
  <2> QED BY <2>3 DEF M
<1>2. Cardinality(S) = c
  <2>1. Cardinality(a + 1..a + c) = IF a + 1 > a + c THEN 0 ELSE (a + c) - (a + 1) + 1
    BY FS_Interval
  <2> QED BY <2>1
<1>3. ASSUME NEW j \in 1..c  PROVE YNth(S, j) = a + j
  <2>1. a + j \in S /\ Cardinality({m \in S : m <= a + j}) = j
    BY <1>1
  <2>2. ASSUME NEW n \in S, Cardinality({m \in S : m <= n}) = j  PROVE n = a + j
    BY <2>2, <1>1
  <2> QED BY <2>1, <2>2 DEF YNth
<1> QED BY <1>2, <1>3

(* UcmPcStoreV1 groups the addresses by block, which is how they came.      *)
LEMMA YGroupedIs ==
  ASSUME YPerPage = 1 \/ YPerPage = 2, NEW ids, NEW n, YLong(ids, n), YApart(ids),
         NEW pages, YLong(pages, n), NEW rows, YRowsOK(rows, pages)
  PROVE  YGrouped(ids, rows) = rows
<1> DEFINE P == YPerPage
<1>1. n \in Nat /\ DOMAIN ids = 1..n /\ Len(ids) = n /\ DOMAIN pages = 1..n
  BY DEF YLong
<1>2. P \in Nat
  OBVIOUS
<1>3. ASSUME NEW i \in 1..n
      PROVE  /\ {m \in DOMAIN YFlat(ids, rows) : YFlat(ids, rows)[m][1] = ids[i]} = (i - 1) * P + 1..(i - 1) * P + P
             /\ \A j \in 1..P : YFlat(ids, rows)[(i - 1) * P + j][2] = rows[i][j]
  <2>1. ASSUME NEW m \in 1..n * P
        PROVE  YRow(m) \in 1..n /\ (YRow(m) = i <=> m \in (i - 1) * P + 1..(i - 1) * P + P)
    <3>1. CASE P = 1
      BY <1>1, <2>1, <3>1 DEF YRow
    <3>2. CASE P = 2
      BY <1>1, <2>1, <3>2 DEF YRow
    <3> QED BY <3>1, <3>2
  <2>2. ASSUME NEW m \in (i - 1) * P + 1..(i - 1) * P + P  PROVE m \in 1..n * P
    <3>1. CASE P = 1
      BY <1>1, <2>2, <3>1
    <3>2. CASE P = 2
      BY <1>1, <2>2, <3>2
    <3> QED BY <3>1, <3>2
  <2>3. DOMAIN YFlat(ids, rows) = 1..n * P
    BY <1>1 DEF YFlat
  <2>4. \A m \in 1..n * P : YFlat(ids, rows)[m] = <<ids[YRow(m)], rows[YRow(m)][YItem(m)]>>
    BY <1>1 DEF YFlat
  <2>5. ASSUME NEW m \in 1..n * P
        PROVE  YFlat(ids, rows)[m][1] = ids[i] <=> m \in (i - 1) * P + 1..(i - 1) * P + P
    <3>1. YFlat(ids, rows)[m][1] = ids[YRow(m)]
      BY <2>4
    <3>2. ids[YRow(m)] = ids[i] <=> YRow(m) = i
      BY <1>1, <2>1 DEF YApart
    <3> QED BY <3>1, <3>2, <2>1
  <2>6. ASSUME NEW j \in 1..P  PROVE YFlat(ids, rows)[(i - 1) * P + j][2] = rows[i][j]
    <3>1. YRow((i - 1) * P + j) = i /\ YItem((i - 1) * P + j) = j
      BY <1>1, YRowItem
    <3>2. (i - 1) * P + j \in (i - 1) * P + 1..(i - 1) * P + P
      <4>1. (i - 1) * P \in Int
        BY <1>1, <1>2
      <4> QED BY <4>1, <1>2
    <3>3. (i - 1) * P + j \in 1..n * P
      BY <3>2, <2>2
    <3> QED BY <3>1, <3>3, <2>4
  <2> QED BY <2>2, <2>3, <2>5, <2>6
<1>4. rows = [i \in 1..n |-> [j \in 1..P |-> rows[i][j]]]
  BY <1>1 DEF YRowsOK
<1>5. ASSUME NEW i \in 1..n, NEW mine,
             mine = {m \in DOMAIN YFlat(ids, rows) : YFlat(ids, rows)[m][1] = ids[i]}
      PROVE  [j \in 1..Cardinality(mine) |-> YFlat(ids, rows)[YNth(mine, j)][2]] = [j \in 1..P |-> rows[i][j]]
  <2> DEFINE a == (i - 1) * P
  <2>1. mine = a + 1..a + P
    BY <1>3, <1>5
  <2>2. a \in Int
    BY <1>1, <1>2
  <2>3. \A j \in 1..P : YFlat(ids, rows)[a + j][2] = rows[i][j]
    BY <1>3
  <2> HIDE DEF a, P
  <2>4. Cardinality(mine) = P /\ \A j \in 1..P : YNth(mine, j) = a + j
    BY <1>2, <2>1, <2>2, YNthIs
  <2> QED BY <2>3, <2>4
<1>6. YGrouped(ids, rows) = [i \in 1..n |-> [j \in 1..P |-> rows[i][j]]]
  <2> HIDE DEF P
  <2> QED BY <1>1, <1>5 DEF YGrouped
<1> QED BY <1>4, <1>6

LEMMA YTransferIs ==
  ASSUME ycfg \in SglangSetups, NEW s, YKeysOK(s), NEW r, NEW pages, YLong(pages, Len(s))
  PROVE  YRowsOK(YTransfer(YPhysical(r, s), YRows(pages)), pages)
<1>1. YPerPage = 1 \/ YPerPage = 2
  BY YSetupIs
<1>2. YLong(YPhysical(r, s), Len(s)) /\ YApart(YPhysical(r, s))
  BY YPhysicalIs
<1> DEFINE rows == YRows(pages)
           ids == YPhysical(r, s)
           n == Len(s)
<1>3. YRowsOK(rows, pages)
  BY <1>1, YRowsAre
<1> HIDE DEF rows, ids, n
<1>4. YGrouped(ids, rows) = rows
  BY <1>1, <1>2, <1>3, YGroupedIs DEF ids, n
<1>5. YRowsOK(YTransfer(ids, rows), pages)
  BY <1>3, <1>4 DEF YTransfer
<1> QED BY <1>5 DEF ids, rows

(* The least answer.                                                        *)
LEMMA YAgreedIs ==
  ASSUME ycfg \in SglangSetups, DOMAIN yans = YRanks, NEW m \in Nat, \A r \in YRanks : yans[r] \in 0..m
  PROVE  YAgreed \in 0..m /\ \A r \in YRanks : YAgreed <= yans[r]
<1> DEFINE S == Range(yans)
<1>1. \A x : x \in S <=> \E r \in YRanks : x = yans[r]
  BY DEF Range
<1>2. 0 \in YRanks
  BY YSetupIs
<1> HIDE DEF S
<1>3. S \subseteq Nat /\ S # {} /\ \A x \in S : x \in 0..m
  BY <1>1, <1>2
<1>4. PICK x \in S : \A y \in S : x <= y
  BY <1>3, LeastNat
<1>5. Min(S) \in S /\ \A y \in S : Min(S) <= y
  BY <1>4 DEF Min
<1>6. YAgreed = Min(S)
  BY DEF YAgreed, S
<1> QED BY <1>1, <1>3, <1>5, <1>6

(* If all blocks are stored, all are found.                                 *)
LEMMA YOnPrefixIs ==
  ASSUME NEW n \in Nat, NEW ids, Len(ids) = n
  PROVE  /\ YOnPrefix(ids) \in 0..n
         /\ (\A i \in 1..n : ids[i] \in DOMAIN ynative) => YOnPrefix(ids) = n
<1> DEFINE S == {m \in 0..Len(ids) : \A i \in 1..m : ids[i] \in DOMAIN ynative}
<1>1. 0 \in S
  OBVIOUS
<1>2. S \subseteq 0..n
  OBVIOUS
<1>3. (\A i \in 1..n : ids[i] \in DOMAIN ynative) => n \in S
  OBVIOUS
<1>4. YOnPrefix(ids) = Max(S)
  BY DEF YOnPrefix
<1> HIDE DEF S
<1>5. S \subseteq Nat /\ S # {} /\ \A x \in S : x <= n
  BY <1>1, <1>2
<1>6. PICK x \in S : \A y \in S : x >= y
  BY <1>5, GreatestNat
<1>7. Max(S) \in S /\ \A y \in S : Max(S) >= y
  BY <1>6 DEF Max
<1>8. Max(S) \in 0..n
  BY <1>2, <1>7
<1>9. ASSUME n \in S  PROVE Max(S) = n
  <2>1. Max(S) >= n
    BY <1>7, <1>9
  <2> QED BY <1>8, <2>1
<1> QED BY <1>3, <1>4, <1>8, <1>9

(* Pages that are taken are free ones, in order.                            *)
LEMMA YTakeIs ==
  ASSUME ycfg.pool \in Nat, ytree = <<>>, NEW n \in Nat, n <= ycfg.pool
  PROVE  YPagesOK(YTake(n)) /\ Len(YTake(n)) = n
<1>1. YFree = 1..ycfg.pool
  <2>1. DOMAIN ytree = {}
    OBVIOUS
  <2>2. Range(ytree) = {}
    BY <2>1 DEF Range
  <2> QED BY <2>2 DEF YFree
<1>2. \E s \in [1..n -> YFree] : \A i, j \in 1..n : i < j => s[i] < s[j]
  <2> DEFINE w == [i \in 1..n |-> i]
  <2>1. w \in [1..n -> YFree] /\ \A i \in 1..n : w[i] = i
    BY <1>1
  <2> HIDE DEF w
  <2> QED BY <2>1
<1>3. YTake(n) \in [1..n -> YFree] /\ \A i, j \in 1..n : i < j => YTake(n)[i] < YTake(n)[j]
  BY <1>2 DEF YTake
<1>4. YLong(YTake(n), n)
  BY <1>3, YLongIs
<1> QED BY <1>1, <1>3, <1>4 DEF YPagesOK, YLong

LEMMA YPagesAre ==
  ASSUME NEW s, YPagesOK(s), Len(s) \in Nat
  PROVE  YLong(s, Len(s)) /\ YApart(s) /\ \A i \in DOMAIN s : s[i] \in 1..ycfg.pool
<1>1. s \in [1..Len(s) -> 1..ycfg.pool] /\ \A i, j \in DOMAIN s : i < j => s[i] < s[j]
  BY DEF YPagesOK
<1>2. ASSUME NEW i \in DOMAIN s, NEW j \in DOMAIN s, s[i] = s[j]  PROVE i = j
  <2>1. i \in Int /\ j \in Int /\ s[i] \in Int /\ s[j] \in Int
    BY <1>1
  <2>2. (i < j => s[i] < s[j]) /\ (j < i => s[j] < s[i])
    BY <1>1
  <2> QED BY <1>2, <2>1, <2>2
<1> QED BY <1>1, <1>2 DEF YLong, YApart

(* A prefix of different keys has different keys.                           *)
LEMMA YPrefixIs ==
  ASSUME ycfg.pool \in Nat, NEW s, YKeysOK(s), NEW n \in 0..Len(s)
  PROVE  /\ YKeysOK(SubSeq(s, 1, n)) /\ Len(SubSeq(s, 1, n)) = n
         /\ \A i \in 1..n : SubSeq(s, 1, n)[i] = s[i]
<1>1. Len(s) \in Nat /\ DOMAIN s = 1..Len(s) /\ YApart(s) /\ Len(s) <= ycfg.pool
  BY YKeysAre DEF YLong
<1>2. s \in Seq(Range(s))
  BY DEF YKeysOK
<1> DEFINE t == SubSeq(s, 1, n)
<1>3. t = [i \in 1..n |-> s[i]] /\ Len(t) = n
  BY <1>1, <1>2
<1> HIDE DEF t
<1>4. DOMAIN t = 1..n /\ \A i \in 1..n : t[i] = s[i]
  BY <1>3
<1>5. \A i \in 1..n : t[i] \in Range(t)
  BY <1>4 DEF Range
<1>6. t \in [1..n -> Range(t)]
  BY <1>3, <1>4, <1>5
<1>7. t \in Seq(Range(t))
  <2> n \in Nat
    BY <1>1
  <2> QED BY <1>6
<1>8. \A i, j \in DOMAIN t : t[i] = t[j] => i = j
  BY <1>1, <1>4 DEF YApart
<1>9. YKeysOK(t) /\ Len(t) = n
  BY <1>1, <1>3, <1>7, <1>8 DEF YKeysOK
<1> QED BY <1>4, <1>9 DEF t

(* A dump stores what the pages hold.                                       *)
LEMMA YAfterDumpIs ==
  ASSUME ycfg \in SglangSetups, NEW s, YKeysOK(s), NEW r, NEW pages, YLong(pages, Len(s)),
         NEW rows, YRowsOK(rows, pages), \A i \in DOMAIN s : YPageIs(r, pages[i], s[i]),
         NEW done, done \subseteq Range(YPhysical(r, s)),
         NEW new, new = YAfterDump(r, YPhysical(r, s), rows, done)
  PROVE  /\ \A b : b \in DOMAIN new <=> b \in DOMAIN ynative \/ b \in done
         /\ \A b \in done : \E i \in DOMAIN s : b = YBlock(s[i], r) /\ new[b] = YPieces(r, s[i])
         /\ \A b \in DOMAIN ynative : b \notin done => new[b] = ynative[b]
<1> DEFINE ids == YPhysical(r, s)
<1>1. /\ DOMAIN ids = 1..Len(s) /\ DOMAIN s = 1..Len(s) /\ DOMAIN pages = 1..Len(s) /\ YApart(ids)
      /\ \A i \in DOMAIN s : ids[i] = YBlock(s[i], r)
  BY YPhysicalIs, YKeysAre DEF YLong
<1>2. done \subseteq Range(ids)
  OBVIOUS
<1>3. new = YAfterDump(r, ids, rows, done)
  OBVIOUS
<1> HIDE DEF ids
<1>4. ASSUME NEW i \in DOMAIN s  PROVE YSaved(r, rows[i]) = YPieces(r, s[i])
  <2>1. rows[i] = [j \in 1..YPerPage |-> <<pages[i], j>>]
    BY <1>1, <1>4 DEF YRowsOK
  <2>2. YSaved(r, rows[i]) = [j \in 1..YPerPage |-> ypool[r][pages[i]][j]]
    BY <2>1, YSetupIs DEF YSaved
  <2>3. ypool[r][pages[i]] = YPieces(r, s[i])
    BY <1>4 DEF YPageIs
  <2> QED BY <2>2, <2>3, YPieceFn
<1>5. ASSUME NEW b \in done
      PROVE  \E n \in DOMAIN s : b = YBlock(s[n], r) /\ rows[CHOOSE i \in DOMAIN ids : ids[i] = b] = rows[n]
  <2>1. \E i \in DOMAIN ids : ids[i] = b
    BY <1>2, <1>5 DEF Range
  <2> QED BY <1>1, <2>1
<1>6. ASSUME NEW b \in done  PROVE \E i \in DOMAIN s : b = YBlock(s[i], r) /\ new[b] = YPieces(r, s[i])
  <2>1. PICK n \in DOMAIN s : b = YBlock(s[n], r) /\ rows[CHOOSE i \in DOMAIN ids : ids[i] = b] = rows[n]
    BY <1>5, <1>6
  <2>2. new[b] = YSaved(r, rows[CHOOSE i \in DOMAIN ids : ids[i] = b])
    BY <1>3, <1>6 DEF YAfterDump
  <2>3. new[b] = YPieces(r, s[n])
    BY <2>1, <2>2, <1>4
  <2> QED BY <2>1, <2>3
<1>7. \A b : b \in DOMAIN new <=> b \in DOMAIN ynative \/ b \in done
  BY <1>3 DEF YAfterDump
<1>8. \A b \in DOMAIN ynative : b \notin done => new[b] = ynative[b]
  BY <1>3 DEF YAfterDump
<1> QED BY <1>6, <1>7, <1>8

(* A load puts stored blocks into their pages.                              *)
LEMMA YAfterLoadIs ==
  ASSUME ycfg \in SglangSetups, NEW s, YKeysOK(s), NEW r, NEW pages, YLong(pages, Len(s)), YApart(pages),
         NEW rows, YRowsOK(rows, pages), NEW pool, NEW done,
         done \subseteq DOMAIN s, \A i \in done : ynative[YBlock(s[i], r)] = YPieces(r, s[i]),
         NEW new, new = YAfterLoad(pool, YPhysical(r, s), rows, done)
  PROVE  /\ DOMAIN new = DOMAIN pool
         /\ \A i \in done : pages[i] \in DOMAIN pool => new[pages[i]] = YPieces(r, s[i])
<1> DEFINE ids == YPhysical(r, s)
<1>1. /\ DOMAIN ids = 1..Len(s) /\ DOMAIN s = 1..Len(s) /\ DOMAIN pages = 1..Len(s)
      /\ \A i \in DOMAIN s : ids[i] = YBlock(s[i], r)
  BY YPhysicalIs, YKeysAre DEF YLong
<1>2. new = YAfterLoad(pool, ids, rows, done)
  OBVIOUS
<1> HIDE DEF ids
<1>3. \A i \in DOMAIN s : \A j \in 1..YPerPage : rows[i][j] = <<pages[i], j>>
  BY <1>1 DEF YRowsOK
<1> DEFINE At(p, j) == {e \in (DOMAIN ids) \X (1..YPerPage) : e[1] \in done /\ rows[e[1]][e[2]] = <<p, j>>}
       At1(p, j) == CHOOSE e \in At(p, j) : TRUE
<1>4. new = [p \in DOMAIN pool |-> [j \in 1..YPerPage |->
               IF At(p, j) = {} THEN pool[p][j] ELSE YWhole(ynative[ids[At1(p, j)[1]]][At1(p, j)[2]])]]
  BY <1>2 DEF YAfterLoad
<1>5. ASSUME NEW i \in done, NEW j \in 1..YPerPage
      PROVE  At(pages[i], j) # {} /\ \A e \in At(pages[i], j) : e[1] = i /\ e[2] = j
  <2>1. <<i, j>> \in At(pages[i], j)
    BY <1>1, <1>3, <1>5
  <2>2. ASSUME NEW e \in At(pages[i], j)  PROVE e[1] = i /\ e[2] = j
    <3>1. e[1] \in DOMAIN s /\ e[2] \in 1..YPerPage /\ rows[e[1]][e[2]] = <<pages[i], j>>
      BY <1>1, <2>2
    <3>2. <<pages[e[1]], e[2]>> = <<pages[i], j>>
      BY <1>3, <3>1
    <3> QED BY <1>1, <1>5, <3>1, <3>2 DEF YApart
  <2> QED BY <2>1, <2>2
<1>7. \A p, j : At(p, j) # {} => At1(p, j) \in At(p, j)
  OBVIOUS
<1> HIDE DEF At, At1
<1>6. ASSUME NEW i \in done, pages[i] \in DOMAIN pool  PROVE new[pages[i]] = YPieces(r, s[i])
  <2>1. ASSUME NEW j \in 1..YPerPage
        PROVE  At(pages[i], j) # {} /\ At1(pages[i], j)[1] = i /\ At1(pages[i], j)[2] = j
    BY <1>5, <1>6, <1>7, <2>1
  <2>2. new[pages[i]] = [j \in 1..YPerPage |-> IF At(pages[i], j) = {} THEN pool[pages[i]][j]
                                     ELSE YWhole(ynative[ids[At1(pages[i], j)[1]]][At1(pages[i], j)[2]])]
    BY <1>4, <1>6
  <2>3. \A x : YWhole(x) = x
    BY YSetupIs
  <2>4. ynative[ids[i]] = YPieces(r, s[i])
    BY <1>1, <1>6
  <2>5. new[pages[i]] = [j \in 1..YPerPage |-> YPieces(r, s[i])[j]]
    BY <2>1, <2>2, <2>3, <2>4
  <2>6. YPieces(r, s[i]) = [j \in 1..YPerPage |-> YPieces(r, s[i])[j]]
    BY YPieceFn
  <2> QED BY <2>5, <2>6
<1> QED BY <1>4, <1>6

----------------------------------------------------------------------------
(* SGLang: its steps keep the invariant                                     *)

(* The setup is fixed.                                                      *)
LEMMA YSame ==
  ASSUME ycfg' = ycfg
  PROVE  /\ YRanks' = YRanks
         /\ \A r, k : (YPieces(r, k))' = YPieces(r, k) /\ (YBlock(k, r))' = YBlock(k, r)
         /\ \A s : ((YKeysOK(s))' <=> YKeysOK(s)) /\ ((YPagesOK(s))' <=> YPagesOK(s))
         /\ \A r : (YSkips(r))' <=> YSkips(r)
<1>1. YRanks' = YRanks
  BY DEF YRanks
<1>2. \A r, k : (YPieces(r, k))' = YPieces(r, k)
  BY DEF YPieces
<1>3. \A r, k : (YBlock(k, r))' = YBlock(k, r)
  BY DEF YBlock, YSuffix
<1>4. \A s : ((YKeysOK(s))' <=> YKeysOK(s)) /\ ((YPagesOK(s))' <=> YPagesOK(s))
  BY DEF YKeysOK, YPagesOK
<1>5. \A r : (YSkips(r))' <=> YSkips(r)
  BY DEF YSkips
<1> QED BY <1>1, <1>2, <1>3, <1>4, <1>5

(* Steps that leave all the invariant reads as it is.                       *)
LEMMA YFrame ==
  ASSUME YInv, UNCHANGED <<ycfg, ypool, ytree, yop, yans, ynative, yback, ylost>>
  PROVE  YInv'
<1>1. YTyped'
  <2>1. YOpOK'
    BY YSame DEF YInv, YTyped, YOpOK
  <2> QED BY YSame, <2>1 DEF YInv, YTyped, YPoolOK
<1>2. YTreeOK'
  BY YSame DEF YInv, YTreeOK, YPageIs
<1>3. YNativeOK'
  BY YSame DEF YInv, YNativeOK
<1>4. YAnswers'
  BY YSame DEF YInv, YAnswers, YFetched, YDumped, YPageIs
<1>5. YBackedUp' /\ YFound'
  BY YSame DEF YInv, YBackedUp, YFound
<1> QED BY <1>1, <1>2, <1>3, <1>4, <1>5 DEF YInv

LEMMA YInitInv ==
  ASSUME SglangInit
  PROVE  YInv
<1> USE DEF SglangInit
<1>1. DOMAIN ytree = {} /\ DOMAIN ynative = {}
  OBVIOUS
<1>2. DOMAIN yans = YRanks /\ \A r \in YRanks : yans[r] = -1
  OBVIOUS
<1>3. yop = [kind |-> yop.kind, keys |-> yop.keys, pages |-> yop.pages] /\ yop.kind = "none"
  BY DEF YIdle
<1>4. YPoolOK
  BY DEF YPoolOK
<1>5. YTyped
  BY <1>2, <1>3, <1>4 DEF YTyped, YOpOK
<1>6. YTreeOK /\ YNativeOK /\ YBackedUp
  BY <1>1 DEF YTreeOK, YNativeOK, YBackedUp
<1>7. YAnswers /\ YFound
  BY <1>2, <1>3 DEF YAnswers, YFound
<1> QED BY <1>5, <1>6, <1>7 DEF YInv

(* Between operations nobody has an answer.                                 *)
LEMMA YIdleAnswers ==
  ASSUME YInv, yop.kind = "none", yans' = yans, ycfg' = ycfg, yop' = yop
  PROVE  YAnswers' /\ YFound'
<1>1. \A r \in YRanks : yans[r] = -1
  BY DEF YInv, YAnswers
<1> QED BY <1>1, YSame DEF YAnswers, YFound

(* Pages are computed.                                                      *)
LEMMA YComputeKeeps ==
  ASSUME YInv, NEW s \in ycfg.prefixes, YCompute(s)
  PROVE  YInv'
<1> DEFINE t == YTake(Len(s))
<1>1. YKeysOK(s) /\ ycfg.pool \in Nat
  BY YSetupIs DEF YInv, YTyped
<1>2. YLong(s, Len(s)) /\ YApart(s) /\ Len(s) <= ycfg.pool
  BY <1>1, YKeysAre
<1>3. Len(s) \in Nat /\ DOMAIN s = 1..Len(s)
  BY <1>2 DEF YLong
<1>4. YPagesOK(t) /\ Len(t) = Len(s)
  BY <1>1, <1>2, <1>3, YTakeIs DEF YCompute
<1>5. YLong(t, Len(s)) /\ YApart(t) /\ \A i \in DOMAIN t : t[i] \in 1..ycfg.pool
  BY <1>3, <1>4, YPagesAre
<1>6. DOMAIN t = 1..Len(s)
  BY <1>5 DEF YLong
<1>7. ytree' = [k \in Range(s) |-> t[CHOOSE i \in DOMAIN s : s[i] = k]]
  BY DEF YCompute
<1> HIDE DEF t
<1>8. ASSUME NEW k \in Range(s)  PROVE \E i \in DOMAIN s : s[i] = k /\ ytree'[k] = t[i]
  <2>1. \E i \in DOMAIN s : s[i] = k
    BY DEF Range
  <2> QED BY <2>1, <1>7
<1>9. DOMAIN ytree' = Range(s)
  BY <1>7
<1>10. ASSUME NEW k \in Range(s), NEW l \in Range(s), ytree'[k] = ytree'[l]  PROVE k = l
  <2>1. PICK i \in DOMAIN s : s[i] = k /\ ytree'[k] = t[i]
    BY <1>8
  <2>2. PICK j \in DOMAIN s : s[j] = l /\ ytree'[l] = t[j]
    BY <1>8
  <2> QED BY <1>3, <1>5, <1>6, <1>10, <2>1, <2>2 DEF YApart
<1>11. ycfg' = ycfg /\ yop' = yop /\ yans' = yans /\ ynative' = ynative /\ yback' = yback /\ ylost' = ylost
       /\ yop.kind = "none"
  BY DEF YCompute
<1>12. ypool' = [r \in YRanks |-> [p \in 1..ycfg.pool |->
                   IF \E k \in Range(s) : ytree'[k] = p THEN YPieces(r, CHOOSE k \in Range(s) : ytree'[k] = p)
                                                        ELSE ypool[r][p]]]
  BY DEF YCompute
<1>13. ASSUME NEW k \in Range(s)
       PROVE  ytree'[k] \in 1..ycfg.pool /\ \A r \in YRanks : ypool'[r][ytree'[k]] = YPieces(r, k)
  <2>1. PICK i \in DOMAIN s : s[i] = k /\ ytree'[k] = t[i]
    BY <1>8
  <2>2. ytree'[k] \in 1..ycfg.pool
    BY <2>1, <1>3, <1>5, <1>6
  <2>3. \E l \in Range(s) : ytree'[l] = ytree'[k]
    BY <1>13
  <2>4. (CHOOSE l \in Range(s) : ytree'[l] = ytree'[k]) = k
    BY <1>10, <1>13
  <2>5. ASSUME NEW r \in YRanks  PROVE ypool'[r][ytree'[k]] = YPieces(r, k)
    BY <1>12, <2>2, <2>3, <2>4
  <2> QED BY <2>2, <2>5
<1>14. YTyped'
  <2>1. YPoolOK'
    BY <1>11, <1>12, YSame DEF YPoolOK
  <2>2. YOpOK'
    BY <1>11, YSame DEF YInv, YTyped, YOpOK
  <2> QED BY <2>1, <2>2, <1>11, YSame DEF YInv, YTyped
<1>15. YTreeOK'
  BY <1>9, <1>11, <1>13, YSame DEF YTreeOK, YPageIs
<1>16. YNativeOK' /\ YBackedUp'
  BY <1>11, YSame DEF YInv, YNativeOK, YBackedUp
<1>17. YAnswers' /\ YFound'
  BY <1>11, YIdleAnswers
<1> QED BY <1>14, <1>15, <1>16, <1>17 DEF YInv

(* The tree is emptied.                                                     *)
LEMMA YDropKeeps ==
  ASSUME YInv, YDrop
  PROVE  YInv'
<1>1. /\ ycfg' = ycfg /\ ypool' = ypool /\ yop' = yop /\ yans' = yans /\ ynative' = ynative /\ yback' = yback
      /\ ylost' = ylost /\ yop.kind = "none" /\ ytree' = <<>>
  BY DEF YDrop
<1>2. YTyped'
  BY <1>1, YSame DEF YInv, YTyped, YPoolOK, YOpOK
<1>3. YTreeOK'
  <2>1. DOMAIN ytree' = {}
    BY <1>1
  <2> QED BY <2>1 DEF YTreeOK
<1>4. YNativeOK' /\ YBackedUp'
  BY <1>1, YSame DEF YInv, YNativeOK, YBackedUp
<1>5. YAnswers' /\ YFound'
  BY <1>1, YIdleAnswers
<1> QED BY <1>2, <1>3, <1>4, <1>5 DEF YInv

(* An operation starts.                                                     *)
LEMMA YStartKeeps ==
  ASSUME YInv, NEW kind \in {"set", "exists"}, NEW s \in ycfg.prefixes, YStart(kind, s)
  PROVE  YInv'
<1>1. /\ ycfg' = ycfg /\ ypool' = ypool /\ ytree' = ytree /\ yans' = yans /\ ynative' = ynative /\ yback' = yback
      /\ ylost' = ylost /\ yop.kind = "none"
      /\ yop' = [kind |-> kind, keys |-> s, pages |-> IF kind = "set" THEN [i \in DOMAIN s |-> ytree[s[i]]] ELSE <<>>]
      /\ IF kind = "set" THEN Range(s) \subseteq DOMAIN ytree ELSE ytree = <<>>
  BY DEF YStart
<1>2. YKeysOK(s)
  BY YSetupIs DEF YInv, YTyped
<1>3. /\ yop' = [kind |-> yop'.kind, keys |-> yop'.keys, pages |-> yop'.pages]
      /\ yop'.kind = kind /\ yop'.keys = s /\ kind = "set" => yop'.pages = [i \in DOMAIN s |-> ytree[s[i]]]
  BY <1>1
<1>4. YOpOK'
  BY <1>1, <1>2, <1>3, YSame DEF YOpOK
<1>5. YTyped'
  BY <1>1, <1>4, YSame DEF YInv, YTyped, YPoolOK
<1>6. YTreeOK' /\ YNativeOK' /\ YBackedUp'
  BY <1>1, YSame DEF YInv, YTreeOK, YPageIs, YNativeOK, YBackedUp
<1>7. \A r \in YRanks : yans'[r] = -1
  BY <1>1 DEF YInv, YAnswers
<1>8. YAnswers' /\ YFound'
  BY <1>1, <1>3, <1>7, YSame DEF YAnswers, YFound
<1> QED BY <1>5, <1>6, <1>8 DEF YInv

(* The store drops a block.                                                 *)
LEMMA YEvictKeeps ==
  ASSUME YInv, NEW b \in DOMAIN ynative, YEvict(b)
  PROVE  YInv'
<1>1. /\ ycfg' = ycfg /\ ypool' = ypool /\ ytree' = ytree /\ yans' = yans /\ yop' = yop /\ yback' = yback
      /\ ylost' = TRUE /\ ynative' = [c \in DOMAIN ynative \ {b} |-> ynative[c]]
  BY DEF YEvict
<1>2. \A c \in DOMAIN ynative' : c \in DOMAIN ynative /\ ynative'[c] = ynative[c]
  BY <1>1
<1>3. YTyped'
  BY <1>1, YSame DEF YInv, YTyped, YPoolOK, YOpOK
<1>4. YTreeOK' /\ YBackedUp' /\ YFound'
  BY <1>1, YSame DEF YInv, YTreeOK, YPageIs, YBackedUp, YFound
<1>5. YNativeOK'
  BY <1>1, <1>2, YSame DEF YInv, YNativeOK
<1>6. YAnswers'
  BY <1>1, YSame DEF YInv, YAnswers, YFetched, YPageIs
<1> QED BY <1>3, <1>4, <1>5, <1>6 DEF YInv

(* A rank dumps the pages of the tree.                                      *)
LEMMA YBatchSetKeeps ==
  ASSUME YInv, NEW r \in YRanks, YBatchSet(r)
  PROVE  YInv'
<1> DEFINE s == yop.keys
           ids == YPhysical(r, s)
           rows == YTransfer(ids, YRows(yop.pages))
<1>1. /\ ycfg' = ycfg /\ ypool' = ypool /\ ytree' = ytree /\ yop' = yop /\ yback' = yback
      /\ yop.kind = "set" /\ ycfg \in SglangSetups
  BY DEF YBatchSet, YAsked, YInv, YTyped
<1>2. YKeysOK(s) /\ Range(s) \subseteq DOMAIN ytree /\ yop.pages = [i \in DOMAIN s |-> ytree[s[i]]]
  BY <1>1 DEF YInv, YTyped, YOpOK
<1>3. DOMAIN s = 1..Len(s) /\ Len(s) \in Nat
  BY <1>2, YKeysAre DEF YLong
<1>4. \A i \in DOMAIN s : s[i] \in DOMAIN ytree
  BY <1>2 DEF Range
<1>5. YLong(yop.pages, Len(s))
  <2> DEFINE T == {ytree[s[i]] : i \in 1..Len(s)}
  <2>1. yop.pages \in [1..Len(s) -> T]
    BY <1>2, <1>3
  <2> HIDE DEF T, s
  <2> QED BY <1>3, <2>1, YLongIs
<1>6. YRowsOK(rows, yop.pages)
  BY <1>1, <1>2, <1>5, YTransferIs
<1>7. \A i \in DOMAIN s : YPageIs(r, yop.pages[i], s[i])
  BY <1>2, <1>4 DEF YInv, YTreeOK
<1>8. ids = YPhysical(r, s) /\ DOMAIN ids = DOMAIN s /\ \A i \in DOMAIN s : ids[i] = YBlock(s[i], r)
  BY <1>2, <1>3, YPhysicalIs DEF YLong
<1>9. /\ \E n : yans' = [yans EXCEPT ![r] = n]
      /\ ylost => ylost'
      /\ \/ YSkips(r) /\ ynative' = ynative /\ ylost' = ylost
         \/ ynative' = YAfterDump(r, ids, rows, Range(ids)) /\ ylost' = ylost
         \/ ylost' = TRUE /\ \E done \in SUBSET Range(ids) : ynative' = YAfterDump(r, ids, rows, done)
  BY DEF YBatchSet, YAnswer, YSkips
<1> HIDE DEF rows, ids, s
<1>10. ASSUME NEW done, done \subseteq Range(ids), ynative' = YAfterDump(r, ids, rows, done)
       PROVE  /\ \A b : b \in DOMAIN ynative' <=> b \in DOMAIN ynative \/ b \in done
              /\ \A b \in done : \E i \in DOMAIN s : b = YBlock(s[i], r) /\ ynative'[b] = YPieces(r, s[i])
              /\ \A b \in DOMAIN ynative : b \notin done => ynative'[b] = ynative[b]
  <2> DEFINE new == ynative'
             pages == yop.pages
  <2>1. new = YAfterDump(r, YPhysical(r, s), rows, done) /\ done \subseteq Range(YPhysical(r, s))
    BY <1>8, <1>10
  <2>2. YLong(pages, Len(s)) /\ YRowsOK(rows, pages) /\ \A i \in DOMAIN s : YPageIs(r, pages[i], s[i])
    BY <1>5, <1>6, <1>7
  <2> HIDE DEF new, pages
  <2>3. /\ \A b : b \in DOMAIN new <=> b \in DOMAIN ynative \/ b \in done
        /\ \A b \in done : \E i \in DOMAIN s : b = YBlock(s[i], r) /\ new[b] = YPieces(r, s[i])
        /\ \A b \in DOMAIN ynative : b \notin done => new[b] = ynative[b]
    BY <1>1, <1>2, <2>1, <2>2, YAfterDumpIs
  <2> QED BY <2>3 DEF new
<1>11. (\A b \in DOMAIN ynative : b \in DOMAIN ynative') /\ YNativeOK'
  <2>1. CASE ynative' = ynative
    BY <1>1, <2>1, YSame DEF YInv, YNativeOK
  <2>2. ASSUME NEW done, done \subseteq Range(ids), ynative' = YAfterDump(r, ids, rows, done)
        PROVE  (\A b \in DOMAIN ynative : b \in DOMAIN ynative') /\ YNativeOK'
    <3>1. /\ \A b : b \in DOMAIN ynative' <=> b \in DOMAIN ynative \/ b \in done
          /\ \A b \in done : \E i \in DOMAIN s : b = YBlock(s[i], r) /\ ynative'[b] = YPieces(r, s[i])
          /\ \A b \in DOMAIN ynative : b \notin done => ynative'[b] = ynative[b]
      BY <1>10, <2>2
    <3>2. ASSUME NEW q \in YRanks, NEW k, YBlock(k, q) \in DOMAIN ynative'
          PROVE  ynative'[YBlock(k, q)] = YPieces(q, k)
      <4>1. CASE YBlock(k, q) \in done
        <5>1. PICK i \in DOMAIN s : YBlock(k, q) = YBlock(s[i], r) /\ ynative'[YBlock(k, q)] = YPieces(r, s[i])
          BY <3>1, <4>1
        <5>2. YPieces(q, k) = YPieces(r, s[i])
          BY <5>1, YBlocks
        <5> QED BY <5>1, <5>2
      <4>2. CASE YBlock(k, q) \notin done
        BY <3>1, <3>2, <4>2 DEF YInv, YNativeOK
      <4> QED BY <4>1, <4>2
    <3> QED BY <1>1, <3>1, <3>2, YSame DEF YNativeOK
  <2> QED BY <1>9, <2>1, <2>2
<1>12. ylost' \/ YSkips(r) \/ \A i \in DOMAIN s : YBlock(s[i], r) \in DOMAIN ynative'
  <2>1. ASSUME ynative' = YAfterDump(r, ids, rows, Range(ids))
        PROVE  \A i \in DOMAIN s : YBlock(s[i], r) \in DOMAIN ynative'
    <3>1. \A b \in Range(ids) : b \in DOMAIN ynative'
      BY <1>10, <2>1
    <3>2. \A i \in DOMAIN s : ids[i] \in Range(ids)
      BY <1>8 DEF Range
    <3> QED BY <1>8, <3>1, <3>2
  <2> QED BY <1>9, <2>1
<1>13. DOMAIN yans' = YRanks /\ \A q \in YRanks : q # r => yans'[q] = yans[q]
  BY <1>9 DEF YInv, YTyped
<1>14. YTyped'
  BY <1>1, <1>13, YSame DEF YInv, YTyped, YPoolOK, YOpOK
<1>15. YTreeOK' /\ YFound'
  BY <1>1, YSame DEF YInv, YTreeOK, YPageIs, YFound
<1>16. YBackedUp'
  BY <1>1, <1>9, <1>11, YSame DEF YInv, YBackedUp
<1>17. YAnswers'
  <2>1. ASSUME NEW q \in YRanks  PROVE ylost' \/ YSkips(q) \/ yans'[q] = -1 \/ YDumped(q)'
    <3>1. CASE q = r
      BY <1>1, <1>12, <3>1, YSame DEF YDumped, s
    <3>2. CASE q # r
      BY <1>1, <1>9, <1>11, <1>13, <3>2, YSame DEF YInv, YAnswers, YDumped
    <3> QED BY <3>1, <3>2
  <2> QED BY <1>1, <2>1, YSame DEF YAnswers
<1> QED BY <1>11, <1>14, <1>15, <1>16, <1>17 DEF YInv

(* A rank looks up the stored prefix.                                       *)
LEMMA YBatchExistsKeeps ==
  ASSUME YInv, NEW r \in YRanks, YBatchExists(r)
  PROVE  YInv'
<1> DEFINE s == yop.keys
           n == Len(s)
           a == IF YSkips(r) THEN Len(yop.keys) ELSE YOnPrefix(YPhysical(r, yop.keys))
<1>1. /\ ycfg' = ycfg /\ ypool' = ypool /\ ytree' = ytree /\ yop' = yop /\ yback' = yback
      /\ ynative' = ynative /\ ylost' = ylost /\ yans' = [yans EXCEPT ![r] = a]
      /\ yop.kind = "exists" /\ ycfg \in SglangSetups
  BY DEF YBatchExists, YAnswer, YAsked, YInv, YTyped
<1>2. YKeysOK(s)
  BY <1>1 DEF YInv, YTyped, YOpOK
<1>3. n \in Nat /\ DOMAIN s = 1..n
  BY <1>2, YKeysAre DEF YLong
<1>4. Len(YPhysical(r, s)) = n /\ \A i \in 1..n : YPhysical(r, s)[i] = YBlock(s[i], r)
  BY <1>2, <1>3, YPhysicalIs DEF YLong
<1>5. a \in 0..n
  BY <1>3, <1>4, YOnPrefixIs
<1>6. ASSUME ~ylost, Range(s) \subseteq yback  PROVE a = n
  <2>1. \A i \in 1..n : s[i] \in yback
    BY <1>3, <1>6 DEF Range
  <2>2. \A i \in 1..n : YPhysical(r, s)[i] \in DOMAIN ynative
    BY <1>4, <1>6, <2>1 DEF YInv, YBackedUp
  <2> QED BY <1>3, <1>4, <2>2, YOnPrefixIs
<1> HIDE DEF a
<1>7. DOMAIN yans' = YRanks /\ \A q \in YRanks : yans'[q] = IF q = r THEN a ELSE yans[q]
  BY <1>1 DEF YInv, YTyped
<1>8. YTyped'
  BY <1>1, <1>7, YSame DEF YInv, YTyped, YPoolOK, YOpOK
<1>9. YTreeOK' /\ YNativeOK' /\ YBackedUp'
  BY <1>1, YSame DEF YInv, YTreeOK, YPageIs, YNativeOK, YBackedUp
<1>10. YAnswers'
  BY <1>1, <1>5, <1>7, YSame DEF YInv, YAnswers
<1>11. YFound'
  BY <1>1, <1>6, <1>7, YSame DEF YInv, YFound
<1> QED BY <1>8, <1>9, <1>10, <1>11 DEF YInv

(* A rank fetches pages.                                                    *)
LEMMA YBatchGetKeeps ==
  ASSUME YInv, NEW r \in YRanks, YBatchGet(r)
  PROVE  YInv'
<1> DEFINE s == yop.keys
           n == Len(s)
           pages == yop.pages
           ids == YPhysical(r, s)
           rows == YTransfer(ids, YRows(pages))
           here == {i \in DOMAIN ids : ids[i] \in DOMAIN ynative}
<1>1. /\ ycfg' = ycfg /\ ytree' = ytree /\ yop' = yop /\ yback' = yback /\ ynative' = ynative
      /\ yop.kind = "get" /\ ycfg \in SglangSetups
  BY DEF YBatchGet, YAsked, YInv, YTyped
<1>2. YKeysOK(s) /\ YPagesOK(pages) /\ Len(pages) = n /\ ytree = <<>>
  BY <1>1 DEF YInv, YTyped, YOpOK
<1>3. n \in Nat /\ DOMAIN s = 1..n
  BY <1>2, YKeysAre DEF YLong
<1>4. YLong(pages, n) /\ YApart(pages) /\ \A i \in DOMAIN pages : pages[i] \in 1..ycfg.pool
  BY <1>2, <1>3, YPagesAre
<1>5. YRowsOK(rows, pages)
  BY <1>1, <1>2, <1>4, YTransferIs
<1>6. ids = YPhysical(r, s) /\ Len(ids) = n /\ DOMAIN ids = 1..n /\ \A i \in 1..n : ids[i] = YBlock(s[i], r)
  BY <1>2, <1>3, YPhysicalIs DEF YLong
<1>7. \A i \in here : i \in 1..n /\ ynative[YBlock(s[i], r)] = YPieces(r, s[i])
  BY <1>6 DEF YInv, YNativeOK
<1>8. \/ /\ here = DOMAIN ids /\ yans' = [yans EXCEPT ![r] = n] /\ ylost' = ylost
         /\ ypool' = [ypool EXCEPT ![r] = YAfterLoad(ypool[r], ids, rows, here)]
      \/ /\ yans' = [yans EXCEPT ![r] = 0]
         /\ IF here = DOMAIN ids THEN ylost' = TRUE ELSE ylost' = ylost
         /\ \E done \in SUBSET here : ypool' = [ypool EXCEPT ![r] = YAfterLoad(ypool[r], ids, rows, done)]
  BY <1>6 DEF YBatchGet, YAnswer, YGot
<1>9. (\A i \in 1..n : ids[i] \in DOMAIN ynative) => here = DOMAIN ids
  BY <1>6
<1>10. DOMAIN pages = 1..n
  BY <1>4 DEF YLong
<1> HIDE DEF rows, ids, here
<1>11. ASSUME NEW done, done \subseteq here, NEW new, new = YAfterLoad(ypool[r], ids, rows, done)
       PROVE  DOMAIN new = 1..ycfg.pool /\ \A i \in done : new[pages[i]] = YPieces(r, s[i])
  <2> DEFINE pool == ypool[r]
  <2>1. new = YAfterLoad(pool, YPhysical(r, s), rows, done)
    BY <1>6, <1>11
  <2>2. done \subseteq DOMAIN s /\ \A i \in done : ynative[YBlock(s[i], r)] = YPieces(r, s[i])
    BY <1>3, <1>7, <1>11
  <2>3. YLong(pages, Len(s)) /\ YApart(pages) /\ YRowsOK(rows, pages) /\ YKeysOK(s)
    BY <1>2, <1>4, <1>5
  <2>4. DOMAIN pool = 1..ycfg.pool /\ \A i \in done : pages[i] \in DOMAIN pool
    BY <1>3, <1>4, <1>10, <2>2 DEF YInv, YTyped, YPoolOK
  <2> HIDE DEF s, pages, pool, n
  <2>5. DOMAIN new = DOMAIN pool /\ \A i \in done : pages[i] \in DOMAIN pool => new[pages[i]] = YPieces(r, s[i])
    BY <1>1, <2>1, <2>2, <2>3, YAfterLoadIs
  <2> QED BY <2>4, <2>5
<1>12. /\ DOMAIN ypool' = YRanks /\ DOMAIN ypool'[r] = 1..ycfg.pool
       /\ \A q \in YRanks : q # r => ypool'[q] = ypool[q]
  <2>1. ASSUME NEW done, done \subseteq here, ypool' = [ypool EXCEPT ![r] = YAfterLoad(ypool[r], ids, rows, done)]
        PROVE  /\ DOMAIN ypool' = YRanks /\ DOMAIN ypool'[r] = 1..ycfg.pool
               /\ \A q \in YRanks : q # r => ypool'[q] = ypool[q]
    <3>1. DOMAIN YAfterLoad(ypool[r], ids, rows, done) = 1..ycfg.pool
      BY <1>11, <2>1
    <3> QED BY <2>1, <3>1 DEF YInv, YTyped, YPoolOK
  <2> QED BY <1>8, <2>1
<1>13. /\ DOMAIN yans' = YRanks /\ \A q \in YRanks : q # r => yans'[q] = yans[q]
       /\ ylost => ylost'
       /\ yans'[r] = 0 \/ (yans'[r] = n /\ \A i \in 1..n : ypool'[r][pages[i]] = YPieces(r, s[i]))
  <2>1. DOMAIN yans = YRanks /\ DOMAIN ypool = YRanks
    BY DEF YInv, YTyped, YPoolOK
  <2>2. ASSUME here = DOMAIN ids, ypool' = [ypool EXCEPT ![r] = YAfterLoad(ypool[r], ids, rows, here)]
        PROVE  \A i \in 1..n : ypool'[r][pages[i]] = YPieces(r, s[i])
    <3>1. \A i \in here : YAfterLoad(ypool[r], ids, rows, here)[pages[i]] = YPieces(r, s[i])
      BY <1>11
    <3> QED BY <1>6, <2>1, <2>2, <3>1
  <2> QED BY <1>8, <2>1, <2>2
<1>14. ASSUME ~ylost', Range(s) \subseteq yback  PROVE yans'[r] = n
  <2>1. ~ylost /\ \A i \in 1..n : s[i] \in yback
    BY <1>3, <1>13, <1>14 DEF Range
  <2>2. \A i \in 1..n : ids[i] \in DOMAIN ynative
    BY <1>6, <2>1 DEF YInv, YBackedUp
  <2>3. DOMAIN yans = YRanks
    BY DEF YInv, YTyped
  <2> QED BY <1>8, <1>9, <1>14, <2>2, <2>3
<1>15. YTyped'
  <2>1. YPoolOK'
    BY <1>1, <1>12, YSame DEF YInv, YTyped, YPoolOK
  <2> QED BY <1>1, <1>13, <2>1, YSame DEF YInv, YTyped, YOpOK
<1>16. YTreeOK'
  <2>1. DOMAIN ytree' = {}
    BY <1>1, <1>2
  <2> QED BY <2>1 DEF YTreeOK
<1>17. YNativeOK' /\ YBackedUp'
  BY <1>1, <1>13, YSame DEF YInv, YNativeOK, YBackedUp
<1>18. YAnswers'
  <2>1. ASSUME NEW q \in YRanks  PROVE yans'[q] \in {-1, 0} \/ (yans'[q] = n /\ YFetched(q)')
    <3>1. CASE q = r
      BY <1>1, <1>3, <1>13, <3>1, YSame DEF YFetched, YPageIs
    <3>2. CASE q # r
      BY <1>1, <1>12, <1>13, <3>2, YSame DEF YInv, YAnswers, YFetched, YPageIs
    <3> QED BY <3>1, <3>2
  <2> QED BY <1>1, <2>1, YSame DEF YAnswers
<1>19. YFound'
  BY <1>1, <1>13, <1>14, YSame DEF YInv, YFound
<1> QED BY <1>15, <1>16, <1>17, <1>18, <1>19 DEF YInv

(* An operation ends.                                                       *)
LEMMA YEndKeeps ==
  ASSUME YInv, YEnd
  PROVE  YInv'
<1> DEFINE s == yop.keys
           n == Len(s)
           pages == yop.pages
           a == YAgreed
           top == SubSeq(s, 1, a)
<1>1. /\ ycfg' = ycfg /\ ypool' = ypool /\ ynative' = ynative /\ ylost' = ylost
      /\ yop.kind # "none" /\ ycfg \in SglangSetups /\ ycfg.pool \in Nat
      /\ \A r \in YRanks : yans[r] # -1
      /\ yans' = [r \in YRanks |-> -1]
  BY YSetupIs DEF YEnd, YInv, YTyped
<1>2. \/ yop.kind = "set" /\ yop' = YIdle /\ yback' = yback \union Range(s) /\ ytree' = ytree
      \/ /\ yop.kind = "exists" /\ yback' = yback /\ ytree' = ytree
         /\ yop' = IF a = 0 THEN YIdle ELSE [kind |-> "get", keys |-> top, pages |-> YTake(a)]
      \/ /\ yop.kind = "get" /\ yop' = YIdle /\ yback' = yback
         /\ ytree' = [k \in Range(top) |-> pages[CHOOSE i \in DOMAIN s : s[i] = k]]
  BY DEF YEnd
<1>3. YKeysOK(s) /\ DOMAIN yans = YRanks
  BY <1>1 DEF YInv, YTyped, YOpOK
<1>4. n \in Nat /\ DOMAIN s = 1..n /\ n <= ycfg.pool
  BY <1>3, YKeysAre DEF YLong
<1>5. yop.kind \in {"exists", "get"} => a \in 0..n /\ \A r \in YRanks : a <= yans[r]
  <2>1. ASSUME yop.kind \in {"exists", "get"}  PROVE \A r \in YRanks : yans[r] \in 0..n
    BY <1>1, <1>4, <2>1 DEF YInv, YAnswers
  <2> HIDE DEF n
  <2> QED BY <1>1, <1>3, <1>4, <2>1, YAgreedIs
<1>6. ASSUME a \in 0..n
      PROVE  /\ YKeysOK(top) /\ Len(top) = a /\ DOMAIN top = 1..a /\ \A i \in 1..a : top[i] = s[i]
  <2>1. YKeysOK(top) /\ Len(top) = a /\ \A i \in 1..a : top[i] = s[i]
    BY <1>1, <1>3, <1>6, YPrefixIs
  <2> HIDE DEF top
  <2>2. DOMAIN top = 1..Len(top)
    BY <2>1, YKeysAre DEF YLong
  <2> QED BY <2>1, <2>2
<1>7. YIdle = [kind |-> "none", keys |-> <<>>, pages |-> <<>>]
  BY DEF YIdle
<1> HIDE DEF a, top
<1>8. \A r \in YRanks : yans'[r] = -1
  BY <1>1
<1>9. YOpOK'
  <2>1. CASE yop' = YIdle
    <3>1. yop' = [kind |-> yop'.kind, keys |-> yop'.keys, pages |-> yop'.pages] /\ yop'.kind = "none"
      BY <1>7, <2>1
    <3> QED BY <3>1 DEF YOpOK
  <2>2. CASE yop.kind = "exists" /\ yop' = [kind |-> "get", keys |-> top, pages |-> YTake(a)] /\ ytree' = ytree
    <3>1. yop' = [kind |-> yop'.kind, keys |-> yop'.keys, pages |-> yop'.pages]
          /\ yop'.kind = "get" /\ yop'.keys = top /\ yop'.pages = YTake(a)
      BY <2>2
    <3>2. ytree = <<>> /\ a \in 0..n
      BY <1>5, <2>2 DEF YInv, YTyped, YOpOK
    <3>3. a \in Nat /\ a <= ycfg.pool
      BY <1>1, <1>4, <3>2
    <3>4. YPagesOK(YTake(a)) /\ Len(YTake(a)) = a
      BY <1>1, <3>2, <3>3, YTakeIs
    <3>5. YKeysOK(top) /\ Len(top) = a
      BY <1>6, <3>2
    <3> QED BY <1>1, <2>2, <3>1, <3>2, <3>4, <3>5, YSame DEF YOpOK
  <2> QED BY <1>2, <2>1, <2>2
<1>10. YTyped'
  BY <1>1, <1>9, YSame DEF YInv, YTyped, YPoolOK
<1>11. YTreeOK'
  <2>1. CASE ytree' = ytree
    BY <1>1, <2>1, YSame DEF YInv, YTreeOK, YPageIs
  <2>2. CASE yop.kind = "get" /\ ytree' = [k \in Range(top) |-> pages[CHOOSE i \in DOMAIN s : s[i] = k]]
    <3>1. a \in 0..n /\ \A r \in YRanks : a <= yans[r]
      BY <1>5, <2>2
    <3>2. DOMAIN top = 1..a /\ \A i \in 1..a : top[i] = s[i]
      BY <1>6, <3>1
    <3>3. DOMAIN pages = 1..n /\ \A i \in 1..n : pages[i] \in 1..ycfg.pool
      <4>1. YPagesOK(pages) /\ Len(pages) = n
        BY <2>2 DEF YInv, YTyped, YOpOK
      <4> QED BY <4>1 DEF YPagesOK
    <3>4. ASSUME NEW k \in Range(top)
          PROVE  \E i \in 1..n : a > 0 /\ s[i] = k /\ ytree'[k] = pages[i]
      <4>1. PICK j \in DOMAIN top : top[j] = k
        BY DEF Range
      <4>2. a > 0 /\ j \in DOMAIN s /\ s[j] = k
        BY <1>4, <3>1, <3>2, <4>1
      <4> QED BY <1>4, <2>2, <4>2
    <3>5. ASSUME NEW r \in YRanks, a > 0  PROVE \A i \in 1..n : YPageIs(r, pages[i], s[i])
      <4>1. a \in Nat /\ yans[r] \in {0, n} /\ a <= yans[r] /\ (yans[r] = n => YFetched(r) \/ n = 0)
        BY <1>1, <1>4, <2>2, <3>1 DEF YInv, YAnswers
      <4>2. YFetched(r)
        <5>1. yans[r] # 0
          BY <1>4, <3>5, <4>1
        <5> QED BY <1>1, <2>2, <5>1 DEF YInv, YAnswers
      <4> QED BY <1>4, <4>2 DEF YFetched
    <3>6. ASSUME NEW k \in Range(top)
          PROVE  ytree'[k] \in 1..ycfg.pool /\ \A r \in YRanks : YPageIs(r, ytree'[k], k)
      <4>1. PICK i \in 1..n : a > 0 /\ s[i] = k /\ ytree'[k] = pages[i]
        BY <3>4
      <4> QED BY <3>3, <3>5, <4>1
    <3>7. DOMAIN ytree' = Range(top)
      BY <2>2
    <3> QED BY <1>1, <3>6, <3>7, YSame DEF YTreeOK, YPageIs
  <2> QED BY <1>2, <2>1, <2>2
<1>12. YNativeOK'
  BY <1>1, YSame DEF YInv, YNativeOK
<1>13. YAnswers'
  BY <1>8, <1>1, YSame, <1>9 DEF YAnswers, YOpOK
<1>14. YBackedUp'
  <2>1. CASE yback' = yback
    BY <1>1, <2>1, YSame DEF YInv, YBackedUp
  <2>2. CASE yop.kind = "set" /\ yback' = yback \union Range(s)
    <3>1. ASSUME ~ylost, NEW r \in YRanks  PROVE \A i \in DOMAIN s : YBlock(s[i], r) \in DOMAIN ynative
      <4>1. CASE ~YSkips(r)
        BY <1>1, <2>2, <3>1, <4>1 DEF YInv, YAnswers, YDumped
      <4>2. CASE YSkips(r)
        <5>1. 0 \in YRanks /\ ~YSkips(0)
          BY <1>1, YSetupIs DEF YSkips
        <5>2. YDumped(0)
          BY <1>1, <2>2, <3>1, <5>1 DEF YInv, YAnswers
        <5>3. \A k : YBlock(k, r) = YBlock(k, 0)
          BY <4>2 DEF YSkips, YBlock, YSuffix
        <5> QED BY <5>2, <5>3 DEF YDumped
      <4> QED BY <4>1, <4>2
    <3>2. \A k \in Range(s) : \E i \in DOMAIN s : k = s[i]
      BY DEF Range
    <3>3. ASSUME ~ylost, NEW k \in yback', NEW r \in YRanks  PROVE YBlock(k, r) \in DOMAIN ynative
      <4>1. CASE k \in yback
        BY <3>3, <4>1 DEF YInv, YBackedUp
      <4>2. CASE k \in Range(s)
        BY <3>1, <3>2, <3>3, <4>2
      <4> QED BY <2>2, <3>3, <4>1, <4>2
    <3> QED BY <1>1, <3>3, YSame DEF YBackedUp
  <2> QED BY <1>2, <2>1, <2>2
<1>15. YFound'
  BY <1>1, <1>8, YSame DEF YFound
<1> QED BY <1>10, <1>11, <1>12, <1>13, <1>14, <1>15 DEF YInv

LEMMA YInvIsRight ==
  ASSUME YInv
  PROVE  SglangRight
BY DEF YInv, YTreeOK, YPageIs, YFound, SglangRight

(* Whatever ranks compute, back up and fetch, in any order and with any     *)
(* fault, a page of the tree holds on every rank what that rank computed    *)
(* for its key: batch_get_v1 counts all pages of a rank or none, the keys   *)
(* of ranks that hold different pieces differ, and both stores put the      *)
(* addresses of a page together as _generate_task wrote them.  As long as   *)
(* nothing fails, every rank finds and fetches all that was backed up.      *)
THEOREM SglangHolds == SglangSpec => []SglangRight
<1>1. SglangInit => YInv
  BY YInitInv
<1>2. YInv /\ [SglangNext]_yvars => YInv'
  <2> SUFFICES ASSUME YInv, [SglangNext]_yvars  PROVE YInv'
    OBVIOUS
  <2>1. ASSUME NEW r \in YRanks, YRegister(r)  PROVE YInv'
    BY <2>1, YFrame DEF YRegister
  <2>2. ASSUME NEW s \in ycfg.prefixes, YCompute(s)  PROVE YInv'
    BY <2>2, YComputeKeeps
  <2>3. CASE YDrop
    BY <2>3, YDropKeeps
  <2>4. ASSUME NEW kind \in {"set", "exists"}, NEW s \in ycfg.prefixes, YStart(kind, s)  PROVE YInv'
    BY <2>4, YStartKeeps
  <2>5. ASSUME NEW r \in YRanks, YBatchSet(r)  PROVE YInv'
    BY <2>5, YBatchSetKeeps
  <2>6. ASSUME NEW r \in YRanks, YBatchExists(r)  PROVE YInv'
    BY <2>6, YBatchExistsKeeps
  <2>7. ASSUME NEW r \in YRanks, YBatchGet(r)  PROVE YInv'
    BY <2>7, YBatchGetKeeps
  <2>8. CASE YEnd
    BY <2>8, YEndKeeps
  <2>9. ASSUME NEW b \in DOMAIN ynative, YEvict(b)  PROVE YInv'
    BY <2>9, YEvictKeeps
  <2>10. CASE UNCHANGED yvars
    BY <2>10, YFrame DEF yvars
  <2> QED BY <2>1, <2>2, <2>3, <2>4, <2>5, <2>6, <2>7, <2>8, <2>9, <2>10 DEF SglangNext
<1>3. YInv => SglangRight
  BY YInvIsRight
<1> QED BY <1>1, <1>2, <1>3, PTL DEF SglangSpec

----------------------------------------------------------------------------
(* The layers of a pipeline: the invariant, its steps, the theorem          *)

(* The stack is what the registry lists, each layer with its sizes.         *)
ZLayer(layer) == [layer |-> layer, sizes |-> ZLayerSizes(zcfg.name, layer)]
ZLayers == {ZLayer(layer) : layer \in {"Cache", "Compress", "Ds3fs", "Empty", "Fake", "Mooncake", "Posix"}}
ZStacked == zstack \in Seq(ZLayers) /\ \A i \in 1..Len(zstack) : zstack[i] = ZLayer(ZRegistry[zcfg.name][i])
ZInv ==
  /\ zcfg \in PipelineSetups /\ ZStacked
  /\ zpc = "new" => zstack = <<>>
  /\ zpc = "build" \/ zstack # <<>> =>
       zcfg.name \in DOMAIN ZRegistry /\ ~ZRefused /\ Len(zstack) <= Len(ZRegistry[zcfg.name])

(* A pipeline is a sequence of layers.                                     *)
LEMMA ZLayersAre ==
  ASSUME NEW n \in DOMAIN ZRegistry
  PROVE  Len(ZRegistry[n]) \in Nat /\ \A i \in 1..Len(ZRegistry[n]) : ZRegistry[n][i] \in {"Cache", "Compress", "Ds3fs", "Empty", "Fake", "Mooncake", "Posix"}
BY DEF ZRegistry, ZCompressing

(* Only the bottom of four pipelines is a store below another layer.        *)
LEMMA ZBelow ==
  ASSUME NEW n \in DOMAIN ZRegistry, NEW i \in 2..Len(ZRegistry[n]), ZRegistry[n][i - 1] \in {"Posix", "Ds3fs"}
  PROVE  /\ i = 2 /\ (ZRegistry[n][2] = "Compress" <=> n = ZCompressing)
         /\ n = ZCompressing => ZRegistry[n][1] = "Posix"
         /\ n # ZCompressing => n \in {"Cache|Ds3fs", "Cache|Posix", "Mooncake|Posix"}
<1>1. CASE n = "Cache|Ds3fs"
  BY <1>1 DEF ZRegistry, ZCompressing
<1>2. CASE n = "Cache|Empty"
  BY <1>2 DEF ZRegistry, ZCompressing
<1>3. CASE n = "Cache|Posix"
  BY <1>3 DEF ZRegistry, ZCompressing
<1>4. CASE n = "Cache|Fake"
  BY <1>4 DEF ZRegistry, ZCompressing
<1>5. CASE n = "Mooncake|Posix"
  BY <1>5 DEF ZRegistry, ZCompressing
<1>6. CASE n = ZCompressing
  <2>1. ZRegistry[n] = <<"Posix", "Compress", "Cache">>
    BY <1>6 DEF ZRegistry, ZCompressing
  <2>2. i = 2 \/ i = 3
    BY <2>1
  <2> QED BY <1>6, <2>1, <2>2
<1>7. CASE n \in {"Mooncake", "Posix", "Empty", "Fake"}
  <2>1. ZRegistry[n] = <<n>>
    BY <1>7 DEF ZRegistry, ZCompressing
  <2> QED BY <2>1
<1> QED BY <1>1, <1>2, <1>3, <1>4, <1>5, <1>6, <1>7 DEF ZRegistry

(* Multiples of a page and of a shard.                                      *)
LEMMA ZMultiple ==
  ASSUME NEW a \in Nat, NEW b \in Nat, b >= 1
  PROVE  /\ a % b = 0 => (a \div b) * b = a
         /\ (b * a) % b = 0 /\ (b * a) \div b = a /\ a \div b \in Nat
OBVIOUS

(* A layer's sizes are those of the shard the one above hands down.         *)
LEMMA ZSizesFit ==
  ASSUME ZInv
  PROVE  PipelineRight
<1> SUFFICES ASSUME zpc = "ready", ZWorker, ((zcfg.shard * zcfg.ratio) \div 32) % ZPage = 0,
                    NEW i \in 2..Len(zstack), zstack[i - 1].layer \in {"Posix", "Ds3fs"}
             PROVE  LET lower == zstack[i - 1].sizes
                    IN  /\ lower.tensor = ZHandsDown(i) /\ lower.shard = lower.tensor
                        /\ lower.block \div lower.shard = zcfg.block \div zcfg.shard /\ lower.block % lower.shard = 0
  BY Zenon DEF PipelineRight
<1> DEFINE n == zcfg.name
           lower == zstack[i - 1].sizes
<1>1. n \in DOMAIN ZRegistry /\ ~ZRefused /\ i \in 2..Len(ZRegistry[n]) /\ Len(zstack) \in Nat /\ zcfg \in PipelineSetups
  <2>1. zstack # <<>> /\ Len(zstack) \in Nat
    BY DEF ZInv, ZStacked
  <2> QED BY <2>1, ZLayersAre DEF ZInv
<1>2. i \in 1..Len(zstack) /\ i - 1 \in 1..Len(zstack)
  BY <1>1
<1>3. zstack[i].layer = ZRegistry[n][i] /\ zstack[i - 1].layer = ZRegistry[n][i - 1]
      /\ lower = ZLayerSizes(n, ZRegistry[n][i - 1])
  <2>1. \A j \in 1..Len(zstack) : zstack[j] = ZLayer(ZRegistry[n][j])
    BY DEF ZInv, ZStacked
  <2>2. zstack[i] = ZLayer(ZRegistry[n][i]) /\ zstack[i - 1] = ZLayer(ZRegistry[n][i - 1])
    BY <1>2, <2>1
  <2>3. \A x : ZLayer(x).layer = x /\ ZLayer(x).sizes = ZLayerSizes(n, x)
    BY DEF ZLayer
  <2> QED BY <2>2, <2>3
<1>4. /\ i = 2 /\ (ZRegistry[n][2] = "Compress" <=> n = ZCompressing)
      /\ n = ZCompressing => ZRegistry[n][1] = "Posix"
      /\ n # ZCompressing => n \in {"Cache|Ds3fs", "Cache|Posix", "Mooncake|Posix"}
  BY <1>1, <1>3, ZBelow
<1>5. PICK d \in Nat, b \in Nat, r \in Nat : d = zcfg.shard /\ d >= 1 /\ b = zcfg.block /\ r = zcfg.ratio
  BY <1>1, PipelineAssumption DEF PipelineSetup
<1>6. CASE n = ZCompressing
  <2>1. PICK x \in Nat : x = (d * r) \div 32 /\ x >= 4096
    <3>1. d * r \in Nat
      OBVIOUS
    <3> QED BY <1>1, <1>5, <1>6, <3>1, PipelineAssumption DEF PipelineSetup, ZCompressing
  <2>2. (x \div 4096) * 4096 = x
    BY <1>5, <2>1, ZMultiple DEF ZPage
  <2>3. PICK q \in Nat : q = b \div d
    BY <1>5, ZMultiple
  <2>4. lower = [tensor |-> x, shard |-> x, block |-> x * q]
    BY <1>3, <1>4, <1>5, <1>6, <2>1, <2>2, <2>3 DEF ZLayerSizes, ZUnderCompressor, ZShrunk, ZPage, ZCompressing
  <2>5. (x * q) % x = 0 /\ (x * q) \div x = q
    <3>1. x >= 1
      BY <2>1
    <3> QED BY <3>1, ZMultiple, Zenon
  <2>6. ZHandsDown(i) = x
    BY <1>3, <1>4, <1>5, <1>6, <2>1 DEF ZHandsDown
  <2> QED BY <1>5, <2>3, <2>4, <2>5, <2>6
<1>7. CASE n # ZCompressing
  <2>1. b % d = 0
    BY <1>1, <1>5, <1>7, PipelineAssumption DEF PipelineSetup, ZCompressing
  <2>2. lower = ZUnderCache
    BY <1>3, <1>4, <1>7 DEF ZLayerSizes
  <2>3. lower.tensor = d /\ lower.shard = d /\ lower.block = b
    BY <1>5, <2>2 DEF ZUnderCache, ZSizes
  <2>4. ZHandsDown(i) = d
    BY <1>3, <1>4, <1>5, <1>7 DEF ZHandsDown
  <2> QED BY <1>5, <2>1, <2>3, <2>4
<1> QED BY <1>6, <1>7

(* Each layer is put on top of those below it.                              *)
LEMMA ZStep ==
  ASSUME ZInv, [PipelineNext]_zvars
  PROVE  ZInv'
<1>a. ASSUME zcfg' = zcfg
      PROVE  (ZRefused' <=> ZRefused) /\ ZLayers' = ZLayers /\ \A x : ZLayer(x)' = ZLayer(x)
  BY <1>a DEF ZRefused, ZWorker, ZLayers, ZLayer, ZLayerSizes, ZUnderCache, ZUnderCompressor, ZShrunk, ZSizes
<1>1. CASE ZNew
  <2>1. zcfg' = zcfg /\ zstack' = <<>> /\ (zpc' = "build" => zcfg.name \in DOMAIN ZRegistry /\ ~ZRefused)
    BY <1>1 DEF ZInv, ZNew
  <2>2. zpc' = "build" => Len(zstack') <= Len(ZRegistry[zcfg.name])
    BY <2>1, ZLayersAre
  <2>3. zstack' \in Seq(ZLayers) /\ Len(zstack') = 0
    BY <2>1
  <2> QED BY <1>a, <2>1, <2>2, <2>3 DEF ZInv, ZStacked
<1>2. CASE ZStack
  <2> DEFINE n == zcfg.name
             k == Len(zstack)
             top == ZLayer(ZRegistry[n][k + 1])
  <2>1. /\ zcfg' = zcfg /\ zpc = "build" /\ zpc' # "new" /\ zstack' = Append(zstack, top) /\ k < Len(ZRegistry[n])
        /\ n \in DOMAIN ZRegistry /\ ~ZRefused /\ zstack \in Seq(ZLayers)
    BY <1>2 DEF ZInv, ZStack, ZStacked, ZLayer
  <2>2. k \in Nat /\ Len(ZRegistry[n]) \in Nat /\ k + 1 \in 1..Len(ZRegistry[n])
    BY <2>1, ZLayersAre
  <2>3. top \in ZLayers
    BY <2>1, <2>2, ZLayersAre DEF ZLayers
  <2> HIDE DEF top
  <2>4. /\ zstack' \in Seq(ZLayers) /\ Len(zstack') = k + 1 /\ zstack'[k + 1] = top
        /\ \A i \in 1..k : zstack'[i] = zstack[i]
    BY <2>1, <2>2, <2>3
  <2>5. \A i \in 1..Len(zstack') : zstack'[i] = ZLayer(ZRegistry[n][i])
    <3>1. \A i \in 1..k : zstack[i] = ZLayer(ZRegistry[n][i])
      BY DEF ZInv, ZStacked
    <3>2. \A i \in 1..Len(zstack') : i \in 1..k \/ i = k + 1
      BY <2>2, <2>4
    <3> QED BY <2>4, <3>1, <3>2 DEF top
  <2>6. ZStacked'
    BY <1>a, <2>1, <2>4, <2>5 DEF ZStacked
  <2> QED BY <1>a, <2>1, <2>2, <2>4, <2>6 DEF ZInv
<1>3. CASE UNCHANGED zvars
  BY <1>3, <1>a DEF ZInv, zvars, ZStacked
<1> QED BY <1>1, <1>2, <1>3 DEF PipelineNext

(* For every size of tensors, shards and blocks of which a shard is a part, *)
(* and every ratio that leaves a compressed shard a page: each pipeline     *)
(* UcmPipelineStoreBuilder registers gives a store below another layer the  *)
(* size that layer hands it for a shard, and room for all of a block.       *)
THEOREM PipelineHolds == PipelineSpec => []PipelineRight
<1>1. PipelineInit => ZInv
  <2>1. <<>> \in Seq(ZLayers) /\ Len(<<>>) = 0
    OBVIOUS
  <2> QED BY <2>1 DEF PipelineInit, ZInv, ZStacked
<1>2. ZInv /\ [PipelineNext]_zvars => ZInv'
  BY ZStep
<1>3. ZInv => PipelineRight
  BY ZSizesFit
<1> QED BY <1>1, <1>2, <1>3, PTL DEF PipelineSpec
=============================================================================
