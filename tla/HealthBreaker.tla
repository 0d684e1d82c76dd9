---------------------------- MODULE HealthBreaker ----------------------------
(***************************************************************************)
(* The breaker before a store (store/pipeline/cc/health_breaker_store.cc): *)
(* a probe thread and callers check the health of the store in worker      *)
(* threads (detail/health_check_executor.h), give up after a timeout and   *)
(* record the result in a window, which opens and closes the breaker.      *)
(* What the store answers, and when, is external.                          *)
(***************************************************************************)
EXTENDS Integers, Sequences, FiniteSets

CONSTANT BreakerSetups

\* What Start accepts.
ASSUME BreakerAssumption ==
  \A c \in BreakerSetups : /\ c.window \in Nat \ {0} /\ c.threshold \in 1 .. c.window
                           /\ c.limit \in Nat \ {0}

VARIABLES
  kcfg,   \* healthWindowSize, failureThreshold, kMaxInFlight, threads and how often they check
  kth,    \* threads in CheckHealth: where they are, their worker, the result
  kwork,  \* workers_: "run" or "done"
  kwin,   \* healthResults_
  kfail,  \* failureCount_
  kon,    \* enabled_
  klog,   \* all results in the order of RecordHealth
  kpc     \* "up", "stop" once Stop has set stop_, "gone" after the destructor, or "off"

kvars == <<kcfg, kth, kwork, kwin, kfail, kon, klog, kpc>>

KThreads == DOMAIN kcfg.checks

BreakerInit ==
  /\ kcfg \in BreakerSetups
  /\ kth = [t \in KThreads |-> [pc |-> "idle", w |-> 0, ok |-> FALSE, left |-> kcfg.checks[t]]]
  /\ kwork = <<>> /\ kwin = <<>> /\ kfail = 0 /\ kon = TRUE /\ klog = <<>> /\ kpc = "up"

\* ReapFinished: workers that are done are joined and forgotten.
KReaped == {w \in DOMAIN kwork : kwork[w] = "run"}
KKept(ws) == [w \in ws |-> kwork[w]]
KFresh == CHOOSE w \in 1..Cardinality(KThreads) + kcfg.limit + 1 :
            w \notin DOMAIN kwork /\ \A t \in KThreads : kth[t].w # w

\* Run of the executor up to the wait; the probe thread starts no check once stop_ is set.
KRun(t) ==
  /\ kth[t].pc = "idle" /\ kth[t].left > 0 /\ (kpc = "up" \/ (kpc = "stop" /\ t # "probe"))
  /\ IF Cardinality(KReaped) >= kcfg.limit
     THEN /\ kth' = [kth EXCEPT ![t].pc = "record", ![t].ok = FALSE, ![t].left = @ - 1]
          /\ kwork' = KKept(KReaped)
     ELSE /\ kth' = [kth EXCEPT ![t].pc = "wait", ![t].w = KFresh, ![t].left = @ - 1]
          /\ kwork' = [w \in KReaped \cup {KFresh} |-> "run"]
  /\ UNCHANGED <<kcfg, kwin, kfail, kon, klog, kpc>>

\* store_->CheckHealth returns or throws in its worker, sooner or later.  Who waits for it sees the
\* state of the worker also after the worker was reaped.
KCheckEnds(w) ==
  /\ kwork[w] = "run"
  /\ \E ok \in BOOLEAN :
       /\ kwork' = [kwork EXCEPT ![w] = "done"]
       /\ kth' = [t \in KThreads |-> IF kth[t].pc = "wait" /\ kth[t].w = w
                                     THEN [kth[t] EXCEPT !.pc = "done", !.ok = ok] ELSE kth[t]]
  /\ UNCHANGED <<kcfg, kwin, kfail, kon, klog, kpc>>

\* The wait ends in time: the result of the worker, which is reaped.
KReturns(t) ==
  /\ kth[t].pc = "done"
  /\ kth' = [kth EXCEPT ![t].pc = "record", ![t].w = 0]
  /\ kwork' = KKept(KReaped)
  /\ UNCHANGED <<kcfg, kwin, kfail, kon, klog, kpc>>

\* The wait ends by timeout: the worker stays.
KTimesOut(t) ==
  /\ kth[t].pc = "wait"
  /\ kth' = [kth EXCEPT ![t].pc = "record", ![t].w = 0, ![t].ok = FALSE]
  /\ UNCHANGED <<kcfg, kwork, kwin, kfail, kon, klog, kpc>>

(* Mutant of RecordHealth: the failure that leaves the window stays counted. *)
RecordHealthCountsUp(t) ==
  LET ok   == kth[t].ok
      full == Len(kwin) = kcfg.window
      fail == kfail + (IF ok THEN 0 ELSE 1)
  IN  /\ kth[t].pc = "record" /\ kth' = [kth EXCEPT ![t].pc = "idle"]
      /\ kwin' = Append(IF full THEN Tail(kwin) ELSE kwin, ok)
      /\ kfail' = fail
      /\ kon' = IF kon THEN fail < kcfg.threshold ELSE Len(kwin') = kcfg.window /\ fail = 0
      /\ klog' = Append(klog, ok)
      /\ UNCHANGED <<kcfg, kwork, kpc>>

\* RecordHealth, under healthMutex_.
RecordHealth(t) ==
  LET ok   == kth[t].ok
      full == Len(kwin) = kcfg.window
      fail == kfail - (IF full /\ ~Head(kwin) THEN 1 ELSE 0) + (IF ok THEN 0 ELSE 1)
  IN  /\ kth[t].pc = "record" /\ kth' = [kth EXCEPT ![t].pc = "idle"]
      /\ kwin' = Append(IF full THEN Tail(kwin) ELSE kwin, ok)
      /\ kfail' = fail
      /\ kon' = IF kon THEN fail < kcfg.threshold ELSE Len(kwin') = kcfg.window /\ fail = 0
      /\ klog' = Append(klog, ok)
      /\ UNCHANGED <<kcfg, kwork, kpc>>

\* Stop, and the destructor: the probe thread has ended, then the executor joins its workers.
\* Callers have returned before the store is destroyed.
KStop ==
  /\ kpc = "up" /\ kpc' = "stop"
  /\ UNCHANGED <<kcfg, kth, kwork, kwin, kfail, kon, klog>>
KDestroyed ==
  /\ kpc = "stop" /\ \A t \in KThreads : kth[t].pc = "idle" /\ (t # "probe" => kth[t].left = 0)
  /\ KReaped = {} /\ kwork' = <<>> /\ kpc' = "gone"
  /\ UNCHANGED <<kcfg, kth, kwin, kfail, kon, klog>>
BreakerDone == kpc = "gone" /\ UNCHANGED kvars

BreakerNext ==
  \/ \E t \in KThreads : KRun(t) \/ KReturns(t) \/ KTimesOut(t) \/ RecordHealth(t)
  \/ \E w \in DOMAIN kwork : KCheckEnds(w)
  \/ KStop \/ KDestroyed \/ BreakerDone

BreakerSpec == BreakerInit /\ [][BreakerNext]_kvars

----------------------------------------------------------------------------
\* The window after the first i results, the failures in it, and whether it opens or closes the
\* breaker.
KFirst(i)    == IF i > kcfg.window THEN i - kcfg.window + 1 ELSE 1
KFailures(i) == {k \in KFirst(i) .. i : ~klog[k]}
KBad(i)      == Cardinality(KFailures(i)) >= kcfg.threshold
KGood(i)     == i >= kcfg.window /\ KFailures(i) = {}

\* Whatever the probe and callers record in between: the breaker is open exactly when some window
\* had too many failures and no later window was full of successes, the count is that of the
\* window, hung checks never occupy more threads than allowed, and none outlives the store.
KOpened == \E i \in 1 .. Len(klog) : KBad(i) /\ \A j \in i + 1 .. Len(klog) : ~KGood(j)
BreakerRight ==
  kpc # "off" =>
    /\ kwin = SubSeq(klog, KFirst(Len(klog)), Len(klog)) /\ kfail = Cardinality(KFailures(Len(klog)))
    /\ kon <=> ~KOpened
    /\ Cardinality(DOMAIN kwork) <= kcfg.limit
    /\ kpc = "gone" => kwork = <<>> /\ \A t \in KThreads : kth[t].pc = "idle"
=============================================================================
