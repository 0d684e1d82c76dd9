---------------------------- MODULE MooncakeStore ----------------------------
(***************************************************************************)
(* UcmMooncakeStore: load and dump run as coroutines on the event loop of  *)
(* a thread of the store; wait takes the future of a task from a table,    *)
(* and shutdown empties the table, stops the loop and closes the store.    *)
(*                                                                         *)
(* A client makes one call: lookup, then load or dump of a list of keys    *)
(* (block and offset), then wait.  The coroutines never await, so each     *)
(* runs to its end in one turn of the loop; other threads run between the  *)
(* blocks it moves.  The Mooncake client and asyncio are external.         *)
(***************************************************************************)
EXTENDS Integers, Sequences, FiniteSets, SequencesExt, TLC

CONSTANT MooncakeSetups

\* Clients have names other than 0 and give lists of keys.
ASSUME MooncakeAssumption ==
  \A s \in MooncakeSetups : \A c \in DOMAIN s.calls :
    c # 0 /\ Len(s.calls[c].keys) \in Nat /\ DOMAIN s.calls[c].keys = 1..Len(s.calls[c].keys)

VARIABLES
  ocfg,    \* the setup, fixed: the call of every client and the faults allowed
  opc,     \* client -> where its call is
  oflag,   \* _shutting_down
  otid,    \* task_id: last task number given
  otasks,  \* tasks: task number -> future (named by its client)
  oid,     \* client -> number of its task, 0 before it has one
  ofut,    \* client -> its future: "none", "pending", "cancelled" or the result
  oq,      \* handles of the loop that are ready, in order
  oturn,   \* handles left in this turn of the loop
  ocur,    \* coroutine that runs: client and next index, or nobody
  oloop,   \* loop and its thread: "run", "stopping", "stopped" or "closed"
  oshut,   \* where shutdown is
  otodo,   \* futures shutdown has still to cancel
  okeys,   \* keys the Mooncake cluster holds
  oclosed, \* store.close() was called
  odst,    \* client -> per position, the key whose data its tensor holds
  oput,    \* client -> keys its dump has put
  oret,    \* client -> what wait returned
  oknown,  \* client -> every key of its call was there when it was made
  ofaults  \* faults left, and whether any has struck

oloops  == <<oq, oturn, ocur, oloop>>
oshuts  == <<oflag, oshut, otodo, oclosed>>
ocalls  == <<opc, otid, oid, oret, oknown>>
odata   == <<okeys, odst, oput>>
ovars   == <<ocfg, oloops, oshuts, ocalls, odata, otasks, ofut, ofaults>>

ONobody   == [c |-> 0, i |-> 0]
OClients  == DOMAIN ocfg.calls
OKeys(c)  == ocfg.calls[c].keys
OLoads(c) == ocfg.calls[c].kind = "load"
OHandle(h, c) == [h |-> h, c |-> c, ret |-> 0]

MooncakeInit ==
  /\ ocfg \in MooncakeSetups
  /\ opc = [c \in OClients |-> "new"] /\ oid = [c \in OClients |-> 0] /\ otid = 0
  /\ otasks = <<>> /\ ofut = [c \in OClients |-> "none"]
  /\ oq = <<>> /\ oturn = 0 /\ ocur = ONobody /\ oloop = "run"
  /\ oflag = FALSE /\ oshut = "none" /\ otodo = {} /\ oclosed = FALSE
  /\ okeys = ocfg.held /\ odst = [c \in OClients |-> [i \in DOMAIN OKeys(c) |-> <<>>]]
  /\ oput = [c \in OClients |-> {}]
  /\ oret = [c \in OClients |-> "none"] /\ oknown = [c \in OClients |-> FALSE]
  /\ ofaults = [left |-> ocfg.faults, struck |-> FALSE]

----------------------------------------------------------------------------
(* Calls. *)

\* lookup looks at the flag, then asks for offset 0 of each block; the connectors call load for
\* the blocks it finds.  Nothing keeps the shutdown from closing the store in between: then
\* nothing is found.
OFound(b) == <<b, 0>> \in okeys /\ ~oclosed
OLookup(c) ==
  /\ opc[c] = "new" /\ opc' = [opc EXCEPT ![c] = IF oflag THEN "raised" ELSE "ask"]
  /\ UNCHANGED <<ocfg, oloops, oshuts, otid, oid, oret, oknown, odata, otasks, ofut, ofaults>>
OAsk(c) ==
  /\ opc[c] = "ask"
  /\ opc' = [opc EXCEPT ![c] = IF OLoads(c) /\ \E k \in Range(OKeys(c)) : ~OFound(k[1])
                               THEN "miss" ELSE "call"]
  /\ UNCHANGED <<ocfg, oloops, oshuts, otid, oid, oret, oknown, odata, otasks, ofut, ofaults>>

\* load and dump refuse once the store shuts down.
OCall(c) ==
  /\ opc[c] = "call"
  /\ opc' = [opc EXCEPT ![c] = IF oflag THEN "raised" ELSE "post"]
  /\ oknown' = [oknown EXCEPT ![c] = Range(OKeys(c)) \subseteq okeys]
  /\ UNCHANGED <<ocfg, oloops, oshuts, otid, oid, oret, odata, otasks, ofut, ofaults>>

\* run_coroutine_threadsafe: posts a handle that starts the coroutine, unless the loop is closed.
OPost(c) ==
  /\ opc[c] = "post"
  /\ IF oloop = "closed"
     THEN /\ opc' = [opc EXCEPT ![c] = "raised"] /\ UNCHANGED <<ofut, oq>>
     ELSE /\ opc' = [opc EXCEPT ![c] = "register"]
          /\ ofut' = [ofut EXCEPT ![c] = "pending"] /\ oq' = Append(oq, OHandle("start", c))
  /\ UNCHANGED <<ocfg, oturn, ocur, oloop, oshuts, otid, oid, oret, oknown, odata, otasks, ofaults>>

\* Under the lock: the number of the task and its place in the table.
ORegister(c) ==
  /\ opc[c] = "register" /\ opc' = [opc EXCEPT ![c] = "pop"]
  /\ otid' = otid + 1 /\ oid' = [oid EXCEPT ![c] = otid']
  /\ otasks' = [t \in DOMAIN otasks \union {otid'} |-> IF t = otid' THEN c ELSE otasks[t]]
  /\ UNCHANGED <<ocfg, oloops, oshuts, oret, oknown, odata, ofut, ofaults>>

\* wait: the task leaves the table; one that is not there is an invalid task.
OWaitPop(c) ==
  /\ opc[c] = "pop"
  /\ IF oid[c] \in DOMAIN otasks
     THEN /\ opc' = [opc EXCEPT ![c] = "wait"] /\ UNCHANGED oret
          /\ otasks' = [t \in DOMAIN otasks \ {oid[c]} |-> otasks[t]]
     ELSE /\ opc' = [opc EXCEPT ![c] = "done"] /\ oret' = [oret EXCEPT ![c] = "invalid"] /\ UNCHANGED otasks
  /\ UNCHANGED <<ocfg, oloops, oshuts, otid, oid, oknown, odata, ofut, ofaults>>

\* The result of the future; a cancelled one, an exception and an error code are all failures.
OWaited(c) == IF ofut[c] = "ok" THEN "ok" ELSE "failed"
OWaitReturns(c) ==
  /\ opc[c] = "wait" /\ ofut[c] # "pending"
  /\ opc' = [opc EXCEPT ![c] = "done"] /\ oret' = [oret EXCEPT ![c] = OWaited(c)]
  /\ UNCHANGED <<ocfg, oloops, oshuts, otid, oid, oknown, odata, otasks, ofut, ofaults>>

\* After TIMEOUT_S_THR: the future is cancelled, which stops no coroutine (see OLoopStart).
OWaitTimesOut(c) ==
  /\ opc[c] = "wait" /\ ofut[c] = "pending"
  /\ oloop \in {"run", "stopping"} => ofaults.left > 0
  /\ ofaults' = IF oloop \in {"run", "stopping"} THEN [left |-> ofaults.left - 1, struck |-> TRUE] ELSE ofaults
  /\ ofut' = [ofut EXCEPT ![c] = "cancelled"]
  /\ opc' = [opc EXCEPT ![c] = "done"] /\ oret' = [oret EXCEPT ![c] = "timeout"]
  /\ UNCHANGED <<ocfg, oloops, oshuts, otid, oid, oknown, odata, otasks>>

----------------------------------------------------------------------------
(* The loop: a turn takes the handles that were ready when it began. *)

OLoopTurn ==
  /\ oloop \in {"run", "stopping"} /\ ocur = ONobody /\ oturn = 0
  /\ IF oloop = "stopping" THEN oloop' = "stopped" /\ UNCHANGED oturn
                           ELSE oq # <<>> /\ oturn' = Len(oq) /\ UNCHANGED oloop
  /\ UNCHANGED <<ocfg, oq, ocur, oshuts, ocalls, odata, otasks, ofut, ofaults>>

OReady(h) == /\ oloop \in {"run", "stopping"} /\ ocur = ONobody /\ oturn > 0 /\ Head(oq).h = h
             /\ oturn' = oturn - 1

\* The task of the coroutine is created and its first step queued; a cancellation is queued behind
\* that step, at once or later, and finds the task over.
OLoopStart ==
  /\ OReady("start") /\ oq' = Append(Tail(oq), OHandle("step", Head(oq).c))
  /\ UNCHANGED <<ocfg, ocur, oloop, oshuts, ocalls, odata, otasks, ofut, ofaults>>
OLoopStep ==
  /\ OReady("step") /\ ocur' = [c |-> Head(oq).c, i |-> 1] /\ oq' = Tail(oq)
  /\ UNCHANGED <<ocfg, oloop, oshuts, ocalls, odata, otasks, ofut, ofaults>>
\* The end of the task is passed on to the future, unless that was cancelled.
OLoopResult ==
  /\ OReady("result") /\ oq' = Tail(oq)
  /\ ofut' = IF ofut[Head(oq).c] = "pending" THEN [ofut EXCEPT ![Head(oq).c] = Head(oq).ret] ELSE ofut
  /\ UNCHANGED <<ocfg, ocur, oloop, oshuts, ocalls, odata, otasks, ofaults>>
OLoopStop ==
  /\ OReady("stop") /\ oloop' = "stopping" /\ oq' = Tail(oq)
  /\ UNCHANGED <<ocfg, ocur, oshuts, ocalls, odata, otasks, ofut, ofaults>>

OEnds(c, ret) == ocur' = ONobody /\ oq' = Append(oq, [h |-> "result", c |-> c, ret |-> ret])

\* Mutant of OMissing: the load goes on with the next block.
OMissingIgnored(c) == ocur' = [ocur EXCEPT !.i = @ + 1] /\ UNCHANGED oq
\* _load_impl: the next block; one that is not there ends the load with 1.
OMissing(c) == OEnds(c, "error")
OLoadImpl(c) ==
  /\ ocur.c = c /\ c # 0 /\ OLoads(c)
  /\ LET i == ocur.i  k == OKeys(c)[i] IN
       IF i > Len(OKeys(c)) THEN OEnds(c, "ok") /\ UNCHANGED odst
       ELSE IF k \in okeys THEN /\ odst' = [odst EXCEPT ![c][i] = k]
                                /\ ocur' = [ocur EXCEPT !.i = @ + 1] /\ UNCHANGED oq
       ELSE OMissing(c) /\ UNCHANGED odst
  /\ UNCHANGED <<ocfg, oturn, oloop, oshuts, ocalls, okeys, oput, otasks, ofut, ofaults>>

\* _dump_impl: the next block.
ODumpImpl(c) ==
  /\ ocur.c = c /\ c # 0 /\ ~OLoads(c)
  /\ LET i == ocur.i  k == OKeys(c)[i] IN
       IF i > Len(OKeys(c)) THEN OEnds(c, "ok") /\ UNCHANGED <<okeys, oput>>
       ELSE /\ okeys' = okeys \union {k} /\ oput' = [oput EXCEPT ![c] = @ \union {k}]
            /\ ocur' = [ocur EXCEPT !.i = @ + 1] /\ UNCHANGED oq
  /\ UNCHANGED <<ocfg, oturn, oloop, oshuts, ocalls, odst, otasks, ofut, ofaults>>

\* get or put raises, a shape does not fit, or put returns an error: the coroutine ends, what it
\* moved before stays.
OImplFails(c) ==
  /\ ocur.c = c /\ c # 0 /\ ocur.i <= Len(OKeys(c)) /\ ofaults.left > 0
  /\ OEnds(c, "error") /\ ofaults' = [left |-> ofaults.left - 1, struck |-> TRUE]
  /\ UNCHANGED <<ocfg, oturn, oloop, oshuts, ocalls, odata, otasks, ofut>>

\* The cluster evicts an object.
OEvict(k) ==
  /\ k \in okeys /\ ofaults.left > 0 /\ ~oclosed
  /\ okeys' = okeys \ {k} /\ ofaults' = [left |-> ofaults.left - 1, struck |-> TRUE]
  /\ UNCHANGED <<ocfg, oloops, oshuts, ocalls, odst, oput, otasks, ofut>>

----------------------------------------------------------------------------
(* shutdown, called once or by __del__. *)

OShutdown ==
  /\ ocfg.shutdown /\ oshut = "none" /\ oflag' = TRUE /\ oshut' = "clear"
  /\ UNCHANGED <<ocfg, oloops, otodo, oclosed, ocalls, odata, otasks, ofut, ofaults>>
OShutClear ==
  /\ oshut = "clear" /\ oshut' = "cancel"
  /\ otodo' = Range(otasks) /\ otasks' = <<>>
  /\ UNCHANGED <<ocfg, oloops, oflag, oclosed, ocalls, odata, ofut, ofaults>>
OShutCancel ==
  /\ oshut = "cancel"
  /\ IF otodo # {}
     THEN \E c \in otodo :
            /\ ofut' = IF ofut[c] = "pending" THEN [ofut EXCEPT ![c] = "cancelled"] ELSE ofut
            /\ otodo' = otodo \ {c} /\ UNCHANGED <<oshut, oq>>
     ELSE oq' = Append(oq, OHandle("stop", 0)) /\ oshut' = "join" /\ UNCHANGED <<otodo, ofut>>
  /\ UNCHANGED <<ocfg, oturn, ocur, oloop, oflag, oclosed, ocalls, odata, otasks, ofaults>>
\* The thread of the loop is joined first.
OJoined == oloop = "stopped"
OShutClose ==
  /\ oshut = "join" /\ OJoined
  /\ oloop' = "closed" /\ oclosed' = TRUE /\ oshut' = "end"
  /\ UNCHANGED <<ocfg, oq, oturn, ocur, oflag, otodo, ocalls, odata, otasks, ofut, ofaults>>

MooncakeNext ==
  \/ \E c \in OClients : OLookup(c) \/ OAsk(c)
  \/ \E c \in OClients : OCall(c)
  \/ \E c \in OClients : OPost(c)
  \/ \E c \in OClients : ORegister(c)
  \/ \E c \in OClients : OWaitPop(c)
  \/ \E c \in OClients : OWaitReturns(c)
  \/ \E c \in OClients : OWaitTimesOut(c)
  \/ OLoopTurn
  \/ OLoopStart
  \/ OLoopStep
  \/ OLoopResult
  \/ OLoopStop
  \/ \E c \in OClients : OLoadImpl(c)
  \/ \E c \in OClients : ODumpImpl(c)
  \/ \E c \in OClients : OImplFails(c)
  \/ \E k \in UNION {Range(OKeys(c)) : c \in OClients} : OEvict(k)
  \/ OShutdown
  \/ OShutClear
  \/ OShutCancel
  \/ OShutClose
  \/ (\A c \in OClients : opc[c] \in {"raised", "miss", "done"}) /\ UNCHANGED ovars

MooncakeSpec == MooncakeInit /\ [][MooncakeNext]_ovars

----------------------------------------------------------------------------
(* A wait that returns 0 means that every block of the load is in its      *)
(* tensor, or that every block of the dump was put; one that fails has a   *)
(* reason other than the order in which threads ran: a block that was not  *)
(* there, a fault, or the shutdown.                                        *)
OWaitRight(c) ==
  /\ oret[c] = "ok" => IF OLoads(c) THEN \A i \in DOMAIN OKeys(c) : odst[c][i] = OKeys(c)[i]
                                    ELSE oput[c] = Range(OKeys(c))
  /\ oret[c] \notin {"none", "ok"} => ofaults.struck \/ oflag \/ (OLoads(c) /\ ~oknown[c])
(* Once the store is closed no coroutine that uses it runs or is going to. *)
OClosedUnused == oclosed => ocur = ONobody /\ oloop = "closed"

(* UcmMooncakeStore: waits tell the truth and the store is closed last.    *)
MooncakeRight == oloop # "off" => (\A c \in OClients : OWaitRight(c)) /\ OClosedUnused
=============================================================================
