----------------------------- MODULE PosixStore -----------------------------
(***************************************************************************)
(* The store of block files (store/posix/cc) with its synchronous I/O      *)
(* engine, for processes that share a directory.  A task is cut into shard *)
(* I/Os, which the workers of a thread pool take from a queue; the worker  *)
(* of a block's last shard commits the block by renaming its .tmp file.    *)
(* A monitor abandons workers that take too long, a Wait that expires      *)
(* purges the queue.  Beside them run the parallel prefix lookup and the   *)
(* garbage collector.                                                      *)
(*                                                                         *)
(* A file has a name and an inode: who has opened a file keeps the inode   *)
(* when the name is moved or removed.  An inode holds the shards that were *)
(* written to it; a shard below the last one that is missing is a hole.    *)
(* The file system is external.  The AIO engine is not modelled.           *)
(***************************************************************************)
EXTENDS Integers, Sequences, FiniteSets, SequencesExt, FiniteSetsExt, TLC

CONSTANT PosixSetups

\* Blocks have at least one shard and lookups one worker; shards are numbered from 0.
PosixSetup(c) ==
  /\ c.nShardPerBlock \in Nat \ {0} /\ c.lookupConcurrency \in Nat \ {0}
  /\ c.stored \in Seq(c.blocks) /\ c.lookup \in Seq(c.blocks)
  /\ \A j \in DOMAIN c.jobs : /\ c.jobs[j].kind \in {"load", "dump"}
                             /\ c.jobs[j].ios \in Seq(c.blocks \X (0..c.nShardPerBlock - 1))
ASSUME PosixAssumption == \A c \in PosixSetups : PosixSetup(c)

VARIABLES
  fcfg,    \* the setup
  fjob,    \* tasks: their state for the caller, the count of their latch and their turn
  ffail,   \* failureSet_
  fq,      \* the wait queues: I/Os <<task, position>>, in order of turn and position
  fwork,   \* what workers do, by I/O
  fino,    \* inodes: the shards they hold
  fdir,    \* names: tmp and arch (committed) give an inode, or 0
  fmem,    \* memory of loads: what was read into each position
  fgc,     \* files the collector is about to remove
  flook,   \* a prefix lookup
  fstruck, \* faults that have happened
  fpc      \* "off" where the store is not part of the deployment

fvars == <<fcfg, fjob, ffail, fq, fwork, fino, fdir, fmem, fgc, flook, fstruck, fpc>>
ffiles == <<fino, fdir>>

FJobs      == DOMAIN fcfg.jobs
FKind(j)   == fcfg.jobs[j].kind
FProc(j)   == fcfg.jobs[j].proc
FIos(j)    == fcfg.jobs[j].ios
FIo(io)    == FIos(io[1])[io[2]]
FBlock(io) == FIo(io)[1]
FShard(io) == FIo(io)[2]
FBlocks    == fcfg.blocks
FPool(j)   == <<FProc(j), FKind(j)>>
FSeen(b)   == IF b \in Range(fcfg.stored) THEN CHOOSE i \in DOMAIN fcfg.stored : fcfg.stored[i] = b ELSE 0
FLast(io)  == FShard(io) + 1 = fcfg.nShardPerBlock
FMay(f)    == f \in fcfg.faults /\ Cardinality(fstruck) < fcfg.nfaults
FNoLookup  == [pc |-> "none", at |-> <<>>, late |-> FALSE, firstFail |-> 0, ever |-> {}, gap |-> {}]
FPresent(d) == {b \in FBlocks : d.arch[b] # 0}

PosixInit ==
  /\ fcfg \in PosixSetups
  /\ fjob = [j \in FJobs |-> [st |-> "new", left |-> 0, turn |-> 0]]
  /\ ffail = {} /\ fq = {} /\ fwork = <<>>
  /\ fino = [i \in DOMAIN fcfg.stored |-> 0..fcfg.nShardPerBlock - 1]
  /\ fdir = [tmp |-> [b \in FBlocks |-> 0], arch |-> [b \in FBlocks |-> FSeen(b)]]
  /\ fmem = [j \in FJobs |-> [k \in DOMAIN FIos(j) |-> "old"]]
  /\ fgc = <<>> /\ flook = FNoLookup /\ fstruck = {} /\ fpc = "on"

\* A lookup in progress sees the names change.
FWatch(d) == IF flook.pc = "run"
             THEN [flook EXCEPT !.ever = @ \union FPresent(d), !.gap = @ \union (FBlocks \ FPresent(d))]
             ELSE flook

----------------------------------------------------------------------------
(* Tasks, latch and queue. *)

FDone(jobs, j) == [jobs EXCEPT ![j].left = IF @ > 0 THEN @ - 1 ELSE 0]

\* Tasks enter the queue of their pool one behind the other.
FQueue(j)  == {io \in fq : io[1] = j}
FTurn(j)   == 1 + Max({0} \union {fjob[io[1]].turn : io \in {io \in fq : FPool(io[1]) = FPool(j)}})
FWaits(j)  == {<<j, k>> : k \in DOMAIN FIos(j)}
\* The queues without some tasks.
FPurged(late) == {io \in fq : io[1] \notin late}

Submit(j) ==
  /\ fjob[j].st = "new"
  /\ fjob' = [fjob EXCEPT ![j] = [st |-> "wait", left |-> Len(FIos(j)), turn |-> FTurn(j)]]
  /\ fq' = fq \union FWaits(j)
  /\ UNCHANGED <<fcfg, ffail, fwork, ffiles, fmem, fgc, flook, fstruck, fpc>>

FReturn(j, result) ==
  /\ fjob' = [fjob EXCEPT ![j].st = result]
  /\ ffail' = ffail \ {j}
  /\ UNCHANGED <<fcfg, fq, fwork, ffiles, fmem, fgc, flook, fstruck, fpc>>

Wait(j) ==
  /\ fjob[j].left = 0
  /\ \/ fjob[j].st = "wait" /\ FReturn(j, IF j \in ffail THEN "failed" ELSE "ok")
     \/ fjob[j].st = "drain" /\ FReturn(j, "timeout")

\* Cancel: OnIoUnitTimeout of the queued I/Os of the task and of others whose time is over, as
\* one step, or of none when another Wait has taken the queue away or a younger task stands
\* before them; then the drain.
FQueued(j) == Cardinality(FQueue(j))
WaitExpires(j) ==
  /\ fjob[j].st = "wait" /\ fjob[j].left > 0 /\ FMay("timeout")
  /\ \E late \in {{}} \union {{j} \union o : o \in SUBSET {k \in FJobs : FPool(k) = FPool(j) /\ FQueued(k) > 0}} :
       /\ fjob' = [k \in FJobs |-> [st   |-> IF k = j THEN "drain" ELSE fjob[k].st,
                                   left |-> IF k \notin late THEN fjob[k].left
                                            ELSE IF fjob[k].left > FQueued(k) THEN fjob[k].left - FQueued(k) ELSE 0,
                                   turn |-> fjob[k].turn]]
       /\ ffail' = ffail \union {j} \union late
       /\ fq' = FPurged(late)
  /\ fstruck' = fstruck \union {<<"timeout", j>>}
  /\ UNCHANGED <<fcfg, fwork, ffiles, fmem, fgc, flook, fpc>>

----------------------------------------------------------------------------
(* Workers: LoadWorker and DumpWorker. *)

FBusy(pool) == {io \in DOMAIN fwork : FPool(io[1]) = pool /\ ~fwork[io].left}
FStep(io, pc) == fwork' = [fwork EXCEPT ![io].pc = pc]
FTaken(io)  == [x \in DOMAIN fwork \union {io} |->
                  IF x = io THEN [pc |-> "open", fd |-> 0, ok |-> TRUE, left |-> FALSE] ELSE fwork[x]]
FEnded(io)  == [x \in DOMAIN fwork \ {io} |-> fwork[x]]

\* The head of a queue: tasks in the order of their turns, a task's I/Os in their own.
FBefore(x, y) ==
  /\ FPool(x[1]) = FPool(y[1])
  /\ fjob[x[1]].turn < fjob[y[1]].turn \/ (x[1] = y[1] /\ x[2] < y[2])

TakeIo(io) ==
  /\ \A x \in fq : ~FBefore(x, io)
  /\ Cardinality(FBusy(FPool(io[1]))) < fcfg.conc
  /\ fq' = fq \ {io}
  /\ IF io[1] \in ffail
     THEN fjob' = FDone(fjob, io[1]) /\ UNCHANGED fwork
     ELSE fwork' = FTaken(io) /\ UNCHANGED fjob
  /\ UNCHANGED <<fcfg, ffail, ffiles, fmem, fgc, flook, fstruck, fpc>>

\* Open of H2S and S2H: a dump creates the .tmp file unless it is there.
OpenFile(io) ==
  LET b == FBlock(io)
      dump == FKind(io[1]) = "dump"
      new == dump /\ fdir.tmp[b] = 0
      fd == IF new THEN Len(fino) + 1 ELSE IF dump THEN fdir.tmp[b] ELSE fdir.arch[b]
  IN  /\ fwork[io].pc = "open"
      /\ \/ /\ fino' = IF new THEN Append(fino, {}) ELSE fino
            /\ fdir' = IF new THEN [fdir EXCEPT !.tmp[b] = fd] ELSE fdir
            /\ fwork' = [fwork EXCEPT ![io].fd = fd, ![io].ok = fd # 0, ![io].pc = IF fd = 0 THEN "end" ELSE "io"]
            /\ UNCHANGED fstruck
         \/ /\ FMay("io") /\ fstruck' = fstruck \union {<<"io", io>>}
            /\ fwork' = [fwork EXCEPT ![io].ok = FALSE, ![io].pc = IF dump /\ FLast(io) THEN "remove" ELSE "end"]
            /\ UNCHANGED ffiles
      /\ UNCHANGED <<fcfg, fjob, ffail, fq, fmem, fgc, flook, fpc>>

WriteShard(io) ==
  LET fd == fwork[io].fd IN
  /\ fwork[io].pc = "io" /\ FKind(io[1]) = "dump"
  /\ \/ /\ fino' = [fino EXCEPT ![fd] = @ \union {FShard(io)}]
        /\ FStep(io, IF FLast(io) THEN "commit" ELSE "end") /\ UNCHANGED fstruck
     \/ /\ FMay("io") /\ fstruck' = fstruck \union {<<"io", io>>}
        /\ fwork' = [fwork EXCEPT ![io].ok = FALSE, ![io].pc = IF FLast(io) THEN "remove" ELSE "end"]
        /\ UNCHANGED fino
  /\ UNCHANGED <<fcfg, fjob, ffail, fq, fdir, fmem, fgc, flook, fpc>>

\* A shard that is not there is read as zeros inside the file and as nothing at its end.
ReadShard(io) ==
  LET has == fino[fwork[io].fd]
      i == FShard(io)
  IN  /\ fwork[io].pc = "io" /\ FKind(io[1]) = "load"
      /\ \/ /\ fmem' = [fmem EXCEPT ![io[1]][io[2]] = IF i \in has THEN "right"
                                                      ELSE IF \E k \in has : k > i THEN "hole" ELSE @]
            /\ fwork' = [fwork EXCEPT ![io].ok = \E k \in has : k >= i, ![io].pc = "end"]
            /\ UNCHANGED fstruck
         \/ /\ FMay("io") /\ fstruck' = fstruck \union {<<"io", io>>}
            /\ fwork' = [fwork EXCEPT ![io].ok = FALSE, ![io].pc = "end"]
            /\ UNCHANGED fmem
      /\ UNCHANGED <<fcfg, fjob, ffail, fq, ffiles, fgc, flook, fpc>>

\* CommitFile: rename, and removal of the .tmp file when the dump or the rename failed, which
\* the worker does not hear of.
CommitFile(io) ==
  LET b == FBlock(io)
      d == [fdir EXCEPT !.arch[b] = fdir.tmp[b], !.tmp[b] = 0]
  IN  /\ fwork[io].pc = "commit"
      /\ \/ /\ fdir.tmp[b] # 0
            /\ fdir' = d /\ flook' = FWatch(d) /\ FStep(io, "end") /\ UNCHANGED fstruck
         \/ /\ IF fdir.tmp[b] = 0 THEN UNCHANGED fstruck
               ELSE FMay("io") /\ fstruck' = fstruck \union {<<"io", io>>}
            /\ FStep(io, "remove") /\ UNCHANGED <<fdir, flook>>
      /\ UNCHANGED <<fcfg, fjob, ffail, fq, fino, fmem, fgc, fpc>>
RemoveTmp(io) ==
  /\ fwork[io].pc = "remove"
  /\ fdir' = [fdir EXCEPT !.tmp[FBlock(io)] = 0] /\ FStep(io, "end")
  /\ UNCHANGED <<fcfg, fjob, ffail, fq, fino, fmem, fgc, flook, fstruck, fpc>>

(* Mutant of EndIo: a failed I/O is not entered in the failure set.         *)
EndIoForgets(io) ==
  /\ fwork[io].pc = "end" /\ fjob' = FDone(fjob, io[1])
  /\ fwork' = FEnded(io)
  /\ UNCHANGED <<fcfg, ffail, fq, ffiles, fmem, fgc, flook, fstruck, fpc>>

EndIo(io) ==
  /\ fwork[io].pc = "end"
  /\ ffail' = IF fwork[io].ok THEN ffail ELSE ffail \union {io[1]}
  /\ fjob' = FDone(fjob, io[1])
  /\ fwork' = FEnded(io)
  /\ UNCHANGED <<fcfg, fq, ffiles, fmem, fgc, flook, fstruck, fpc>>

\* Monitor: a worker that takes too long is abandoned; its I/O counts as failed and done,
\* and the worker, when it comes back, ends its I/O once more.
Abandon(io) ==
  /\ ~fwork[io].left /\ FMay("stuck")
  /\ fwork' = [fwork EXCEPT ![io].left = TRUE]
  /\ ffail' = ffail \union {io[1]} /\ fjob' = FDone(fjob, io[1])
  /\ fstruck' = fstruck \union {<<"stuck", io>>}
  /\ UNCHANGED <<fcfg, fq, ffiles, fmem, fgc, flook, fpc>>

\* The process dies; others go on with what it left in the directory.
Crash(p) ==
  /\ FMay("crash") /\ fstruck' = fstruck \union {<<"crash", p>>}
  /\ fwork' = [io \in {io \in DOMAIN fwork : FProc(io[1]) # p} |-> fwork[io]]
  /\ fq' = {io \in fq : FProc(io[1]) # p}
  /\ fjob' = [j \in FJobs |-> IF FProc(j) = p THEN [st |-> "dead", left |-> 0, turn |-> 0] ELSE fjob[j]]
  /\ ffail' = {j \in ffail : FProc(j) # p}
  /\ UNCHANGED <<fcfg, ffiles, fmem, fgc, flook, fpc>>

----------------------------------------------------------------------------
(* Prefix lookup: worker w probes the blocks w, w + nWorker, ... of the list; all share *)
(* the index of the first block that was not found.                                      *)

FList == fcfg.lookup
FWorkers == 1..fcfg.lookupConcurrency

LookupStarts ==
  /\ FList # <<>> /\ flook.pc = "none"
  /\ flook' = [pc |-> "run", at |-> [w \in FWorkers |-> w - 1], late |-> FALSE, firstFail |-> Len(FList),
               ever |-> FPresent(fdir), gap |-> FBlocks \ FPresent(fdir)]
  /\ UNCHANGED <<fcfg, fjob, ffail, fq, fwork, ffiles, fmem, fgc, fstruck, fpc>>

\* One round of OnLookupPrefix.  Hits are touched for the collector, which only their age tells.
LookupProbes(w) ==
  LET i == flook.at[w]
      stop == i >= Len(FList) \/ flook.late \/ flook.firstFail < i
  IN  /\ flook.pc = "run" /\ i >= 0
      /\ flook' = IF stop THEN [flook EXCEPT !.at[w] = -1]
                  ELSE IF fdir.arch[FList[i + 1]] = 0
                       THEN [flook EXCEPT !.at[w] = -1, !.firstFail = IF i < @ THEN i ELSE @]
                       ELSE [flook EXCEPT !.at[w] = i + fcfg.lookupConcurrency]
      /\ UNCHANGED <<fcfg, fjob, ffail, fq, fwork, ffiles, fmem, fgc, fstruck, fpc>>

\* OnLookupPrefixTimeout: a worker that takes too long makes the lookup fail.
LookupExpires(w) ==
  /\ flook.pc = "run" /\ flook.at[w] >= 0 /\ FMay("stuck")
  /\ flook' = [flook EXCEPT !.at[w] = -1, !.late = TRUE]
  /\ fstruck' = fstruck \union {<<"stuck", <<0, w>>>>}
  /\ UNCHANGED <<fcfg, fjob, ffail, fq, fwork, ffiles, fmem, fgc, fpc>>

LookupReturns ==
  /\ flook.pc = "run" /\ \A w \in FWorkers : flook.at[w] = -1
  /\ flook' = [flook EXCEPT !.pc = IF flook.late THEN "error" ELSE "found"]
  /\ UNCHANGED <<fcfg, fjob, ffail, fq, fwork, ffiles, fmem, fgc, fstruck, fpc>>

----------------------------------------------------------------------------
(* Garbage collection: a share of the committed files is listed, then removed by name.  Which *)
(* files are the oldest (whole seconds of mtime, and a thread that touches hits) is left open. *)

GcScans ==
  /\ "gc" \in fcfg.faults /\ fgc = <<>>
  /\ Cardinality(FPresent(fdir)) >= fcfg.threshold
  /\ LET n == Cardinality(FPresent(fdir)) \div fcfg.recycle
     IN  n > 0 /\ \E old \in kSubset(n, FPresent(fdir)) : fgc' = SetToSeq(old)
  /\ fstruck' = fstruck \union {<<"gc", 0>>}
  /\ UNCHANGED <<fcfg, fjob, ffail, fq, fwork, ffiles, fmem, flook, fpc>>
GcRemoves ==
  /\ fgc # <<>>
  /\ LET d == [fdir EXCEPT !.arch[Head(fgc)] = 0]
     IN  fdir' = d /\ flook' = FWatch(d)
  /\ fgc' = Tail(fgc)
  /\ UNCHANGED <<fcfg, fjob, ffail, fq, fwork, fino, fmem, fstruck, fpc>>

PosixDone == /\ \A j \in FJobs : fjob[j].st \notin {"new", "wait", "drain"}
             /\ fwork = <<>> /\ UNCHANGED fvars

PosixNext ==
  \/ \E j \in FJobs : Submit(j) \/ Wait(j) \/ WaitExpires(j)
  \/ \E io \in fq : TakeIo(io)
  \/ \E io \in DOMAIN fwork : \/ OpenFile(io) \/ WriteShard(io) \/ ReadShard(io) \/ CommitFile(io)
                              \/ RemoveTmp(io) \/ EndIo(io) \/ Abandon(io)
  \/ \E p \in {FProc(j) : j \in FJobs} : Crash(p)
  \/ LookupStarts \/ LookupReturns \/ GcScans \/ GcRemoves \/ PosixDone
  \/ \E w \in DOMAIN flook.at : LookupProbes(w) \/ LookupExpires(w)

PosixSpec == PosixInit /\ [][PosixNext]_fvars

----------------------------------------------------------------------------
FStruck(kinds) == \E x \in fstruck : x[1] \in kinds
\* A block of several shards that several workers or several tasks write may be committed
\* before all its shards are written, or after its .tmp file was replaced: it has holes.  So
\* it has when the task lists the last shard before others, or when a worker was abandoned:
\* the shards left after Wait has returned are written and committed without the others.
FLastIsLast(j) ==
  \A k \in DOMAIN FIos(j) :
    /\ \A m \in DOMAIN FIos(j) : FIos(j)[m] = FIos(j)[k] => m = k
    /\ FLast(<<j, k>>) => \A s \in 0..fcfg.nShardPerBlock - 1 :
                            \E m \in 1..k : FIos(j)[m] = <<FBlock(<<j, k>>), s>>
FOneWriter ==
  fcfg.nShardPerBlock = 1 \/
    /\ fcfg.conc = 1 /\ ~FStruck({"stuck"})
    /\ \A j \in FJobs : FKind(j) = "dump" => FLastIsLast(j)
    /\ \A i, j \in FJobs : i # j /\ FKind(i) = "dump" /\ FKind(j) = "dump" =>
         \A k \in DOMAIN FIos(i), m \in DOMAIN FIos(j) : FBlock(<<i, k>>) # FBlock(<<j, m>>)

\* A load that reports success has read the whole block, whatever dumps of the same block,
\* crashes and failures have left behind.
PosixLoadRight ==
  \A j \in FJobs : fjob[j].st = "ok" /\ FKind(j) = "load" /\ FOneWriter =>
    \A k \in DOMAIN FIos(j) : fmem[j][k] = "right"

\* Without faults a dump that reports success has left a committed file, and when no dump
\* is under way all committed files are whole, although processes share .tmp files.
PosixDumpKept ==
  FStruck({"io", "timeout", "stuck", "crash", "gc"}) \/
    /\ \A j \in FJobs : fjob[j].st = "ok" /\ FKind(j) = "dump" =>
         \A k \in DOMAIN FIos(j) : FLast(<<j, k>>) => fdir.arch[FBlock(<<j, k>>)] # 0
    /\ (\A j \in FJobs : FKind(j) = "dump" => fjob[j].st \notin {"wait", "drain"}) =>
         \A b \in FPresent(fdir) : FOneWriter => fino[fdir.arch[b]] = 0..fcfg.nShardPerBlock - 1

\* What a lookup reports was there when it was asked, and the block after it was not:
\* whatever is committed and removed meanwhile.
PosixLookupRight ==
  flook.pc = "found" =>
    /\ \A i \in 1..flook.firstFail : FList[i] \in flook.ever
    /\ flook.firstFail < Len(FList) => FList[flook.firstFail + 1] \in flook.gap

\* After Wait no worker touches the caller's memory, unless one was abandoned.
PosixQuiet ==
  FStruck({"stuck"}) \/ \A io \in DOMAIN fwork : fjob[io[1]].st \in {"wait", "drain"}

PosixRight == fpc # "off" => PosixLoadRight /\ PosixDumpKept /\ PosixLookupRight /\ PosixQuiet
=============================================================================
