--------------------------- MODULE BytecodeCache ---------------------------
(***************************************************************************)
(* The cache of compiled scripts (src/src/bytecode_cache.c): bytecode in   *)
(* memory under g_lock, and a file for each key that is written with no    *)
(* lock.  Readers are the threads that run scripts, the engine thread and  *)
(* those of Web Workers: each looks a script up, and stores it when it had *)
(* to compile it.  The engine thread also asks for scripts to be compiled  *)
(* ahead by the pool, whose jobs are marked in g_pending; a reader of a    *)
(* marked key waits for it, for twenty seconds at most.                    *)
(*                                                                         *)
(* The data of a file are two halves, the first with the header.  They are *)
(* written and renamed in steps, and the process may be killed between     *)
(* them.  A writer goes on with the file it opened, whatever its name has  *)
(* become.  Compiling a key twice gives the same bytecode.  Private        *)
(* browsing, which is decided when the process starts, is off: with it     *)
(* every call returns at once.                                             *)
(***************************************************************************)
EXTENDS Integers, Sequences, FiniteSets, SequencesExt, Functions

CONSTANTS Readers,  \* threads that run scripts
          Engine,   \* the reader that precompiles and shuts down
          Pool,     \* the threads of g_precompile_pool
          Keys,     \* the scripts
          SizeOf,   \* length of the bytecode of each
          Cap,      \* NS_BYTECODE_CACHE_MEM_CAP_BYTES
          PruneMin  \* NS_BYTECODE_CACHE_PRUNE_MIN_BYTES

Threads == Readers \cup Pool

ASSUME BytecodeAssumption ==
  /\ Engine \in Readers /\ Readers \cap Pool = {}
  /\ IsFiniteSet(Threads) /\ IsFiniteSet(Keys)
  /\ Cap \in Nat /\ PruneMin \in Nat
  /\ SizeOf \in [Keys -> 1..Cap] \* NS_BYTECODE_CACHE_VALUE_CAP_BYTES is below Cap

Whole  == {1, 2}
NoFile == [none |-> TRUE]
Empty  == [data |-> {}, cut |-> FALSE]

VARIABLES thr,      \* for each thread where it is, its key, the name that the file it has
                    \* open goes by, and whether what it read was whole
          lru,      \* keys in g_mem, least recently used first
          torn,     \* those of them whose bytecode was cut short
          memBytes, \* g_mem_bytes
          pending,  \* g_pending
          jobs,     \* the queue of the pool
          phase,    \* "up", "draining" the pool, or "down" after the shutdown
          file,     \* for each key its file: the halves written, and whether a writer that
                    \* had it open failed or was killed
          tmp       \* for each key its temporary file
mem  == <<lru, torn, memBytes>>
disk == <<file, tmp>>
vars == <<thr, lru, torn, memBytes, pending, jobs, phase, file, tmp>>

NoKey == [none |-> TRUE]

\* Where a thread is: for NoKey nowhere; the file it has open goes by the name
\* "file", "tmp", or by none any more, and is then "lost".
Place(pc, k, fd, whole) == [pc |-> pc, key |-> k, fd |-> fd, whole |-> whole]
Idle       == Place("idle", NoKey, "none", TRUE)
Doing(pc, k) == Place(pc, k, "none", TRUE)

BytecodeInit ==
  /\ thr = [t \in Threads |-> Idle]
  /\ lru = <<>> /\ torn = {} /\ memBytes = 0
  /\ pending = {} /\ jobs = <<>> /\ phase = "up"
  /\ file = [k \in Keys |-> NoFile] /\ tmp = [k \in Keys |-> NoFile]

MemOn == phase # "down"

\* The engine thread joins the pool in the shutdown, and does not come back.
CanRun(t) == t = Engine => phase = "up"

At(t, pc)  == thr[t].pc = pc /\ CanRun(t)
Goto(t, pc) == thr' = [thr EXCEPT ![t] = Place(pc, thr[t].key, thr[t].fd, TRUE)]

\* A reader goes on to run the script; a worker of the pool ends its job.
Resumed(t) == IF t \in Readers THEN Idle ELSE Doing("finish", thr[t].key)
Resume(t)  == thr' = [thr EXCEPT ![t] = Resumed(t)]

-----------------------------------------------------------------------------
(* g_mem *)

Lengths(keys) == FoldLeft(LAMBDA sum, k : sum + SizeOf[k], 0, keys)

\* evict_until_fits: how many of the least recently used make room for want.
EvictedFor(want) ==
  LET fits(n) == memBytes - Lengths(SubSeq(lru, 1, n)) + want <= Cap
  IN  IF \E n \in 0..Len(lru) : fits(n)
      THEN CHOOSE n \in 0..Len(lru) : fits(n) /\ \A m \in 0..(n - 1) : ~fits(m)
      ELSE Len(lru)

\* Puts a key that is not in g_mem in; cut tells whether its bytecode is.
Insert(k, cut) ==
  LET n == EvictedFor(SizeOf[k]) IN
  /\ lru' = Append(SubSeq(lru, n + 1, Len(lru)), k)
  /\ memBytes' = memBytes - Lengths(SubSeq(lru, 1, n)) + SizeOf[k]
  /\ torn' = (torn \cap Range(lru')) \cup (IF cut THEN {k} ELSE {})

Touch(k) == lru' = Append(Remove(lru, k), k) /\ UNCHANGED <<torn, memBytes>>

-----------------------------------------------------------------------------
(* ns_bytecode_cache_get *)

\* After the wait: the bytecode is in memory, or the file is to be read.
\* JS_ReadObject rejects bytecode that was cut, and the script is compiled.
LookUp(t, k) ==
  IF k \in Range(lru)
  THEN /\ Touch(k)
       /\ thr' = [thr EXCEPT ![t] = IF k \in torn THEN Doing("compile", k) ELSE Idle]
  ELSE /\ thr' = [thr EXCEPT ![t] = Doing("read", k)]
       /\ UNCHANGED mem

GetStart(t, k) ==
  /\ At(t, "idle")
  /\ IF ~MemOn
     THEN thr' = [thr EXCEPT ![t] = Doing("compile", k)] /\ UNCHANGED mem
     ELSE IF k \in pending
     THEN thr' = [thr EXCEPT ![t] = Doing("wait", k)] /\ UNCHANGED mem
     ELSE LookUp(t, k)
  /\ UNCHANGED <<pending, jobs, phase, disk>>

\* Woken, it looks at its mark again.
Woken(t) ==
  /\ At(t, "woken")
  /\ IF thr[t].key \in pending THEN Goto(t, "wait") /\ UNCHANGED mem
                               ELSE LookUp(t, thr[t].key)
  /\ UNCHANGED <<pending, jobs, phase, disk>>

\* NS_BYTECODE_PRECOMPILE_WAIT_US have passed.
TimesOut(t) ==
  /\ At(t, "wait")
  /\ LookUp(t, thr[t].key)
  /\ UNCHANGED <<pending, jobs, phase, disk>>

\* read_disk: a file with no header is none, one that was cut is not noticed.
ReadDisk(t) ==
  /\ At(t, "read")
  /\ LET f == file[thr[t].key] IN
     IF phase # "down" /\ f # NoFile /\ 1 \in f.data
     THEN thr' = [thr EXCEPT ![t] = Place("keep", thr[t].key, "none", f.data = Whole)]
     ELSE Goto(t, "compile")
  /\ UNCHANGED <<mem, pending, jobs, phase, disk>>

\* The lock was not held while the file was read.
MayKeep(k) == MemOn /\ k \notin Range(lru)

Keep(t) ==
  /\ At(t, "keep")
  /\ IF MayKeep(thr[t].key) THEN Insert(thr[t].key, ~thr[t].whole) ELSE UNCHANGED mem
  /\ IF thr[t].whole THEN Resume(t) ELSE Goto(t, "compile")
  /\ UNCHANGED <<pending, jobs, phase, disk>>

-----------------------------------------------------------------------------
(* ns_bytecode_cache_put *)

\* A script with a syntax error has no bytecode.
CompileError(t) ==
  /\ At(t, "compile")
  /\ Resume(t)
  /\ UNCHANGED <<mem, pending, jobs, phase, disk>>

Put(t) ==
  /\ At(t, "compile")
  /\ LET k == thr[t].key IN
     IF ~MemOn THEN Resume(t) /\ UNCHANGED mem
     ELSE IF k \in Range(lru) THEN Touch(k) /\ Resume(t)
     ELSE Insert(k, FALSE) /\ Goto(t, "open")
  /\ UNCHANGED <<pending, jobs, phase, disk>>

-----------------------------------------------------------------------------
(* write_disk *)

\* Where the writers of the files of k, other than t, are once the temporary
\* name, or both, have been taken away: their files have no name then.
Unlinked(r, gone, goneTmp) ==
  LET c == thr[r] IN
  IF (c.fd = "file" /\ c.key \in gone) \/ (c.fd = "tmp" /\ c.key \in goneTmp)
  THEN Place(c.pc, c.key, "lost", c.whole) ELSE c

\* O_CREAT and O_TRUNC: a file that is there is emptied, whoever writes it.
OpenTmp(t) ==
  /\ At(t, "open") /\ phase # "down"
  /\ tmp' = [tmp EXCEPT ![thr[t].key] = Empty]
  /\ thr' = [thr EXCEPT ![t] = Place("write", thr[t].key, "tmp", TRUE)]
  /\ UNCHANGED <<mem, pending, jobs, phase, file>>

\* There is no directory any more, or it cannot be written.
OpenFails(t) ==
  /\ At(t, "open")
  /\ Resume(t)
  /\ UNCHANGED <<mem, pending, jobs, phase, disk>>

Written(t, half) ==
  LET k == thr[t].key IN
  /\ tmp' = IF thr[t].fd = "tmp" THEN [tmp EXCEPT ![k].data = @ \cup {half}] ELSE tmp
  /\ file' = IF thr[t].fd = "file" THEN [file EXCEPT ![k].data = @ \cup {half}] ELSE file

Write(t) ==
  /\ At(t, "write")
  /\ Written(t, 1)
  /\ Goto(t, "write2")
  /\ UNCHANGED <<mem, pending, jobs, phase>>

\* The rest, and the fclose.
WriteRest(t) ==
  /\ At(t, "write2")
  /\ Written(t, 2)
  /\ thr' = [thr EXCEPT ![t] = Doing("rename", thr[t].key)]
  /\ UNCHANGED <<mem, pending, jobs, phase>>

\* Mutant of Failed: that the write failed is not looked at.
FailedUnnoticed(t) ==
  thr' = [thr EXCEPT ![t] = Doing("rename", thr[t].key)] /\ UNCHANGED disk

\* g_unlink(tmp), whoever's file has that name by now.
Failed(t) ==
  LET k == thr[t].key IN
  /\ tmp' = [tmp EXCEPT ![k] = NoFile]
  /\ file' = IF thr[t].fd = "file" THEN [file EXCEPT ![k].cut = TRUE] ELSE file
  /\ thr' = [r \in Threads |-> IF r = t THEN Resumed(t) ELSE Unlinked(r, {}, {k})]

WriteFails(t) ==
  /\ At(t, "write") \/ At(t, "write2")
  /\ Failed(t)
  /\ UNCHANGED <<mem, pending, jobs, phase>>

AfterRename(t) ==
  IF SizeOf[thr[t].key] >= PruneMin THEN Doing("prune", thr[t].key) ELSE Resumed(t)

\* The writers of a temporary file are those of the file that it has become.
Renamed(r, k) ==
  LET c == Unlinked(r, {k}, {}) IN IF c.key = k /\ c.fd = "tmp" THEN Place(c.pc, k, "file", c.whole) ELSE c

\* g_rename, which fails if another writer has taken the name away.
Rename(t) ==
  /\ At(t, "rename")
  /\ LET k == thr[t].key IN
     IF tmp[k] # NoFile
     THEN /\ file' = [file EXCEPT ![k] = tmp[k]]
          /\ tmp' = [tmp EXCEPT ![k] = NoFile]
          /\ thr' = [r \in Threads |-> IF r = t THEN AfterRename(t) ELSE Renamed(r, k)]
     ELSE thr' = [thr EXCEPT ![t] = AfterRename(t)] /\ UNCHANGED disk
  /\ UNCHANGED <<mem, pending, jobs, phase>>

\* prune_disk: the oldest files go, temporary ones too; which these are, and
\* how many, is left open.
Prune(t) ==
  /\ At(t, "prune")
  /\ \E gone \in SUBSET Keys, goneTmp \in SUBSET Keys :
       /\ file' = [k \in Keys |-> IF k \in gone THEN NoFile ELSE file[k]]
       /\ tmp' = [k \in Keys |-> IF k \in goneTmp THEN NoFile ELSE tmp[k]]
       /\ thr' = [r \in Threads |-> IF r = t THEN Resumed(t) ELSE Unlinked(r, gone, goneTmp)]
  /\ UNCHANGED <<mem, pending, jobs, phase>>

-----------------------------------------------------------------------------
(* ns_bytecode_cache_precompile and its workers *)

\* Mutant of Wanted: a key that is being compiled is queued again.
WantedUnlessKept(k) == k \notin Range(lru)

\* The first look, under the lock.
Wanted(k) == k \notin Range(lru) /\ k \notin pending

PreCheck(k) ==
  /\ At(Engine, "idle")
  /\ Wanted(k)
  /\ thr' = [thr EXCEPT ![Engine] = Doing("mark", k)]
  /\ UNCHANGED <<mem, pending, jobs, phase, disk>>

\* There is no file either: the key is marked, under the lock again.
PreMark ==
  /\ At(Engine, "mark")
  /\ IF file[thr[Engine].key] # NoFile
     THEN Resume(Engine) /\ UNCHANGED pending
     ELSE pending' = pending \cup {thr[Engine].key} /\ Goto(Engine, "push")
  /\ UNCHANGED <<mem, jobs, phase, disk>>

PrePush ==
  /\ At(Engine, "push")
  /\ jobs' = Append(jobs, thr[Engine].key)
  /\ Resume(Engine)
  /\ UNCHANGED <<mem, pending, phase, disk>>

TakeJob(t) ==
  /\ At(t, "idle") /\ jobs # <<>>
  /\ thr' = [thr EXCEPT ![t] = Doing("compile", Head(jobs))]
  /\ jobs' = Tail(jobs)
  /\ UNCHANGED <<mem, pending, phase, disk>>

Waiting == {t \in Threads : thr[t].pc = "wait"}

\* Mutant of Woke: nobody is told.
WokeNone(t) == [thr EXCEPT ![t] = Idle]

\* g_cond_broadcast by the worker that goes idle.
Woke(t) ==
  [r \in Threads |-> IF r = t THEN Idle ELSE IF r \in Waiting THEN Doing("woken", thr[r].key) ELSE thr[r]]

\* precompile_job_finish
Finish(t) ==
  /\ At(t, "finish")
  /\ pending' = pending \ {thr[t].key}
  /\ thr' = Woke(t)
  /\ UNCHANGED <<mem, jobs, phase, disk>>

-----------------------------------------------------------------------------
(* ns_bytecode_cache_shutdown, and the end of the process *)

\* g_thread_pool_free(immediate): jobs that have not begun are dropped.
Shutdown ==
  /\ At(Engine, "idle")
  /\ phase' = "draining" /\ jobs' = <<>>
  /\ UNCHANGED <<thr, mem, pending, disk>>

ShutdownDone ==
  /\ phase = "draining"
  /\ \A t \in Pool : thr[t].pc = "idle"
  /\ phase' = "down" /\ pending' = {}
  /\ lru' = <<>> /\ torn' = {} /\ memBytes' = 0
  /\ UNCHANGED <<thr, jobs, disk>>

HasOpen(k) == \E t \in Threads : thr[t].fd = "file" /\ thr[t].key = k

\* The process ends, at any moment, and another is started.  What it leaves in
\* a temporary file is never read.
Restart ==
  /\ thr' = [t \in Threads |-> Idle]
  /\ lru' = <<>> /\ torn' = {} /\ memBytes' = 0
  /\ pending' = {} /\ jobs' = <<>> /\ phase' = "up"
  /\ file' = [k \in Keys |-> IF HasOpen(k) THEN [file[k] EXCEPT !.cut = TRUE] ELSE file[k]]
  /\ tmp' = [k \in Keys |-> IF tmp[k] = NoFile THEN NoFile ELSE Empty]

-----------------------------------------------------------------------------
ReaderStep(t) == Woken(t) \/ ReadDisk(t) \/ Keep(t)
WriterStep(t) ==
  \/ CompileError(t) \/ Put(t) \/ OpenTmp(t) \/ OpenFails(t) \/ Write(t) \/ WriteRest(t)
  \/ WriteFails(t) \/ Rename(t) \/ Prune(t)
PoolStep(t) == TakeJob(t) \/ Finish(t)

BytecodeNext ==
  \/ \E t \in Readers : ReaderStep(t) \/ TimesOut(t) \/ \E k \in Keys : GetStart(t, k)
  \/ \E t \in Threads : WriterStep(t)
  \/ \E t \in Pool : PoolStep(t)
  \/ \E k \in Keys : PreCheck(k)
  \/ PreMark \/ PrePush
  \/ Shutdown \/ ShutdownDone \/ Restart

\* Threads go on with what they have begun.  The twenty seconds are not
\* counted on, nor is anything new asked for.
BytecodeFairness ==
  /\ \A t \in Readers : WF_vars(ReaderStep(t))
  /\ \A t \in Threads : WF_vars(WriterStep(t))
  /\ \A t \in Pool : WF_vars(PoolStep(t))
  /\ WF_vars(PreMark) /\ WF_vars(PrePush)

BytecodeSpec == BytecodeInit /\ [][BytecodeNext]_vars /\ BytecodeFairness

-----------------------------------------------------------------------------
(* Properties *)

Places == {"idle", "wait", "woken", "read", "keep", "compile", "open", "write", "write2", "rename",
           "prune", "finish", "mark", "push"}

Files == [data : SUBSET Whole, cut : BOOLEAN]

Calls == [pc : Places, key : Keys \cup {NoKey}, fd : {"none", "tmp", "file", "lost"}, whole : BOOLEAN]

Busy    == {t \in Pool : thr[t].pc # "idle"}
KeysInWork == {thr[t].key : t \in Busy}
Pushing == IF thr[Engine].pc = "push" THEN {thr[Engine].key} ELSE {}

\* Each mark of g_pending, which readers wait for, has one job that is to be
\* pushed, queued or running, and each job has its mark.
MarkedOnce ==
  /\ pending = KeysInWork \cup Range(jobs) \cup Pushing
  /\ \A t, u \in Busy : thr[t].key = thr[u].key => t = u
  /\ \A m, n \in DOMAIN jobs : jobs[m] = jobs[n] => m = n
  /\ KeysInWork \cap Range(jobs) = {} /\ Pushing \cap (KeysInWork \cup Range(jobs)) = {}

\* While the cache is up each mark of g_pending stands for exactly one job, and
\* a reader that sleeps has its mark there: no job that has ended, or was never
\* begun, leaves it asleep until the twenty seconds are over.
MarksKept == phase = "up" => MarkedOnce /\ \A t \in Waiting : thr[t].key \in pending

\* A file that is not whole under its final name is still being written, or
\* was left by a writer that failed or was killed.
TornIsOpenOrCut ==
  \A k \in Keys :
    file[k] # NoFile /\ file[k].data # Whole => HasOpen(k) \/ file[k].cut

\* A reader that sleeps until a compile is done is woken, without the limit of
\* twenty seconds, unless the pool is shut down.
SleepEnds == \A t \in Readers : thr[t].pc = "wait" ~> thr[t].pc # "wait" \/ phase # "up"

=============================================================================
