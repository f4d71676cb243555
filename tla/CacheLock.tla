----------------------------- MODULE CacheLock -----------------------------
(***************************************************************************)
(* The lock-file protocol of OfflineEventCache (edge/cache/file_cache.py)  *)
(* and the read-modify-write of the two cache files it protects.           *)
(*                                                                         *)
(* A process is one run of a program that uses the cache directory.  It    *)
(* has an operating-system pid, which a later process may be given again   *)
(* once the first is gone.  The lock file is created empty by one system   *)
(* call and gets the creator's pid by a second one; waiting processes read *)
(* the pid, ask whether it is alive, and unlink the file if it is not:     *)
(* each of these is a step of its own, because nothing orders them with    *)
(* the steps of the other processes.                                       *)
(***************************************************************************)
EXTENDS Naturals

CONSTANTS Proc,      \* processes
          Pid,       \* operating-system process ids
          PidOf,     \* PidOf[p]: the pid process p runs under
          NoPid,     \* the content of a lock file no pid was written to
          NoProc,    \* no process: the lock file does not exist
          Key,       \* deduplication keys (device_id, seq)
          MaxEnds    \* bound: how many processes may end in a behaviour

ASSUME ProcAssumption == NoProc \notin Proc
ASSUME PidAssumption == PidOf \in [Proc -> Pid] /\ NoPid \notin Pid
ASSUME MaxEndsAssumption == MaxEnds \in Nat

VARIABLES pc,        \* pc[p]: where process p is in the cache code
          creator,   \* the process whose lock file is at lock_path
          written,   \* the pid the file at lock_path holds
          seen,      \* seen[p]: the pid p read from the lock file
          op,        \* op[p]: the cache operation p performs
          cur,       \* cur[p]: the file p works on
          snapshot,  \* snapshot[p]: what p read from that file
          file,      \* file[f]: the keys of the events in file f
          ends       \* how many processes have ended

lockVars == <<creator, written, seen>>
dataVars == <<op, cur, snapshot, file>>
vars == <<pc, lockVars, dataVars, ends>>

File == {"persistent", "temp"}

\* The public operations: append to one file; remove_sent, clear and
\* read_all work through the persistent file first, then the temporary one.
Operation ==
  [kind : {"append"}, keys : {{k} : k \in Key}, first : File]
    \cup [kind : {"remove"}, keys : SUBSET Key, first : {"persistent"}]
    \cup [kind : {"clear", "readAll"}, keys : {{}}, first : {"persistent"}]

NoOperation == [kind |-> "none", keys |-> {}, first |-> "persistent"]

Location == {"unborn", "idle", "open", "writePid", "readPid", "judge",
             "unlinkStale", "read", "write", "release", "ended"}

Running(p) == pc[p] \notin {"unborn", "ended"}

\* _pid_is_alive: some running process has this pid.
Alive(pid) == \E p \in Proc : Running(p) /\ PidOf[p] = pid

Goto(p, there) == pc' = [pc EXCEPT ![p] = there]
At(p, here) == pc[p] = here

\* The operation's locals, when no operation is under way.
Forget(p) == /\ op' = [op EXCEPT ![p] = NoOperation]
             /\ cur' = [cur EXCEPT ![p] = "persistent"]
             /\ snapshot' = [snapshot EXCEPT ![p] = {}]

LockFileExists == creator # NoProc

\* O_EXCL: the file can be created only where there is none.  The faulty
\* variant opens with O_CREAT alone.
CreatesAnyway == TRUE
CanCreate == ~LockFileExists

RemoveLockFile == creator' = NoProc /\ written' = NoPid

Init == /\ pc = [p \in Proc |-> "unborn"]
        /\ creator = NoProc
        /\ written = NoPid
        /\ seen = [p \in Proc |-> NoPid]
        /\ op = [p \in Proc |-> NoOperation]
        /\ cur = [p \in Proc |-> "persistent"]
        /\ snapshot = [p \in Proc |-> {}]
        /\ file = [f \in File |-> {}]
        /\ ends = 0

-----------------------------------------------------------------------------
(* Processes come and go. *)

\* The operating system starts p; no running process has the same pid.
Start(p) == /\ At(p, "unborn")
            /\ ~Alive(PidOf[p])
            /\ Goto(p, "idle")
            /\ UNCHANGED <<lockVars, dataVars, ends>>

\* p ends, wherever it is: a crash, a kill, or (from "idle") a normal exit.
\* Its lock file, if it made one, stays behind.
End(p) == /\ Running(p)
          /\ ends < MaxEnds
          /\ ends' = ends + 1
          /\ Goto(p, "ended")
          /\ UNCHANGED <<lockVars, dataVars>>

-----------------------------------------------------------------------------
(* _acquire_process_lock *)

Call(p) == /\ At(p, "idle")
           /\ \E o \in Operation :
                 /\ op' = [op EXCEPT ![p] = o]
                 /\ cur' = [cur EXCEPT ![p] = o.first]
           /\ Goto(p, "open")
           /\ UNCHANGED <<lockVars, snapshot, file, ends>>

\* os.open(O_CREAT | O_EXCL): create the empty lock file, or fail.
Open(p) == /\ At(p, "open")
           /\ \/ /\ CanCreate
                 /\ creator' = p
                 /\ written' = NoPid
                 /\ Goto(p, "writePid")
              \/ /\ LockFileExists
                 /\ Goto(p, "readPid")
                 /\ UNCHANGED <<creator, written>>
           /\ UNCHANGED <<seen, dataVars, ends>>

\* clear writes the files without reading them.
FirstStep(o) == IF o.kind = "clear" THEN "write" ELSE "read"

\* os.write through the descriptor: it reaches the file p created, which is
\* the one at lock_path only if nobody unlinked it meanwhile.
WritePid(p) == /\ At(p, "writePid")
               /\ written' = IF creator = p THEN PidOf[p] ELSE written
               /\ Goto(p, FirstStep(op[p]))
               /\ UNCHANGED <<creator, seen, dataVars, ends>>

\* _read_lock_pid: NoPid for an empty file and for a file that is gone.
ReadPid(p) == /\ At(p, "readPid")
              /\ seen' = [seen EXCEPT ![p] = written]
              /\ Goto(p, "judge")
              /\ UNCHANGED <<creator, written, dataVars, ends>>

ForgetPid(p) == seen' = [seen EXCEPT ![p] = NoPid]

\* Faulty variants: an unreadable pid counts as dead; locks are never broken.
UnreadableIsDead(p) == seen[p] = NoPid \/ ~Alive(seen[p])
NeverDead(p) == FALSE
JudgedDead(p) == seen[p] # NoPid /\ ~Alive(seen[p])

\* _stale_lock_owner_dead says yes: break the lock.
FindStale(p) == /\ At(p, "judge")
                /\ JudgedDead(p)
                /\ Goto(p, "unlinkStale")
                /\ ForgetPid(p)
                /\ UNCHANGED <<creator, written, dataVars, ends>>

\* ... says no: sleep and try again, or raise TimeoutError at the deadline.
Wait(p) == /\ At(p, "judge")
           /\ ~JudgedDead(p)
           /\ Goto(p, "open")
           /\ ForgetPid(p)
           /\ UNCHANGED <<creator, written, dataVars, ends>>

TimeOut(p) == /\ At(p, "judge")
              /\ ~JudgedDead(p)
              /\ Goto(p, "idle")
              /\ ForgetPid(p)
              /\ Forget(p)
              /\ UNCHANGED <<creator, written, file, ends>>

\* _break_stale_lock unlinks whatever file is at lock_path by now.
BreakStale(p) == /\ At(p, "unlinkStale")
                 /\ RemoveLockFile
                 /\ Goto(p, "open")
                 /\ UNCHANGED <<seen, dataVars, ends>>

-----------------------------------------------------------------------------
(* The body of the operation, under the lock *)

\* The operation has no file left to work on.
OnLastFile(p) == op[p].kind = "append" \/ cur[p] = "temp"

\* Go to the next file, or release the lock.
Advance(p) == IF OnLastFile(p)
              THEN Goto(p, "release") /\ UNCHANGED cur
              ELSE /\ Goto(p, FirstStep(op[p]))
                   /\ cur' = [cur EXCEPT ![p] = "temp"]

\* _read_path; append returns early when the key is already in the file,
\* read_all only reads.
Read(p) ==
  /\ At(p, "read")
  /\ snapshot' = [snapshot EXCEPT ![p] = file[cur[p]]]
  /\ \/ /\ op[p].kind = "readAll"
        /\ Advance(p)
     \/ /\ op[p].kind = "append" /\ op[p].keys \subseteq file[cur[p]]
        /\ Goto(p, "release") /\ UNCHANGED cur
     \/ /\ op[p].kind = "remove"
           \/ (op[p].kind = "append" /\ ~(op[p].keys \subseteq file[cur[p]]))
        /\ Goto(p, "write") /\ UNCHANGED cur
  /\ UNCHANGED <<lockVars, op, file, ends>>

\* The new content, computed from what was read.
Updated(o, keys) == CASE o.kind = "append" -> keys \cup o.keys
                      [] o.kind = "remove" -> keys \ o.keys
                      [] OTHER -> {}

\* _write_path replaces the file in one step (temporary file and rename).
Write(p) == /\ At(p, "write")
            /\ file' = [file EXCEPT ![cur[p]] = Updated(op[p], snapshot[p])]
            /\ snapshot' = [snapshot EXCEPT ![p] = {}]
            /\ Advance(p)
            /\ UNCHANGED <<lockVars, op, ends>>

\* _release_process_lock unlinks whatever file is at lock_path.
Release(p) == /\ At(p, "release")
              /\ RemoveLockFile
              /\ Goto(p, "idle")
              /\ Forget(p)
              /\ UNCHANGED <<seen, file, ends>>

-----------------------------------------------------------------------------
\* The steps of a running process that its scheduler owes it; starting and
\* ending are the environment's.
Step(p) == \/ Call(p) \/ Open(p) \/ WritePid(p)
           \/ ReadPid(p) \/ FindStale(p) \/ Wait(p) \/ TimeOut(p)
           \/ BreakStale(p)
           \/ Read(p) \/ Write(p) \/ Release(p)

Next == \E p \in Proc : Start(p) \/ End(p) \/ Step(p)

Spec == Init /\ [][Next]_vars

\* A running process keeps being scheduled, and the edge program calls the
\* cache again and again (each frame publishes through it).
FairSpec == Spec /\ \A p \in Proc : WF_vars(Step(p))

-----------------------------------------------------------------------------
TypeOK == /\ pc \in [Proc -> Location]
          /\ creator \in Proc \cup {NoProc}
          /\ written \in Pid \cup {NoPid}
          /\ seen \in [Proc -> Pid \cup {NoPid}]
          /\ op \in [Proc -> Operation \cup {NoOperation}]
          /\ cur \in [Proc -> File]
          /\ snapshot \in [Proc -> SUBSET Key]
          /\ file \in [File -> SUBSET Key]
          /\ ends \in 0..MaxEnds

InCritical(p) == pc[p] \in {"read", "write", "release"}

\* "Acquire an inter-process lock" (file_cache.py, _acquire_process_lock): no
\* two processes are inside the cache operations at the same time.
MutualExclusion ==
  \A p, q \in Proc : InCritical(p) /\ InCritical(q) => p = q

\* The lock holds while no process has ended: breaking a lock is the only way
\* in which it can go wrong.
MutualExclusionWhileAllLive == ends = 0 => MutualExclusion

\* No lost update while no process has ended: what a process is about to write
\* back was computed from the content the file still has.
NoLostUpdateWhileAllLive ==
  ends = 0 =>
    \A p \in Proc :
      pc[p] = "write" /\ op[p].kind # "clear" => snapshot[p] = file[cur[p]]

\* A lock is never broken under a process that is between creating the lock
\* file and removing it, while no process has ended: nobody gets as far as
\* judging a pid dead, even though pids are read from a file that may be gone,
\* empty or another's by the time they are used.
LockIsNeverBrokenWhileAllLive ==
  ends = 0 => \A p \in Proc : pc[p] # "unlinkStale"

\* The cache files change as the abstract cache's do, one change at a time,
\* each applied to the content the file has at that moment: an append adds
\* its key to what is there and takes nothing away, whoever crashes where.
\* (For two processes, or one at a time; with three, breaking a lock is not safe.)
Abstract == INSTANCE AtomicCache WITH content <- file
ImplementsAtomicCache == Abstract!Spec

\* A lock file whose creator ended after writing its pid is removed by some
\* other process, if one is running: dead owners are recovered from.
LeftBehind(p) == creator = p /\ pc[p] = "ended"
SomeoneRuns == \E p \in Proc : Running(p)
ReadableStaleLockIsRemoved ==
  \A p \in Proc : LeftBehind(p) /\ written = PidOf[p]
                    ~> ~LeftBehind(p) \/ ~SomeoneRuns

=============================================================================
