-------------------------- MODULE CacheLockProofs --------------------------
(***************************************************************************)
(* Proofs about CacheLock, for every set of processes, every assignment of *)
(* pids to them (reused or not) and every set of keys: while no process    *)
(* has ended, the lock file protocol excludes, no lock is broken, and no   *)
(* write of a cache file is computed from outdated content; and it goes on *)
(* to exclude after that as long as one process runs at a time.            *)
(***************************************************************************)
EXTENDS CacheLock, TLAPS

USE ProcAssumption, PidAssumption, MaxEndsAssumption

-----------------------------------------------------------------------------
(* Types *)

\* What is computed from keys of events is a set of keys of events.
LEMMA UpdatedType ==
  ASSUME NEW o \in Operation \cup {NoOperation}, NEW keys \in SUBSET Key
  PROVE  Updated(o, keys) \in SUBSET Key
BY DEF Updated, Operation, NoOperation

LEMMA FirstStepType ==
  ASSUME NEW o PROVE FirstStep(o) \in {"read", "write"}
BY DEF FirstStep

\* Advancing goes to a place in the code and to one of the two files.
LEMMA AdvanceType ==
  ASSUME TypeOK, NEW p \in Proc, Advance(p)
  PROVE  /\ pc' = [pc EXCEPT ![p] = pc'[p]]
         /\ pc'[p] \in {"read", "write", "release"}
         /\ cur' \in [Proc -> File]
BY FirstStepType DEF Advance, OnLastFile, Goto, TypeOK, File

LEMMA OperationFields ==
  ASSUME NEW o \in Operation PROVE o.first \in File /\ o.keys \in SUBSET Key
BY DEF Operation, File

\* Every variable keeps its type: in particular the pid in the lock file is a
\* pid or absent and a cache file only ever holds keys of events.
THEOREM TypeCorrect == Spec => []TypeOK
<1>1. Init => TypeOK
  BY DEF Init, TypeOK, Location, File
<1>2. TypeOK /\ [Next]_vars => TypeOK'
  <2> SUFFICES ASSUME TypeOK, [Next]_vars PROVE TypeOK'
    OBVIOUS
  <2> USE DEF TypeOK, Location, Goto, At, lockVars, dataVars, RemoveLockFile,
              Forget, ForgetPid
  <2>1. ASSUME NEW p \in Proc, Start(p) PROVE TypeOK'
    BY <2>1 DEF Start
  <2>2. ASSUME NEW p \in Proc, End(p) PROVE TypeOK'
    BY <2>2 DEF End
  <2>3. ASSUME NEW p \in Proc, Call(p) PROVE TypeOK'
    BY <2>3, OperationFields DEF Call
  <2>4. ASSUME NEW p \in Proc, Open(p) PROVE TypeOK'
    BY <2>4 DEF Open
  <2>5. ASSUME NEW p \in Proc, WritePid(p) PROVE TypeOK'
    BY <2>5, FirstStepType DEF WritePid
  <2>6. ASSUME NEW p \in Proc, ReadPid(p) PROVE TypeOK'
    BY <2>6 DEF ReadPid
  <2>7. ASSUME NEW p \in Proc, FindStale(p) \/ Wait(p) PROVE TypeOK'
    BY <2>7 DEF FindStale, Wait
  <2>8. ASSUME NEW p \in Proc, TimeOut(p) PROVE TypeOK'
    BY <2>8 DEF TimeOut, File
  <2>9. ASSUME NEW p \in Proc, BreakStale(p) PROVE TypeOK'
    BY <2>9 DEF BreakStale
  <2>10. ASSUME NEW p \in Proc, Read(p) PROVE TypeOK'
    <3>1. snapshot' \in [Proc -> SUBSET Key]
      BY <2>10 DEF Read
    <3>2. pc' \in [Proc -> Location] /\ cur' \in [Proc -> File]
      <4>1. CASE Advance(p)
        BY <4>1, AdvanceType
      <4>2. CASE ~Advance(p)
        BY <2>10, <4>2 DEF Read
      <4>3. QED BY <4>1, <4>2
    <3>3. QED BY <2>10, <3>1, <3>2 DEF Read
  <2>11. ASSUME NEW p \in Proc, Write(p) PROVE TypeOK'
    <3>1. file' \in [File -> SUBSET Key]
      BY <2>11, UpdatedType DEF Write
    <3>2. pc' \in [Proc -> Location] /\ cur' \in [Proc -> File]
      BY <2>11, AdvanceType DEF Write
    <3>3. QED BY <2>11, <3>1, <3>2 DEF Write
  <2>12. ASSUME NEW p \in Proc, Release(p) PROVE TypeOK'
    BY <2>12 DEF Release, File
  <2>13. CASE UNCHANGED vars
    BY <2>13 DEF vars
  <2>14. QED
    BY <2>1, <2>2, <2>3, <2>4, <2>5, <2>6, <2>7, <2>8, <2>9, <2>10, <2>11,
       <2>12, <2>13 DEF Next, Step
<1>3. QED BY <1>1, <1>2, PTL DEF Spec

-----------------------------------------------------------------------------
(* Exclusion while all processes live *)

\* p has created the lock file and not yet removed it.
Holding(p) == pc[p] \in {"writePid", "read", "write", "release"}

\* The lock file is at its path exactly while its creator is between creating
\* and removing it.
LockFileIsHeld == /\ \A p \in Proc : Holding(p) => creator = p
                  /\ creator # NoProc => Holding(creator)

\* A pid in the lock file is its creator's, and a pid that was read from a lock
\* file, present or gone, is that of a running process.
PidsAreAlive == /\ written # NoPid => creator # NoProc /\ written = PidOf[creator]
                /\ \A p \in Proc : seen[p] # NoPid => Alive(seen[p])

NobodyBreaks == \A p \in Proc : pc[p] \notin {"ended", "unlinkStale"}

SnapshotIsCurrent ==
  \A p \in Proc :
    pc[p] = "write" /\ op[p].kind # "clear" => snapshot[p] = file[cur[p]]

\* The inductive invariant.  MutualExclusion alone is not inductive: it has to
\* be known that the lock file of a process inside the cache is still there.
LockInv == ends = 0 => LockFileIsHeld /\ PidsAreAlive /\ NobodyBreaks
                         /\ SnapshotIsCurrent

LEMMA LockInvInit == Init => LockInv
BY DEF Init, LockInv, LockFileIsHeld, PidsAreAlive, NobodyBreaks, Holding,
       SnapshotIsCurrent

\* A step in which nobody ends leaves the pids of running processes alive.
LEMMA AliveStaysAlive ==
  ASSUME TypeOK, NEW p \in Proc, NEW there \in Location, Goto(p, there),
         there \notin {"unborn", "ended"}, NEW pid, Alive(pid)
  PROVE  Alive(pid)'
BY DEF TypeOK, Goto, Alive, Running, Location

\* Nobody else can be at the write step while p holds the lock.
LEMMA WriterIsAlone ==
  ASSUME LockFileIsHeld, NEW p \in Proc, Holding(p)
  PROVE  \A q \in Proc : q # p => ~Holding(q)
BY DEF LockFileIsHeld

LEMMA LockInvStep == TypeOK /\ LockInv /\ [Next]_vars => LockInv'
<1> SUFFICES ASSUME TypeOK, LockInv, [Next]_vars, ends' = 0
             PROVE  (LockFileIsHeld /\ PidsAreAlive /\ NobodyBreaks
                      /\ SnapshotIsCurrent)'
  BY DEF LockInv
<1>1. ends = 0
  BY DEF Next, Step, vars, Start, End, Call, Open, WritePid, ReadPid,
         FindStale, Wait, TimeOut, BreakStale, Read, Write, Release, TypeOK
<1>2. LockFileIsHeld /\ PidsAreAlive /\ NobodyBreaks /\ SnapshotIsCurrent
  BY <1>1 DEF LockInv
<1> DEFINE Conclusion == (LockFileIsHeld /\ PidsAreAlive /\ NobodyBreaks
                           /\ SnapshotIsCurrent)'
<1>3. ASSUME NEW p \in Proc, Start(p) PROVE Conclusion
  <2>1. \A pid : Alive(pid) => Alive(pid)'
    BY <1>3, AliveStaysAlive DEF Start, Location
  <2>2. LockFileIsHeld' /\ NobodyBreaks' /\ SnapshotIsCurrent'
    BY <1>2, <1>3 DEF Start, LockFileIsHeld, Holding, NobodyBreaks, TypeOK,
       SnapshotIsCurrent, Goto, At, lockVars, dataVars
  <2>3. PidsAreAlive'
    BY <1>2, <1>3, <2>1 DEF Start, PidsAreAlive, lockVars
  <2>4. QED BY <2>2, <2>3
<1>4. ASSUME NEW p \in Proc, End(p) PROVE Conclusion
  BY <1>1, <1>4 DEF End
<1>5. ASSUME NEW p \in Proc, Step(p) PROVE Conclusion
  <2>1. \A pid : Alive(pid) => Alive(pid)'
    <3>1. PICK there \in Location \ {"unborn", "ended"} : Goto(p, there)
      <4>1. CASE Read(p)
        BY <4>1, AdvanceType DEF Read, Goto, Location, TypeOK
      <4>2. CASE Write(p)
        BY <4>2, AdvanceType DEF Write, Goto, Location, TypeOK
      <4>3. CASE WritePid(p)
        BY <4>3, FirstStepType DEF WritePid, Location
      <4>4. CASE ~Read(p) /\ ~Write(p) /\ ~WritePid(p)
        BY <1>5, <4>4 DEF Step, Call, Open, ReadPid, FindStale, Wait, TimeOut,
           BreakStale, Release, Location
      <4>5. QED BY <4>1, <4>2, <4>3, <4>4
    <3>2. QED BY <3>1, AliveStaysAlive
  <2> USE DEF LockFileIsHeld, PidsAreAlive, NobodyBreaks, SnapshotIsCurrent,
              Holding, TypeOK, Goto, At, lockVars, dataVars, RemoveLockFile,
              Forget, ForgetPid
  <2>2. ASSUME Call(p) PROVE Conclusion
    BY <1>2, <2>1, <2>2 DEF Call
  <2>3. ASSUME Open(p) PROVE Conclusion
    BY <1>2, <2>1, <2>3 DEF Open, CanCreate, LockFileExists
  <2>4. ASSUME WritePid(p) PROVE Conclusion
    BY <1>2, <2>1, <2>4 DEF WritePid, FirstStep
  <2>5. ASSUME ReadPid(p) PROVE Conclusion
    <3>1. written # NoPid => Alive(written)
      BY <1>2 DEF Alive, Running
    <3>2. QED BY <1>2, <2>1, <2>5, <3>1 DEF ReadPid
  <2>6. ASSUME FindStale(p) PROVE Conclusion
    BY <1>2, <2>6 DEF FindStale, JudgedDead
  <2>7. ASSUME Wait(p) PROVE Conclusion
    BY <1>2, <2>1, <2>7 DEF Wait
  <2>8. ASSUME TimeOut(p) PROVE Conclusion
    BY <1>2, <2>1, <2>8 DEF TimeOut
  <2>9. ASSUME BreakStale(p) PROVE Conclusion
    BY <1>2, <2>9 DEF BreakStale
  <2>10. ASSUME Read(p) PROVE Conclusion
    <3>1. pc'[p] \in {"read", "write", "release"} /\ pc' = [pc EXCEPT ![p] = pc'[p]]
      BY <2>10, AdvanceType DEF Read
    <3>2. LockFileIsHeld' /\ PidsAreAlive' /\ NobodyBreaks'
      BY <1>2, <2>1, <2>10, <3>1 DEF Read
    <3>3. SnapshotIsCurrent'
      <4>1. pc'[p] = "write" => cur'[p] = cur[p]
        BY <2>10 DEF Read, Advance, FirstStep
      <4>2. \A q \in Proc : q # p => pc'[q] # "write"
        BY <1>2, <2>10, <3>1, WriterIsAlone DEF Read
      <4>3. QED BY <2>10, <4>1, <4>2 DEF Read
    <3>4. QED BY <3>2, <3>3
  <2>11. ASSUME Write(p) PROVE Conclusion
    <3>1. pc'[p] \in {"read", "write", "release"} /\ pc' = [pc EXCEPT ![p] = pc'[p]]
      BY <2>11, AdvanceType DEF Write
    <3>2. LockFileIsHeld' /\ PidsAreAlive' /\ NobodyBreaks'
      BY <1>2, <2>1, <2>11, <3>1 DEF Write
    <3>3. SnapshotIsCurrent'
      <4>1. pc'[p] = "write" => op'[p].kind = "clear"
        BY <2>11 DEF Write, Advance, FirstStep
      <4>2. \A q \in Proc : q # p => pc'[q] # "write"
        BY <1>2, <2>11, <3>1, WriterIsAlone DEF Write
      <4>3. QED BY <4>1, <4>2
    <3>4. QED BY <3>2, <3>3
  <2>12. ASSUME Release(p) PROVE Conclusion
    BY <1>2, <2>1, <2>12 DEF Release
  <2>13. QED
    BY <1>5, <2>2, <2>3, <2>4, <2>5, <2>6, <2>7, <2>8, <2>9, <2>10, <2>11,
       <2>12 DEF Step
<1>6. CASE UNCHANGED vars
  BY <1>2, <1>6 DEF vars, lockVars, dataVars, LockFileIsHeld, PidsAreAlive,
     NobodyBreaks, SnapshotIsCurrent, Holding, Alive, Running
<1>7. QED BY <1>3, <1>4, <1>5, <1>6 DEF Next

LEMMA LockInvariance == Spec => []LockInv
<1>1. QED BY LockInvInit, LockInvStep, TypeCorrect, PTL DEF Spec

\* No two processes are inside the cache operations at once, as long as no
\* process has ended: whatever the number of processes, their timing, their
\* timeouts and the pids they run under.
THEOREM ExclusionWhileAllLive == Spec => []MutualExclusionWhileAllLive
<1>1. LockInv => MutualExclusionWhileAllLive
  BY DEF LockInv, LockFileIsHeld, Holding, MutualExclusionWhileAllLive,
         MutualExclusion, InCritical
<1>2. QED BY <1>1, LockInvariance, PTL

\* No write-back is computed from outdated content, as long as no process has
\* ended: appends and removals of different processes do not undo each other.
THEOREM NoLostUpdate == Spec => []NoLostUpdateWhileAllLive
<1>1. LockInv => NoLostUpdateWhileAllLive
  BY DEF LockInv, SnapshotIsCurrent, NoLostUpdateWhileAllLive
<1>2. QED BY <1>1, LockInvariance, PTL

\* No process gets as far as breaking a lock, as long as no process has ended.
THEOREM NoBreakingWhileAllLive == Spec => []LockIsNeverBrokenWhileAllLive
<1>1. LockInv => LockIsNeverBrokenWhileAllLive
  BY DEF LockInv, NobodyBreaks, LockIsNeverBrokenWhileAllLive
<1>2. QED BY <1>1, LockInvariance, PTL
-----------------------------------------------------------------------------
(* Refinement *)

\* A write computed from the current content is an atomic change.
LEMMA CurrentWriteIsAtomic ==
  ASSUME TypeOK, SnapshotIsCurrent, NEW p \in Proc, Write(p)
  PROVE  Abstract!Next
<1>1. cur[p] \in File /\ op[p] \in Operation \cup {NoOperation}
  BY DEF TypeOK
<1>2. op[p].kind # "clear" => snapshot[p] = file[cur[p]]
  BY DEF Write, At, SnapshotIsCurrent
<1>3. CASE op[p].kind = "append"
  <2>1. PICK k \in Key : op[p].keys = {k}
    BY <1>1, <1>3 DEF Operation, NoOperation
  <2>2. file' = [file EXCEPT ![cur[p]] = @ \cup {k}]
    BY <1>2, <1>3, <2>1 DEF Write, Updated
  <2>3. Abstract!Store(cur[p], k)
    BY <2>2 DEF Abstract!Store
  <2>4. QED BY <1>1, <2>3 DEF Abstract!Next
<1>4. CASE op[p].kind = "remove"
  <2>1. op[p].keys \in SUBSET Key
    BY <1>1, <1>4 DEF Operation, NoOperation
  <2>2. file' = [file EXCEPT ![cur[p]] = @ \ op[p].keys]
    BY <1>2, <1>4 DEF Write, Updated
  <2>3. Abstract!Discard(cur[p], op[p].keys)
    BY <2>2 DEF Abstract!Discard
  <2>4. QED BY <1>1, <2>1, <2>3 DEF Abstract!Next
<1>5. CASE op[p].kind \notin {"append", "remove"}
  <2>1. file' = [file EXCEPT ![cur[p]] = {}]
    BY <1>5 DEF Write, Updated
  <2>2. QED BY <1>1, <2>1 DEF Abstract!Next, Abstract!Empty
<1>6. QED BY <1>3, <1>4, <1>5

-----------------------------------------------------------------------------
(* Exclusion when processes end *)

\* Once a process has ended, at most one runs: the program is the only one that
\* uses the cache directory, however often it crashes and is started again, or
\* one of two has ended.
OneSurvivor ==
  ends > 0 => \A p, q \in Proc : Running(p) /\ Running(q) => p = q

\* The file at the path is that of whoever is inside, and what is to be written
\* back is computed from the file as it is.  A lock of a process that ended may
\* be at the path, be broken, or have been.
SurvivorInv == /\ \A p \in Proc : Holding(p) => creator = p
               /\ SnapshotIsCurrent

LEMMA HolderIsAlone ==
  ASSUME SurvivorInv, NEW p \in Proc, Holding(p)
  PROVE  \A q \in Proc : q # p => ~Holding(q)
BY DEF SurvivorInv

\* Nobody else is inside when a lock is broken: while no process has ended none
\* is, and afterwards nobody else runs.
LEMMA BreakerIsAlone ==
  ASSUME TypeOK, LockInv, OneSurvivor, NEW p \in Proc, At(p, "unlinkStale")
  PROVE  \A q \in Proc : ~Holding(q)
<1>1. ends # 0
  BY DEF LockInv, NobodyBreaks, At
<1>2. ends > 0
  BY <1>1 DEF TypeOK
<1>3. Running(p)
  BY DEF Running, At
<1> QED  BY <1>2, <1>3 DEF OneSurvivor, Holding, Running, At

LEMMA SurvivorStep ==
  TypeOK /\ LockInv /\ OneSurvivor /\ SurvivorInv /\ [Next]_vars => SurvivorInv'
<1> SUFFICES ASSUME TypeOK, LockInv, OneSurvivor, SurvivorInv, [Next]_vars
             PROVE  SurvivorInv'
  OBVIOUS
<1> USE DEF TypeOK, Goto, At, lockVars, dataVars
<1>1. ASSUME NEW p \in Proc, Start(p) \/ End(p) PROVE SurvivorInv'
  BY <1>1 DEF Start, End, SurvivorInv, SnapshotIsCurrent, Holding
<1>2. ASSUME NEW p \in Proc, Call(p) \/ ReadPid(p) \/ FindStale(p) \/ Wait(p)
      PROVE  SurvivorInv'
  BY <1>2 DEF Call, ReadPid, FindStale, Wait, SurvivorInv, SnapshotIsCurrent, Holding
<1>3. ASSUME NEW p \in Proc, TimeOut(p) PROVE SurvivorInv'
  BY <1>3 DEF TimeOut, Forget, SurvivorInv, SnapshotIsCurrent, Holding
<1>4. ASSUME NEW p \in Proc, Open(p) PROVE SurvivorInv'
  <2>1. CanCreate => \A q \in Proc : ~Holding(q)
    BY DEF SurvivorInv, CanCreate, LockFileExists
  <2> QED  BY <1>4, <2>1 DEF Open, SurvivorInv, SnapshotIsCurrent, Holding
<1>5. ASSUME NEW p \in Proc, WritePid(p) PROVE SurvivorInv'
  <2>1. Holding(p) /\ creator' = creator
    BY <1>5 DEF WritePid, Holding
  <2>2. \A q \in Proc : q # p => ~Holding(q)
    BY <2>1, HolderIsAlone
  <2> QED  BY <1>5, <2>1, <2>2
           DEF WritePid, FirstStep, SurvivorInv, SnapshotIsCurrent, Holding
<1>6. ASSUME NEW p \in Proc, BreakStale(p) PROVE SurvivorInv'
  <2>1. \A q \in Proc : ~Holding(q)
    BY <1>6, BreakerIsAlone DEF BreakStale
  <2> QED  BY <1>6, <2>1 DEF BreakStale, SurvivorInv, SnapshotIsCurrent, Holding
<1>7. ASSUME NEW p \in Proc, Read(p) PROVE SurvivorInv'
  <2>1. Holding(p) /\ creator' = creator
    BY <1>7 DEF Read, Holding
  <2>2. \A q \in Proc : q # p => ~Holding(q)
    BY <2>1, HolderIsAlone
  <2>3. pc'[p] \in {"read", "write", "release"} /\ pc' = [pc EXCEPT ![p] = pc'[p]]
    BY <1>7, AdvanceType DEF Read
  <2>4. pc'[p] = "write" => cur'[p] = cur[p]
    BY <1>7 DEF Read, Advance, FirstStep
  <2>5. SnapshotIsCurrent'
    BY <1>7, <2>2, <2>3, <2>4 DEF Read, SnapshotIsCurrent, Holding
  <2> QED  BY <2>1, <2>2, <2>3, <2>5 DEF SurvivorInv, Holding
<1>8. ASSUME NEW p \in Proc, Write(p) PROVE SurvivorInv'
  <2>1. Holding(p) /\ creator' = creator
    BY <1>8 DEF Write, Holding
  <2>2. \A q \in Proc : q # p => ~Holding(q)
    BY <2>1, HolderIsAlone
  <2>3. pc'[p] \in {"read", "write", "release"} /\ pc' = [pc EXCEPT ![p] = pc'[p]]
    BY <1>8, AdvanceType DEF Write
  <2>4. pc'[p] = "write" => op'[p].kind = "clear"
    BY <1>8 DEF Write, Advance, FirstStep
  <2>5. SnapshotIsCurrent'
    BY <1>8, <2>2, <2>3, <2>4 DEF Write, SnapshotIsCurrent, Holding
  <2> QED  BY <2>1, <2>2, <2>3, <2>5 DEF SurvivorInv, Holding
<1>9. ASSUME NEW p \in Proc, Release(p) PROVE SurvivorInv'
  <2>1. \A q \in Proc : q # p => ~Holding(q)
    BY <1>9, HolderIsAlone DEF Release, Holding
  <2> QED  BY <1>9, <2>1
           DEF Release, Forget, SurvivorInv, SnapshotIsCurrent, Holding
<1>10. CASE UNCHANGED vars
  BY <1>10 DEF vars, SurvivorInv, SnapshotIsCurrent, Holding
<1> QED
  BY <1>1, <1>2, <1>3, <1>4, <1>5, <1>6, <1>7, <1>8, <1>9, <1>10 DEF Next, Step

LEMMA SurvivorInvariance == Spec /\ []OneSurvivor => []SurvivorInv
<1>1. Init => SurvivorInv
  BY DEF Init, SurvivorInv, SnapshotIsCurrent, Holding
<1> QED  BY <1>1, SurvivorStep, LockInvariance, TypeCorrect, PTL DEF Spec

\* Nobody is inside with somebody else, also when processes crash, as long as a
\* process that finds a lock left behind is the only one running.
THEOREM ExclusionOfSurvivors == Spec /\ []OneSurvivor => []MutualExclusion
<1>1. SurvivorInv => MutualExclusion
  BY DEF SurvivorInv, Holding, MutualExclusion, InCritical
<1> QED  BY <1>1, SurvivorInvariance, PTL

\* The cache under its lock is the abstract cache, through every crash that
\* leaves at most one process running: the reads and writes of concurrent or
\* interrupted operations amount to one atomic change each, or to none.
THEOREM CacheIsAtomic == Spec /\ []OneSurvivor => ImplementsAtomicCache
<1>1. Init => Abstract!Init
  BY DEF Init, Abstract!Init
<1>2. TypeOK /\ SurvivorInv /\ [Next]_vars => [Abstract!Next]_file
  <2> SUFFICES ASSUME TypeOK, SurvivorInv, [Next]_vars, file' # file
               PROVE  Abstract!Next
    OBVIOUS
  <2>1. PICK p \in Proc : Write(p)
    BY DEF Next, Step, vars, dataVars, Start, End, Call, Open, WritePid,
       ReadPid, FindStale, Wait, TimeOut, BreakStale, Read, Release
  <2> QED  BY <2>1, CurrentWriteIsAtomic DEF SurvivorInv
<1> QED
  BY <1>1, <1>2, TypeCorrect, SurvivorInvariance, PTL
     DEF Spec, ImplementsAtomicCache, Abstract!Spec

\* For any number of processes none of which ends, ...
THEOREM CacheIsAtomicWhileAllLive == MaxEnds = 0 => (Spec => ImplementsAtomicCache)
<1> SUFFICES ASSUME MaxEnds = 0 PROVE Spec => ImplementsAtomicCache
  OBVIOUS
<1>1. TypeOK => OneSurvivor
  BY DEF TypeOK, OneSurvivor
<1> QED  BY <1>1, TypeCorrect, CacheIsAtomic, PTL

\* ... and for two processes of which each may end anywhere, the only premise is
\* the specification.
EndsAreSeen == ends = 0 \/ \E p \in Proc : pc[p] = "ended"

THEOREM CacheOfTwoIsAtomic ==
  ASSUME NEW a, NEW b, Proc = {a, b}
  PROVE  Spec => ImplementsAtomicCache
<1>1. Init => EndsAreSeen
  BY DEF Init, EndsAreSeen
<1>2. TypeOK /\ EndsAreSeen /\ [Next]_vars => EndsAreSeen'
  <2> SUFFICES ASSUME TypeOK, EndsAreSeen, [Next]_vars PROVE EndsAreSeen'
    OBVIOUS
  <2>1. ASSUME NEW p \in Proc, End(p) PROVE EndsAreSeen'
    BY <2>1 DEF End, EndsAreSeen, Goto, TypeOK
  <2>2. ASSUME NEW p \in Proc, Start(p) \/ Step(p)
        PROVE  /\ ends' = ends /\ pc[p] # "ended"
               /\ \A q \in Proc : q # p => pc'[q] = pc[q]
    BY <2>2 DEF Step, Start, Call, Open, WritePid, ReadPid, FindStale, Wait, TimeOut,
       BreakStale, Read, Write, Release, Advance, Goto, At, TypeOK
  <2>3. ASSUME NEW p \in Proc, Start(p) \/ Step(p) PROVE EndsAreSeen'
    BY <2>2, <2>3 DEF EndsAreSeen
  <2>4. CASE UNCHANGED vars
    BY <2>4 DEF vars, EndsAreSeen
  <2> QED  BY <2>1, <2>3, <2>4 DEF Next
<1>3. EndsAreSeen => OneSurvivor
  BY DEF EndsAreSeen, OneSurvivor, Running
<1> QED  BY <1>1, <1>2, <1>3, TypeCorrect, CacheIsAtomic, PTL DEF Spec
=============================================================================
