-------------------------- MODULE ProcessPool_proofs --------------------------
(***************************************************************************)
(* Proofs about the process pool, for every set of calls, keys and         *)
(* subprocesses and every pool size.                                       *)
(***************************************************************************)
EXTENDS ProcessPoolProps, TLAPS

(* The two helpers every kill and every hand-out goes through keep types.  *)
LEMMA PopAndKillType ==
  ASSUME TypeOK, NEW a \in Calls \cup Sweepers, NEW k \in Registered,
         PopAndKill(a, k)
  PROVE  /\ processes' \in [Keys -> Procs \cup {None}]
         /\ status' \in [Procs -> {"unborn", "alive", "dying", "dead"}]
         /\ victim' \in [Calls \cup Sweepers -> Procs \cup {None}]
BY DEF PopAndKill, TypeOK, Registered

LEMMA ObtainType ==
  ASSUME TypeOK, NEW c \in Calls, NEW p \in Procs, NEW ready \in BOOLEAN,
         Obtain(c, p, ready)
  PROVE  /\ managed' \in [Calls -> Procs \cup {None}]
         /\ pc' \in [Calls -> CallPlaces]
         /\ pendingInit' \in SUBSET Keys
<1>1. managed' \in [Calls -> Procs \cup {None}]
  BY DEF Obtain, TypeOK
<1>2. CASE ready
  BY <1>1, <1>2 DEF Obtain, TypeOK, MoveTo, CallPlaces
<1>3. CASE ~ready
  <2>1. pc' \in [Calls -> CallPlaces]
    BY <1>3 DEF Obtain, TypeOK, MoveTo, CallPlaces
  <2>2. pendingInit' \in SUBSET Keys
    <3>1. CallKey[c] \in Keys
      BY PoolAssumption
    <3>2. pendingInit' = pendingInit \cup {CallKey[c]}
      BY <1>3 DEF Obtain, Protected
    <3>3. pendingInit \in SUBSET Keys
      BY DEF TypeOK
    <3>4. QED
      BY <3>1, <3>2, <3>3
  <2>3. QED
    BY <1>1, <2>1, <2>2
<1>4. QED
  BY <1>2, <1>3

LEMMA ReuseType ==
  ASSUME TypeOK, NEW c \in Calls, Usable(CallKey[c]), Reuse(c)
  PROVE  TypeOK'
<1>1. processes[CallKey[c]] \in Procs /\ isReady[processes[CallKey[c]]] \in BOOLEAN
  BY PoolAssumption DEF TypeOK, Usable
<1>2. /\ managed' \in [Calls -> Procs \cup {None}]
      /\ pc' \in [Calls -> CallPlaces]
      /\ pendingInit' \in SUBSET Keys
  BY <1>1, ObtainType DEF Reuse
<1>3. QED
  BY <1>1, <1>2 DEF Reuse, TypeOK, sweepVars

LEMMA MakeRoomType ==
  ASSUME TypeOK, NEW c \in Calls, MakeRoom(c)
  PROVE  TypeOK'
<1>1. creationLock' \in [Keys -> Calls \cup {None}]
  BY PoolAssumption DEF TypeOK, MakeRoom
<1>2. /\ pc' \in [Calls -> CallPlaces]
      /\ processes' \in [Keys -> Procs \cup {None}]
      /\ status' \in [Procs -> {"unborn", "alive", "dying", "dead"}]
      /\ victim' \in [Calls \cup Sweepers -> Procs \cup {None}]
  <2>1. CASE Cardinality(Registered) < PoolMax \/ Evictable = {}
    BY <2>1 DEF MakeRoom, TypeOK, MoveTo, CallPlaces
  <2>2. CASE ~(Cardinality(Registered) < PoolMax \/ Evictable = {})
    <3>1. PICK k \in LeastRecent(Evictable) : PopAndKill(c, k)
      BY <2>2 DEF MakeRoom
    <3>2. k \in Registered
      BY DEF LeastRecent, Evictable
    <3>3. pc' \in [Calls -> CallPlaces]
      BY <2>2 DEF MakeRoom, TypeOK, MoveTo, CallPlaces
    <3>4. QED
      BY <3>1, <3>2, <3>3, PopAndKillType
  <2>3. QED
    BY <2>1, <2>2
<1>3. QED
  BY <1>1, <1>2 DEF MakeRoom, TypeOK, sweepVars

LEMMA SweepType ==
  ASSUME TypeOK, NEW s \in Sweepers, NEW S \in SUBSET Keys, SweepOn(s, S),
         SweepUnchanged, UNCHANGED shutdown
  PROVE  TypeOK'
<1>1. CASE /\ swPc' = [swPc EXCEPT ![s] = IF s = "cleanup" /\ ~shutdown
                                          THEN "idle" ELSE "done"]
           /\ todo' = [todo EXCEPT ![s] = {}]
           /\ victim' = [victim EXCEPT ![s] = None]
           /\ UNCHANGED <<processes, status>>
  BY <1>1 DEF TypeOK, SweepUnchanged, callVars
<1>2. CASE \E k \in S \cap Registered, skipped \in SUBSET (S \ Registered) :
             /\ PopAndKill(s, k)
             /\ todo' = [todo EXCEPT ![s] = S \ (skipped \cup {k})]
             /\ swPc' = [swPc EXCEPT ![s] = "running"]
  <2>1. PICK k \in S \cap Registered, skipped \in SUBSET (S \ Registered) :
             /\ PopAndKill(s, k)
             /\ todo' = [todo EXCEPT ![s] = S \ (skipped \cup {k})]
             /\ swPc' = [swPc EXCEPT ![s] = "running"]
    BY <1>2
  <2>2. /\ processes' \in [Keys -> Procs \cup {None}]
        /\ status' \in [Procs -> {"unborn", "alive", "dying", "dead"}]
        /\ victim' \in [Calls \cup Sweepers -> Procs \cup {None}]
    BY <2>1, PopAndKillType
  <2>3. /\ todo' \in [Sweepers -> SUBSET Keys]
        /\ swPc' \in [Sweepers -> {"idle", "stopping", "running", "done"}]
    BY <2>1 DEF TypeOK
  <2>4. QED
    BY <2>2, <2>3 DEF TypeOK, SweepUnchanged, callVars
<1>3. QED
  BY <1>1, <1>2 DEF SweepOn

LEMMA TypeStep == TypeOK /\ Assigned /\ [Next]_vars => TypeOK'
<1> SUFFICES ASSUME TypeOK, Assigned, [Next]_vars PROVE TypeOK'
  OBVIOUS
<1> USE DEF poolVars, procVars, callVars, sweepVars
<1>1. ASSUME NEW c \in Calls, CallStep(c) PROVE TypeOK'
  <2>1. CASE RejectedByShutdown(c)
    BY <2>1 DEF RejectedByShutdown, TypeOK, MoveTo, CallPlaces
  <2>2. CASE FastPath(c)
    BY <2>2, ReuseType DEF FastPath
  <2>3. CASE QueueForCreation(c)
    BY <2>3 DEF QueueForCreation, TypeOK, MoveTo, CallPlaces
  <2>4. CASE DoubleCheckHit(c)
    BY <2>4, ReuseType DEF DoubleCheckHit
  <2>5. CASE EnterCreation(c)
    <3>1. CASE processes[CallKey[c]] = None
      BY <2>5, <3>1, MakeRoomType DEF EnterCreation
    <3>2. CASE processes[CallKey[c]] # None
      <4>1. CallKey[c] \in Registered
        BY <3>2, PoolAssumption DEF Registered
      <4>2. PopAndKill(c, CallKey[c])
        BY <2>5, <3>2 DEF EnterCreation
      <4>3. /\ creationLock' = [creationLock EXCEPT ![CallKey[c]] = c]
            /\ MoveTo(c, "killing_old")
        BY <2>5, <3>2 DEF EnterCreation
      <4>6. /\ creationLock' \in [Keys -> Calls \cup {None}]
            /\ pc' \in [Calls -> CallPlaces]
        BY <4>3, PoolAssumption DEF TypeOK, MoveTo, CallPlaces
      <4>4. /\ processes' \in [Keys -> Procs \cup {None}]
            /\ status' \in [Procs -> {"unborn", "alive", "dying", "dead"}]
            /\ victim' \in [Calls \cup Sweepers -> Procs \cup {None}]
        BY <4>1, <4>2, PopAndKillType
      <4>5. QED
        BY <2>5, <3>2, <4>6, <4>4 DEF EnterCreation, TypeOK
    <3>3. QED
      BY <3>1, <3>2
  <2>6. CASE OldKilled(c)
    BY <2>6, MakeRoomType DEF OldKilled
  <2>7. CASE Evicted(c)
    BY <2>7 DEF Evicted, TypeOK, MoveTo, CallPlaces
  <2>8. CASE Spawned(c)
    <3>1. PICK p \in Procs :
            /\ status' = [status EXCEPT ![p] = "alive"]
            /\ routingKey' = [routingKey EXCEPT ![p] = CallKey[c]]
            /\ lastUsed' = [lastUsed EXCEPT ![p] = now]
            /\ processes' = [processes EXCEPT ![CallKey[c]] = p]
            /\ Obtain(c, p, FALSE)
      BY <2>8 DEF Spawned
    <3>2. /\ managed' \in [Calls -> Procs \cup {None}]
          /\ pc' \in [Calls -> CallPlaces]
          /\ pendingInit' \in SUBSET Keys
      BY <3>1, ObtainType
    <3>3. creationLock' \in [Keys -> Calls \cup {None}]
      BY <2>8 DEF Spawned, CreationReleased, TypeOK
    <3>4. QED
      BY <2>8, <3>1, <3>2, <3>3, PoolAssumption DEF Spawned, TypeOK
  <2>9. CASE SpawnFails(c)
    BY <2>9 DEF SpawnFails, CreationReleased, TypeOK, MoveTo, CallPlaces
  <2>10. CASE InitDone(c)
    BY <2>10 DEF InitDone, LeaveInit, Unprotected, TypeOK, MoveTo, CallPlaces
  <2>11. CASE InitEOF(c)
    BY <2>11 DEF InitEOF, LeaveInit, Unprotected, TypeOK, MoveTo, CallPlaces
  <2>12. CASE InitConflict(c)
    BY <2>12 DEF InitConflict, LeaveInit, Unprotected, TypeOK, MoveTo, CallPlaces
  <2>13. CASE LockAndSend(c)
    <3>1. pipe' \in [Procs -> Seq(Calls)]
      <4>1. managed[c] \in Procs
        BY <2>13 DEF LockAndSend, Assigned
      <4>2. Append(pipe[managed[c]], c) \in Seq(Calls)
        BY <4>1 DEF TypeOK
      <4>3. QED
        BY <2>13, <4>2 DEF LockAndSend, TypeOK
    <3>2. /\ lock' \in [Procs -> Calls \cup {None}]
          /\ lastUsed' \in [Procs -> Nat]
          /\ pc' \in [Calls -> CallPlaces]
      BY <2>13 DEF LockAndSend, TypeOK, MoveTo, CallPlaces
    <3>3. QED
      BY <2>13, <3>1, <3>2 DEF LockAndSend, TypeOK
  <2>14. CASE LockDead(c)
    BY <2>14 DEF LockDead, TypeOK, MoveTo, CallPlaces
  <2>15. CASE PipeBroken(c)
    <3>1. CASE processes[CallKey[c]] = None
      BY <2>15, <3>1 DEF PipeBroken, TypeOK, MoveTo, CallPlaces
    <3>2. CASE processes[CallKey[c]] # None
      <4>1. /\ processes' \in [Keys -> Procs \cup {None}]
            /\ status' \in [Procs -> {"unborn", "alive", "dying", "dead"}]
            /\ victim' \in [Calls \cup Sweepers -> Procs \cup {None}]
        <5>1. CallKey[c] \in Registered
          BY <3>2, PoolAssumption DEF Registered
        <5>2. PopAndKill(c, CallKey[c])
          BY <2>15, <3>2 DEF PipeBroken
        <5>3. QED
          BY <5>1, <5>2, PopAndKillType
      <4>2. QED
        BY <2>15, <3>2, <4>1 DEF PipeBroken, TypeOK, MoveTo, CallPlaces
    <3>3. QED
      BY <3>1, <3>2
  <2>16. CASE BrokenKilled(c)
    BY <2>16 DEF BrokenKilled, Unlock, TypeOK, MoveTo, CallPlaces
  <2>17. CASE ReadResult(c)
    <3>0. managed[c] \in Procs
      BY <2>17 DEF ReadResult, Assigned, Holding
    <3>1. pipe[managed[c]] \in Seq(Calls) /\ pipe[managed[c]] # <<>>
      BY <2>17, <3>0 DEF ReadResult, TypeOK
    <3>2. /\ Head(pipe[managed[c]]) \in Calls
          /\ Tail(pipe[managed[c]]) \in Seq(Calls)
      BY <3>1
    <3>3. /\ pipe' \in [Procs -> Seq(Calls)]
          /\ answer' \in [Calls -> Calls \cup {None}]
      BY <2>17, <3>2 DEF ReadResult, Rest, TypeOK
    <3>4. /\ lock' \in [Procs -> Calls \cup {None}]
          /\ lastUsed' \in [Procs -> Nat]
          /\ pc' \in [Calls -> CallPlaces]
      BY <2>17 DEF ReadResult, Unlock, TypeOK, MoveTo, CallPlaces
    <3>5. QED
      BY <2>17, <3>3, <3>4 DEF ReadResult, TypeOK
  <2>18. CASE StreamInterrupted(c)
    <3>1. managed[c] \in Procs
      BY <2>18 DEF StreamInterrupted, Assigned, Holding
    <3>2. pipe' \in [Procs -> Seq(Calls)]
      <4>1. CASE UNCHANGED pipe
        BY <4>1 DEF TypeOK
      <4>2. CASE /\ pipe[managed[c]] # <<>>
                 /\ pipe' = [pipe EXCEPT ![managed[c]] = Rest(managed[c])]
        <5>1. Tail(pipe[managed[c]]) \in Seq(Calls)
          BY <4>2, <3>1 DEF TypeOK
        <5>2. QED
          BY <4>2, <5>1 DEF Rest, TypeOK
      <4>3. QED
        BY <2>18, <4>1, <4>2 DEF StreamInterrupted
    <3>3. isDirty' \in [Procs -> BOOLEAN]
      BY <2>18 DEF StreamInterrupted, DirtyAfter, Live, TypeOK
    <3>4. /\ lock' \in [Procs -> Calls \cup {None}]
          /\ pc' \in [Calls -> CallPlaces]
      BY <2>18 DEF StreamInterrupted, Unlock, TypeOK, MoveTo, CallPlaces
    <3>5. QED
      BY <2>18, <3>2, <3>3, <3>4 DEF StreamInterrupted, TypeOK
  <2>19. QED
    BY <1>1, <2>1, <2>2, <2>3, <2>4, <2>5, <2>6, <2>7, <2>8, <2>9, <2>10,
       <2>11, <2>12, <2>13, <2>14, <2>15, <2>16, <2>17, <2>18 DEF CallStep
<1>2. ASSUME NEW c \in Calls, Cancelled(c) PROVE TypeOK'
  BY <1>2 DEF Cancelled, CreationReleased, Unprotected, Unlock, TypeOK, MoveTo,
              CallPlaces
<1>3. CASE CleanupCycle
  BY <1>3, SweepType DEF CleanupCycle, Expired, Registered, Sweepers
<1>4. ASSUME NEW t \in Terminators, TerminateSession(t) PROVE TypeOK'
  BY <1>4, SweepType, PoolAssumption DEF TerminateSession, Registered, Sweepers
<1>5. CASE BeginShutdown
  BY <1>5 DEF BeginShutdown, SweepUnchanged, CancelledCleanup, Sweepers, TypeOK
<1>6. CASE ShutdownSnapshot
  BY <1>6, SweepType DEF ShutdownSnapshot, Registered, Sweepers
<1>7. ASSUME NEW s \in Sweepers, SweepKilled(s) PROVE TypeOK'
  BY <1>7, SweepType DEF SweepKilled, TypeOK
<1>8. ASSUME NEW p \in Procs, Crash(p) \/ Die(p) PROVE TypeOK'
  BY <1>8 DEF Crash, Die, Exit, TypeOK
<1>9. CASE Tick
  BY <1>9 DEF Tick, TypeOK
<1>10. CASE UNCHANGED vars
  BY <1>10 DEF vars, TypeOK
<1>11. QED
  BY <1>1, <1>2, <1>3, <1>4, <1>5, <1>6, <1>7, <1>8, <1>9, <1>10 DEF Next

LEMMA InitType == Init => TypeOK
<1>1. Init => pipe \in [Procs -> Seq(Calls)]
  BY DEF Init
<1>2. Init => pc \in [Calls -> CallPlaces] /\ lastUsed \in [Procs -> Nat]
  BY DEF Init, CallPlaces
<1>3. Init => /\ processes \in [Keys -> Procs \cup {None}]
              /\ creationLock \in [Keys -> Calls \cup {None}]
  BY DEF Init
<1>7. Init => shutdown \in BOOLEAN
  BY DEF Init
<1>0. Init => pendingInit \in SUBSET Keys
  <2>1. {} \in SUBSET Keys
    OBVIOUS
  <2>2. QED
    BY <2>1 DEF Init
<1>4. Init => /\ status \in [Procs -> {"unborn", "alive", "dying", "dead"}]
              /\ routingKey \in [Procs -> Keys \cup {None}]
              /\ isReady \in [Procs -> BOOLEAN]
              /\ isDirty \in [Procs -> BOOLEAN]
              /\ lock \in [Procs -> Calls \cup {None}]
  BY DEF Init
<1>5. Init => /\ managed \in [Calls -> Procs \cup {None}]
              /\ answer \in [Calls -> Calls \cup {None}]
              /\ swPc \in [Sweepers -> {"idle", "stopping", "running", "done"}]
              /\ todo \in [Sweepers -> SUBSET Keys]
              /\ victim \in [Calls \cup Sweepers -> Procs \cup {None}]
              /\ now \in Nat
  BY DEF Init
<1>6. QED
  BY <1>0, <1>1, <1>2, <1>3, <1>4, <1>5, <1>7 DEF TypeOK

-----------------------------------------------------------------------------
(* The invariant.  Its conjuncts fall into three families: the creation    *)
(* lock with the slot it reserves, the registry, and the pipes with their  *)
(* locks.  A step disturbs one or two of them; the three lemmas that       *)
(* follow settle a family a step leaves alone.                             *)

SameLife ==
  \A p \in Procs : /\ Live(p)' <=> Live(p)
                   /\ status'[p] = "unborn" <=> status[p] = "unborn"

(* No call enters or leaves creation, no slot is filled.                   *)
LEMMA CreationUndisturbed ==
  ASSUME PoolInv, TypeOK', UNCHANGED creationLock,
         \A k \in Keys : processes[k] = None => processes'[k] = None,
         \A c \in Calls : \/ pc'[c] = pc[c]
                          \/ pc[c] \notin Creating /\ pc'[c] \notin Creating
  PROVE  CreationHeld' /\ SlotReserved'
<1>1. CreationHeld'
  BY PoolAssumption DEF PoolInv, CreationHeld, TypeOK
<1>2. SlotReserved'
  BY PoolAssumption DEF PoolInv, SlotReserved
<1>3. QED
  BY <1>1, <1>2

(* The kill of a registered subprocess empties its slot: whoever still     *)
(* lives unsignalled is registered, and no slot is filled.                 *)
LEMMA KillEffect ==
  ASSUME PoolInv, NEW a, NEW k \in Registered, PopAndKill(a, k),
         UNCHANGED routingKey
  PROVE  /\ RegistrySound' /\ NoLostProcess' /\ SameLife
         /\ \A j \in Keys : processes[j] = None => processes'[j] = None
<1>1. processes[k] \in Procs /\ processes[k] # None
  BY DEF PoolInv, TypeOK, Registered
<1>2. /\ processes' = [processes EXCEPT ![k] = None]
      /\ status' = [status EXCEPT ![processes[k]] =
                                 IF @ = "alive" THEN "dying" ELSE @]
  BY DEF PopAndKill
<1>3. \A j \in Keys : processes[j] = None => processes'[j] = None
  BY <1>2 DEF PoolInv, TypeOK, Registered
<1>4. SameLife
  BY <1>1, <1>2 DEF SameLife, Live, PoolInv, TypeOK
<1>5. RegistrySound'
  BY <1>1, <1>2 DEF RegistrySound, PoolInv, TypeOK, Registered
<1>6. NoLostProcess'
  BY <1>1, <1>2 DEF NoLostProcess, RegistrySound, PoolInv, TypeOK, Registered
<1>7. QED
  BY <1>3, <1>4, <1>5, <1>6

(* No call takes or leaves a subprocess, and none is started.              *)
LEMMA PipesUndisturbed ==
  ASSUME PoolInv, TypeOK', SameLife, UNCHANGED <<isDirty, lock, pipe, managed>>,
         \A c \in Calls :
           \/ pc'[c] = pc[c]
           \/ pc[c] \notin Holding
              /\ pc'[c] \notin {"init", "want_lock"} \cup Holding
  PROVE  Assigned' /\ UnbornIsBlank' /\ StreamHoldsLock' /\ OwnAnswerPending'
         /\ CleanPipe'
<1>0. \A c \in Calls :
        /\ pc'[c] \in Holding => pc[c] \in Holding /\ pc'[c] = pc[c]
        /\ pc[c] \in Holding => pc'[c] = pc[c]
        /\ pc'[c] \in {"init", "want_lock"} => pc'[c] = pc[c]
  OBVIOUS
<1>1. Assigned'
  <2>1. SUFFICES ASSUME NEW c \in Calls,
                        pc'[c] \in {"init", "want_lock"} \cup Holding
                 PROVE  managed[c] \in Procs /\ status'[managed[c]] # "unborn"
    BY DEF Assigned
  <2>2. pc[c] \in {"init", "want_lock"} \cup Holding
    BY <1>0, <2>1
  <2>3. managed[c] \in Procs /\ status[managed[c]] # "unborn"
    BY <2>2 DEF PoolInv, Assigned
  <2>4. QED
    BY <2>3 DEF SameLife
<1>2. UnbornIsBlank'
  BY DEF PoolInv, UnbornIsBlank, SameLife
<1>3. StreamHoldsLock'
  <2>1. \A c \in Calls : pc'[c] \in Holding => lock[managed[c]] = c
    BY <1>0 DEF PoolInv, StreamHoldsLock
  <2>2. ASSUME NEW p \in Procs, lock[p] # None
        PROVE  managed[lock[p]] = p /\ pc'[lock[p]] \in Holding
    <3>1. lock[p] \in Calls
      BY <2>2 DEF PoolInv, TypeOK
    <3>2. QED
      BY <1>0, <2>2, <3>1 DEF PoolInv, StreamHoldsLock
  <2>3. QED
    BY <2>1, <2>2 DEF StreamHoldsLock
<1>4. OwnAnswerPending'
  <2>1. SUFFICES ASSUME NEW c \in Calls, pc'[c] \in Holding,
                        Live(managed[c])', ~isDirty[managed[c]]
                 PROVE  /\ pc'[c] = "streaming" => pipe[managed[c]] = <<c>>
                        /\ pc'[c] = "breaking" => pipe[managed[c]] = <<>>
    BY DEF OwnAnswerPending
  <2>2. pc[c] \in Holding /\ pc'[c] = pc[c]
    BY <1>0, <2>1
  <2>3. managed[c] \in Procs
    BY <2>2 DEF PoolInv, Assigned
  <2>4. Live(managed[c])
    BY <2>1, <2>3 DEF SameLife, Live
  <2>5. QED
    BY <2>1, <2>2, <2>4 DEF PoolInv, OwnAnswerPending
<1>5. CleanPipe'
  BY DEF PoolInv, CleanPipe, SameLife
<1>6. QED
  BY <1>1, <1>2, <1>3, <1>4, <1>5

LEMMA RegistryUndisturbed ==
  ASSUME PoolInv, UNCHANGED <<processes, status, routingKey>>
  PROVE  RegistrySound' /\ NoLostProcess' /\ SameLife
BY DEF PoolInv, RegistrySound, NoLostProcess, SameLife, Live

(* A step of one call that touches neither the registry, nor a subprocess, *)
(* nor a lock, and moves the call between places outside all families.     *)
LEMMA CallOnlyMoves ==
  ASSUME PoolInv, TypeOK', NEW c \in Calls, NEW place,
         pc[c] \notin Creating \cup Holding,
         place \notin Creating \cup Holding \cup {"init", "want_lock"},
         MoveTo(c, place),
         UNCHANGED <<processes, status, routingKey, creationLock, isDirty, lock,
                     pipe, managed>>
  PROVE  PoolInv'
<1>1. \A d \in Calls :
        (d # c => pc'[d] = pc[d]) /\ (d = c => pc'[d] = place)
  <2>1. pc \in [Calls -> CallPlaces]
    BY DEF PoolInv, TypeOK
  <2>2. QED
    BY <2>1 DEF MoveTo
<1>2. CreationHeld' /\ SlotReserved'
  BY <1>1, CreationUndisturbed
<1>3. RegistrySound' /\ NoLostProcess' /\ SameLife
  BY RegistryUndisturbed
<1>4. Assigned' /\ UnbornIsBlank' /\ StreamHoldsLock' /\ OwnAnswerPending'
      /\ CleanPipe'
  BY <1>1, <1>3, PipesUndisturbed
<1>5. QED
  BY <1>2, <1>3, <1>4 DEF PoolInv

(* The fast path and the double-check hand out the registered subprocess.  *)
LEMMA ReuseInv ==
  ASSUME PoolInv, NEW c \in Calls, pc[c] \in {"new", "want_creation"},
         Usable(CallKey[c]), Reuse(c)
  PROVE  PoolInv'
<1> DEFINE p == processes[CallKey[c]]
<1>0. TypeOK'
  BY ReuseType DEF PoolInv
<1>1. p \in Procs /\ status[p] = "alive"
  BY PoolAssumption DEF PoolInv, TypeOK, Usable, Live, RegistrySound
<1>2. PICK place \in {"init", "want_lock"} : MoveTo(c, place)
  BY DEF Reuse, Obtain
<1>3. /\ managed' = [managed EXCEPT ![c] = p]
      /\ UNCHANGED <<processes, creationLock, status, routingKey, isDirty, lock,
                     pipe>>
  BY DEF Reuse, Obtain
<1>4. \A d \in Calls : d # c => pc'[d] = pc[d] /\ managed'[d] = managed[d]
  BY <1>2, <1>3 DEF MoveTo, PoolInv, TypeOK
<1>5. pc'[c] = place /\ managed'[c] = p
  BY <1>2, <1>3 DEF MoveTo, PoolInv, TypeOK
<1>6. CreationHeld' /\ SlotReserved'
  BY <1>0, <1>3, <1>4, <1>5, CreationUndisturbed DEF Creating
<1>7. RegistrySound' /\ NoLostProcess'
  BY <1>3, RegistryUndisturbed
<1>8. Assigned'
  BY <1>1, <1>3, <1>4, <1>5 DEF PoolInv, Assigned
<1>12. UnbornIsBlank' /\ CleanPipe'
  BY <1>3 DEF PoolInv, UnbornIsBlank, CleanPipe, Live
<1>9. StreamHoldsLock'
  BY <1>3, <1>4, <1>5, PoolAssumption
  DEF PoolInv, StreamHoldsLock, TypeOK, Holding
<1>10. OwnAnswerPending'
  BY <1>3, <1>4, <1>5 DEF PoolInv, OwnAnswerPending, Live, Holding
<1>11. QED
  BY <1>0, <1>6, <1>7, <1>8, <1>9, <1>10, <1>12 DEF PoolInv

(* A call enters or goes on with creation: its key's slot is empty after   *)
(* the step, and at most one registered subprocess begins to die.          *)
LEMMA CreatingInv ==
  ASSUME PoolInv, TypeOK', NEW c \in Calls, NEW place \in Creating,
         MoveTo(c, place),
         creationLock' = [creationLock EXCEPT ![CallKey[c]] = c],
         creationLock[CallKey[c]] \in {None, c},
         pc[c] \notin Holding,
         processes'[CallKey[c]] = None,
         \/ UNCHANGED <<processes, status>>
         \/ \E k \in Registered : PopAndKill(c, k),
         UNCHANGED <<routingKey, isDirty, lock, pipe, managed>>
  PROVE  PoolInv'
<1>1. /\ RegistrySound' /\ NoLostProcess' /\ SameLife
      /\ \A j \in Keys : processes[j] = None => processes'[j] = None
  <2>1. CASE UNCHANGED <<processes, status>>
    BY <2>1, RegistryUndisturbed
  <2>2. CASE \E k \in Registered : PopAndKill(c, k)
    BY <2>2, KillEffect
  <2>3. QED
    BY <2>1, <2>2
<1>2. \A d \in Calls : d # c => pc'[d] = pc[d]
  BY DEF MoveTo, PoolInv, TypeOK
<1>3. pc'[c] = place
  BY DEF MoveTo, PoolInv, TypeOK
<1>4. Assigned' /\ UnbornIsBlank' /\ StreamHoldsLock' /\ OwnAnswerPending'
      /\ CleanPipe'
  BY <1>1, <1>2, <1>3, PipesUndisturbed DEF Creating, Holding
<1>5. CreationHeld'
  <2>0. CallKey[c] \in Keys /\ creationLock \in [Keys -> Calls \cup {None}]
    BY PoolAssumption DEF PoolInv, TypeOK
  <2>1. ASSUME NEW d \in Calls, pc'[d] \in Creating
        PROVE  creationLock'[CallKey[d]] = d
    <3>1. CASE d = c
      BY <2>0, <3>1
    <3>2. CASE d # c
      <4>1. creationLock[CallKey[d]] = d /\ CallKey[d] \in Keys
        BY <1>2, <2>1, <3>2, PoolAssumption DEF PoolInv, CreationHeld
      <4>2. CallKey[d] # CallKey[c]
        BY <3>2, <4>1, PoolAssumption
      <4>3. QED
        BY <2>0, <4>1, <4>2
    <3>3. QED
      BY <3>1, <3>2
  <2>2. ASSUME NEW k \in Keys, creationLock'[k] # None
        PROVE  /\ CallKey[creationLock'[k]] = k
               /\ pc'[creationLock'[k]] \in Creating
    <3>1. CASE k = CallKey[c]
      BY <1>3, <2>0, <3>1
    <3>2. CASE k # CallKey[c]
      <4>1. creationLock'[k] = creationLock[k] /\ creationLock[k] \in Calls
        BY <2>0, <2>2, <3>2
      <4>2. QED
        BY <1>2, <2>2, <3>2, <4>1 DEF PoolInv, CreationHeld
    <3>3. QED
      BY <3>1, <3>2
  <2>3. QED
    BY <2>1, <2>2 DEF CreationHeld
<1>6. SlotReserved'
  BY <1>1, <1>2, <1>3, PoolAssumption DEF PoolInv, SlotReserved
<1>7. QED
  BY <1>1, <1>4, <1>5, <1>6 DEF PoolInv

LEMMA MakeRoomInv ==
  ASSUME PoolInv, TypeOK', NEW c \in Calls, MakeRoom(c), pc[c] \notin Holding,
         creationLock[CallKey[c]] \in {None, c}, processes[CallKey[c]] = None
  PROVE  PoolInv'
<1>1. CASE Cardinality(Registered) < PoolMax \/ Evictable = {}
  BY <1>1, CreatingInv DEF MakeRoom, Creating
<1>2. CASE ~(Cardinality(Registered) < PoolMax \/ Evictable = {})
  <2>1. PICK k \in Registered : PopAndKill(c, k)
    BY <1>2 DEF MakeRoom, LeastRecent, Evictable
  <2>2. processes'[CallKey[c]] = None
    BY <2>1, KillEffect, PoolAssumption DEF MakeRoom
  <2>3. QED
    BY <1>2, <2>1, <2>2, CreatingInv DEF MakeRoom, Creating
<1>3. QED
  BY <1>1, <1>2

(* A sweeper, and any other step that leaves the calls alone.              *)
LEMMA NoCallMoves ==
  ASSUME PoolInv, TypeOK', RegistrySound', NoLostProcess', SameLife,
         \A k \in Keys : processes[k] = None => processes'[k] = None,
         UNCHANGED <<creationLock, isDirty, lock, pipe, pc, managed>>
  PROVE  PoolInv'
<1>1. CreationHeld' /\ SlotReserved'
  BY CreationUndisturbed
<1>2. Assigned' /\ UnbornIsBlank' /\ StreamHoldsLock' /\ OwnAnswerPending'
      /\ CleanPipe'
  BY PipesUndisturbed
<1>3. QED
  BY <1>1, <1>2 DEF PoolInv

LEMMA SweepInv ==
  ASSUME PoolInv, TypeOK', NEW s \in Sweepers, NEW S \in SUBSET Keys,
         SweepOn(s, S), SweepUnchanged
  PROVE  PoolInv'
<1>1. CASE UNCHANGED <<processes, status>>
  BY <1>1, RegistryUndisturbed, NoCallMoves DEF SweepUnchanged, callVars
<1>2. CASE \E k \in Registered : PopAndKill(s, k)
  BY <1>2, KillEffect, NoCallMoves DEF SweepUnchanged, callVars
<1>3. QED
  BY <1>1, <1>2 DEF SweepOn

(* The CLI has started.  The slot was reserved, so nothing is overwritten; *)
(* the subprocess is new, so nobody else uses it.                          *)
LEMMA SpawnedInv ==
  ASSUME PoolInv, TypeOK', NEW c \in Calls, Spawned(c)
  PROVE  PoolInv'
<1> DEFINE k == CallKey[c]
<1>1. PICK p \in Procs :
        /\ status[p] = "unborn"
        /\ status' = [status EXCEPT ![p] = "alive"]
        /\ routingKey' = [routingKey EXCEPT ![p] = k]
        /\ processes' = [processes EXCEPT ![k] = p]
        /\ Obtain(c, p, FALSE)
  BY DEF Spawned
<1>2. /\ creationLock' = CreationReleased(c)
      /\ UNCHANGED <<isDirty, lock, pipe>>
      /\ pc[c] = "spawning"
  BY DEF Spawned
<1>3. /\ managed' = [managed EXCEPT ![c] = p]
      /\ pc' = [pc EXCEPT ![c] = "init"]
  BY <1>1 DEF Obtain, MoveTo
<1>4. /\ k \in Keys /\ creationLock[k] = c /\ processes[k] = None
  BY <1>2, PoolAssumption DEF PoolInv, CreationHeld, SlotReserved, Creating
<1>5. creationLock' = [creationLock EXCEPT ![k] = None]
  BY <1>2, <1>4 DEF CreationReleased
<1>6. /\ pc'[c] = "init" /\ managed'[c] = p
      /\ \A d \in Calls : d # c => pc'[d] = pc[d] /\ managed'[d] = managed[d]
  BY <1>3 DEF PoolInv, TypeOK
<1>7. \A d \in Calls : d # c /\ pc[d] \in Creating => CallKey[d] # k
  BY <1>4 DEF PoolInv, CreationHeld
<1>8. Assigned'
  BY <1>1, <1>6 DEF PoolInv, TypeOK, Assigned
<1>9. CreationHeld'
  <2>1. ASSUME NEW d \in Calls, pc'[d] \in Creating
        PROVE  creationLock'[CallKey[d]] = d
    <3>1. d # c /\ pc[d] \in Creating
      BY <1>6, <2>1 DEF Creating
    <3>2. creationLock[CallKey[d]] = d /\ CallKey[d] # k
      BY <1>7, <3>1 DEF PoolInv, CreationHeld
    <3>3. QED
      BY <1>5, <3>2, PoolAssumption DEF PoolInv, TypeOK
  <2>2. ASSUME NEW j \in Keys, creationLock'[j] # None
        PROVE  /\ CallKey[creationLock'[j]] = j
               /\ pc'[creationLock'[j]] \in Creating
    <3>1. j # k /\ creationLock'[j] = creationLock[j] /\ creationLock[j] \in Calls
      BY <1>4, <1>5, <2>2 DEF PoolInv, TypeOK
    <3>2. CallKey[creationLock[j]] = j /\ pc[creationLock[j]] \in Creating
      BY <2>2, <3>1 DEF PoolInv, CreationHeld
    <3>3. QED
      BY <1>6, <3>1, <3>2
  <2>3. QED
    BY <2>1, <2>2 DEF CreationHeld
<1>10. SlotReserved'
  <2>1. SUFFICES ASSUME NEW d \in Calls, pc'[d] \in Creating
                 PROVE  processes'[CallKey[d]] = None
    BY DEF SlotReserved
  <2>2. d # c /\ pc[d] \in Creating
    BY <1>6, <2>1 DEF Creating
  <2>3. QED
    BY <1>1, <1>7, <2>2 DEF PoolInv, SlotReserved, TypeOK
<1>11. \A j \in Keys : processes[j] # p
  BY <1>1, PoolAssumption DEF PoolInv, RegistrySound
<1>12. RegistrySound'
  BY <1>1, <1>11 DEF PoolInv, RegistrySound, TypeOK
<1>13. NoLostProcess'
  BY <1>1, <1>4, PoolAssumption
  DEF PoolInv, NoLostProcess, RegistrySound, TypeOK
<1>14. UnbornIsBlank' /\ CleanPipe'
  BY <1>1, <1>2 DEF PoolInv, UnbornIsBlank, CleanPipe, Live, TypeOK
<1>15. StreamHoldsLock'
  <2>1. ASSUME NEW d \in Calls, pc'[d] \in Holding
        PROVE  lock'[managed'[d]] = d
    <3>1. d # c /\ pc[d] \in Holding /\ managed'[d] = managed[d]
      BY <1>6, <2>1 DEF Holding
    <3>2. QED
      BY <1>2, <3>1 DEF PoolInv, StreamHoldsLock
  <2>2. ASSUME NEW q \in Procs, lock'[q] # None
        PROVE  managed'[lock'[q]] = q /\ pc'[lock'[q]] \in Holding
    <3>1. /\ lock[q] \in Calls /\ lock'[q] = lock[q]
          /\ managed[lock[q]] = q /\ pc[lock[q]] \in Holding
      BY <1>2, <2>2 DEF PoolInv, StreamHoldsLock, TypeOK
    <3>2. lock[q] # c
      BY <1>2, <3>1 DEF Holding
    <3>3. QED
      BY <1>6, <3>1, <3>2
  <2>3. QED
    BY <2>1, <2>2 DEF StreamHoldsLock
<1>16. OwnAnswerPending'
  <2>1. SUFFICES ASSUME NEW d \in Calls, pc'[d] \in Holding, Live(managed[d])',
                        ~isDirty[managed'[d]]
                 PROVE  /\ pc'[d] = "streaming" => pipe[managed'[d]] = <<d>>
                        /\ pc'[d] = "breaking" => pipe[managed'[d]] = <<>>
    BY <1>2 DEF OwnAnswerPending
  <2>2. d # c /\ pc'[d] = pc[d] /\ managed'[d] = managed[d]
    BY <1>6, <2>1 DEF Holding
  <2>3. managed[d] \in Procs /\ managed[d] # p
    BY <1>1, <2>1, <2>2 DEF PoolInv, Assigned
  <2>4. Live(managed[d])
    BY <1>1, <2>1, <2>2, <2>3 DEF Live, PoolInv, TypeOK
  <2>5. QED
    BY <2>1, <2>2, <2>4 DEF PoolInv, OwnAnswerPending
<1>17. QED
  BY <1>8, <1>9, <1>10, <1>12, <1>13, <1>14, <1>15, <1>16 DEF PoolInv

(* A creation that fails or is cancelled gives its lock back.              *)
LEMMA CreationAbandoned ==
  ASSUME PoolInv, TypeOK', NEW c \in Calls, pc[c] \in Creating,
         MoveTo(c, "failed"), creationLock' = CreationReleased(c),
         UNCHANGED <<processes, status, routingKey, isDirty, lock, pipe, managed>>
  PROVE  PoolInv'
<1>1. \A d \in Calls : (d # c => pc'[d] = pc[d]) /\ (d = c => pc'[d] = "failed")
  BY DEF MoveTo, PoolInv, TypeOK
<1>2. CallKey[c] \in Keys /\ creationLock[CallKey[c]] = c
  BY PoolAssumption DEF PoolInv, CreationHeld
<1>3. creationLock' = [creationLock EXCEPT ![CallKey[c]] = None]
  BY <1>2 DEF CreationReleased
<1>4. CreationHeld'
  <2>1. ASSUME NEW d \in Calls, pc'[d] \in Creating
        PROVE  creationLock'[CallKey[d]] = d
    <3>1. d # c /\ pc[d] \in Creating
      BY <1>1, <2>1 DEF Creating
    <3>2. creationLock[CallKey[d]] = d /\ CallKey[d] # CallKey[c]
      BY <1>2, <3>1 DEF PoolInv, CreationHeld
    <3>3. QED
      BY <1>3, <3>2, PoolAssumption DEF PoolInv, TypeOK
  <2>2. ASSUME NEW j \in Keys, creationLock'[j] # None
        PROVE  /\ CallKey[creationLock'[j]] = j
               /\ pc'[creationLock'[j]] \in Creating
    <3>1. /\ j # CallKey[c]
          /\ creationLock'[j] = creationLock[j] /\ creationLock[j] \in Calls
      BY <1>2, <1>3, <2>2 DEF PoolInv, TypeOK
    <3>2. CallKey[creationLock[j]] = j /\ pc[creationLock[j]] \in Creating
      BY <2>2, <3>1 DEF PoolInv, CreationHeld
    <3>3. QED
      BY <1>1, <3>1, <3>2
  <2>3. QED
    BY <2>1, <2>2 DEF CreationHeld
<1>5. SlotReserved'
  BY <1>1 DEF PoolInv, SlotReserved, Creating
<1>6. RegistrySound' /\ NoLostProcess' /\ SameLife
  BY RegistryUndisturbed
<1>7. Assigned' /\ UnbornIsBlank' /\ StreamHoldsLock' /\ OwnAnswerPending'
      /\ CleanPipe'
  BY <1>1, <1>6, PipesUndisturbed DEF Creating, Holding
<1>8. QED
  BY <1>4, <1>5, <1>6, <1>7 DEF PoolInv

(* The holder of a subprocess's lock leaves it; a live subprocess is left  *)
(* dirty or with nothing to read.                                          *)
LEMMA HolderLeaves ==
  ASSUME PoolInv, TypeOK', NEW c \in Calls, pc[c] \in Holding,
         NEW place \in {"done", "failed"}, MoveTo(c, place), Unlock(c),
         UNCHANGED <<processes, status, routingKey, creationLock, managed>>,
         \A q \in Procs : q # managed[c] =>
           isDirty'[q] = isDirty[q] /\ pipe'[q] = pipe[q],
         Live(managed[c]) /\ ~isDirty'[managed[c]] => pipe'[managed[c]] = <<>>
  PROVE  PoolInv'
<1> DEFINE p == managed[c]
<1>1. \A d \in Calls : (d # c => pc'[d] = pc[d]) /\ (d = c => pc'[d] = place)
  BY DEF MoveTo, PoolInv, TypeOK
<1>2. p \in Procs /\ status[p] # "unborn" /\ lock[p] = c
  BY DEF PoolInv, Assigned, StreamHoldsLock
<1>3. lock' = [lock EXCEPT ![p] = None]
  BY DEF Unlock
<1>4. CreationHeld' /\ SlotReserved'
  BY <1>1, CreationUndisturbed DEF Holding, Creating
<1>5. RegistrySound' /\ NoLostProcess'
  BY RegistryUndisturbed
<1>6. \A d \in Calls : pc'[d] \in Holding =>
        /\ d # c /\ pc[d] \in Holding /\ pc'[d] = pc[d]
        /\ managed[d] \in Procs /\ managed[d] # p
  <2>1. SUFFICES ASSUME NEW d \in Calls, pc'[d] \in Holding
                 PROVE  /\ d # c /\ pc[d] \in Holding /\ pc'[d] = pc[d]
                        /\ managed[d] \in Procs /\ managed[d] # p
    OBVIOUS
  <2>2. d # c /\ pc[d] \in Holding /\ pc'[d] = pc[d]
    BY <1>1, <2>1 DEF Holding
  <2>3. managed[d] \in Procs /\ lock[managed[d]] = d
    BY <2>2 DEF PoolInv, Assigned, StreamHoldsLock
  <2>4. QED
    BY <1>2, <2>2, <2>3
<1>7. Assigned'
  BY <1>1 DEF PoolInv, Assigned, Holding
<1>8. UnbornIsBlank' /\ CleanPipe'
  <2>1. \A q \in Procs : q # p => lock'[q] = lock[q]
    BY <1>3 DEF PoolInv, TypeOK
  <2>2. UnbornIsBlank'
    BY <1>2, <2>1 DEF PoolInv, UnbornIsBlank
  <2>3. CleanPipe'
    BY <2>1 DEF PoolInv, CleanPipe, Live
  <2>4. QED
    BY <2>2, <2>3
<1>9. StreamHoldsLock'
  <2>1. ASSUME NEW d \in Calls, pc'[d] \in Holding PROVE lock'[managed[d]] = d
    BY <1>3, <1>6, <2>1 DEF PoolInv, StreamHoldsLock, TypeOK
  <2>2. ASSUME NEW q \in Procs, lock'[q] # None
        PROVE  managed[lock'[q]] = q /\ pc'[lock'[q]] \in Holding
    <3>1. q # p /\ lock'[q] = lock[q] /\ lock[q] \in Calls
      BY <1>2, <1>3, <2>2 DEF PoolInv, TypeOK
    <3>2. managed[lock[q]] = q /\ pc[lock[q]] \in Holding
      BY <2>2, <3>1 DEF PoolInv, StreamHoldsLock
    <3>3. QED
      BY <1>1, <3>1, <3>2
  <2>3. QED
    BY <2>1, <2>2 DEF StreamHoldsLock
<1>10. OwnAnswerPending'
  BY <1>6 DEF PoolInv, OwnAnswerPending, Live
<1>11. QED
  BY <1>4, <1>5, <1>7, <1>8, <1>9, <1>10 DEF PoolInv

(* A call takes a free lock, to read (after writing its prompt) or, after  *)
(* a failed write, while it kills what is registered under its key.        *)
LEMMA HolderEnters ==
  ASSUME PoolInv, TypeOK', NEW c \in Calls, pc[c] = "want_lock",
         lock[managed[c]] = None, lock' = [lock EXCEPT ![managed[c]] = c],
         NEW place \in Holding, MoveTo(c, place),
         RegistrySound', NoLostProcess', SameLife,
         \A k \in Keys : processes[k] = None => processes'[k] = None,
         UNCHANGED <<creationLock, isDirty, managed>>,
         IF place = "streaming"
         THEN pipe' = [pipe EXCEPT ![managed[c]] = Append(@, c)]
         ELSE UNCHANGED pipe
  PROVE  PoolInv'
<1> DEFINE p == managed[c]
<1>1. \A d \in Calls : (d # c => pc'[d] = pc[d]) /\ (d = c => pc'[d] = place)
  BY DEF MoveTo, PoolInv, TypeOK
<1>2. p \in Procs /\ status[p] # "unborn"
  BY DEF PoolInv, Assigned
<1>3. CreationHeld' /\ SlotReserved'
  BY <1>1, CreationUndisturbed DEF Holding, Creating
<1>4. /\ lock'[p] = c
      /\ \A q \in Procs : q # p => lock'[q] = lock[q] /\ pipe'[q] = pipe[q]
  BY <1>2 DEF PoolInv, TypeOK
<1>5. \A d \in Calls : d # c /\ pc'[d] \in Holding =>
        pc[d] \in Holding /\ managed[d] \in Procs /\ managed[d] # p
  <2>1. SUFFICES ASSUME NEW d \in Calls, d # c, pc'[d] \in Holding
                 PROVE  pc[d] \in Holding /\ managed[d] \in Procs /\ managed[d] # p
    OBVIOUS
  <2>2. pc[d] \in Holding
    BY <1>1, <2>1
  <2>3. managed[d] \in Procs /\ lock[managed[d]] = d
    BY <2>2 DEF PoolInv, Assigned, StreamHoldsLock
  <2>4. QED
    BY <2>2, <2>3, PoolAssumption
<1>6. Assigned'
  <2>1. SUFFICES ASSUME NEW d \in Calls,
                        pc'[d] \in {"init", "want_lock"} \cup Holding
                 PROVE  managed[d] \in Procs /\ status'[managed[d]] # "unborn"
    BY DEF Assigned
  <2>2. managed[d] \in Procs /\ status[managed[d]] # "unborn"
    BY <1>1, <1>2, <2>1 DEF PoolInv, Assigned
  <2>3. QED
    BY <2>2 DEF SameLife
<1>7. UnbornIsBlank' /\ CleanPipe'
  <2>1. UnbornIsBlank'
    BY <1>2, <1>4 DEF PoolInv, UnbornIsBlank, SameLife
  <2>2. CleanPipe'
    BY <1>4, PoolAssumption DEF PoolInv, CleanPipe, SameLife
  <2>3. QED
    BY <2>1, <2>2
<1>8. StreamHoldsLock'
  <2>1. ASSUME NEW d \in Calls, pc'[d] \in Holding PROVE lock'[managed[d]] = d
    <3>1. CASE d = c
      BY <1>4, <3>1
    <3>2. CASE d # c
      BY <1>4, <1>5, <2>1, <3>2 DEF PoolInv, StreamHoldsLock
    <3>3. QED
      BY <3>1, <3>2
  <2>2. ASSUME NEW q \in Procs, lock'[q] # None
        PROVE  managed[lock'[q]] = q /\ pc'[lock'[q]] \in Holding
    <3>1. CASE q = p
      BY <1>1, <1>4, <3>1
    <3>2. CASE q # p
      <4>1. lock'[q] = lock[q] /\ lock[q] \in Calls
        BY <1>4, <2>2, <3>2 DEF PoolInv, TypeOK
      <4>2. managed[lock[q]] = q /\ pc[lock[q]] \in Holding
        BY <2>2, <4>1 DEF PoolInv, StreamHoldsLock
      <4>3. QED
        BY <1>1, <4>1, <4>2 DEF Holding
    <3>3. QED
      BY <3>1, <3>2
  <2>3. QED
    BY <2>1, <2>2 DEF StreamHoldsLock
<1>9. OwnAnswerPending'
  <2>1. SUFFICES ASSUME NEW d \in Calls, pc'[d] \in Holding, Live(managed[d])',
                        ~isDirty[managed[d]]
                 PROVE  /\ pc'[d] = "streaming" => pipe'[managed[d]] = <<d>>
                        /\ pc'[d] = "breaking" => pipe'[managed[d]] = <<>>
    BY DEF OwnAnswerPending
  <2>2. CASE d = c
    <3>1. Live(p)
      BY <1>2, <2>1, <2>2 DEF SameLife, Live
    <3>2. pipe[p] = <<>>
      BY <1>2, <2>1, <2>2, <3>1 DEF PoolInv, CleanPipe
    <3>3. pipe'[p] = IF place = "streaming" THEN Append(pipe[p], c) ELSE pipe[p]
      BY <1>2 DEF PoolInv, TypeOK
    <3>4. Append(<<>>, c) = <<c>>
      OBVIOUS
    <3>5. QED
      BY <1>1, <2>2, <3>2, <3>3, <3>4
  <2>3. CASE d # c
    <3>1. pc[d] \in Holding /\ managed[d] \in Procs /\ managed[d] # p /\ pc'[d] = pc[d]
      BY <1>1, <1>5, <2>1, <2>3
    <3>2. Live(managed[d])
      BY <2>1, <3>1 DEF SameLife, Live
    <3>3. QED
      BY <1>4, <2>1, <3>1, <3>2 DEF PoolInv, OwnAnswerPending
  <2>4. QED
    BY <2>2, <2>3
<1>10. QED
  BY <1>3, <1>6, <1>7, <1>8, <1>9 DEF PoolInv

LEMMA InvStep == PoolInv /\ [Next]_vars => PoolInv'
<1> SUFFICES ASSUME PoolInv, [Next]_vars PROVE PoolInv'
  OBVIOUS
<1>0. TypeOK'
  BY TypeStep DEF PoolInv
<1> USE DEF poolVars, procVars, callVars, sweepVars
<1>1. ASSUME NEW c \in Calls, CallStep(c) PROVE PoolInv'
  <2>1. CASE RejectedByShutdown(c)
    BY <1>0, <2>1, CallOnlyMoves DEF RejectedByShutdown, Creating, Holding
  <2>2. CASE FastPath(c)
    BY <2>2, ReuseInv DEF FastPath
  <2>3. CASE QueueForCreation(c)
    BY <1>0, <2>3, CallOnlyMoves DEF QueueForCreation, Creating, Holding
  <2>4. CASE DoubleCheckHit(c)
    BY <2>4, ReuseInv DEF DoubleCheckHit
  <2>5. CASE EnterCreation(c)
    <3>1. /\ CallKey[c] \in Keys /\ creationLock[CallKey[c]] = None
          /\ pc[c] \notin Holding
      BY <2>5, PoolAssumption DEF EnterCreation, CreationFree, Holding
    <3>2. CASE processes[CallKey[c]] = None
      BY <1>0, <2>5, <3>1, <3>2, MakeRoomInv DEF EnterCreation
    <3>3. CASE processes[CallKey[c]] # None
      <4>1. PopAndKill(c, CallKey[c]) /\ CallKey[c] \in Registered
        BY <2>5, <3>1, <3>3 DEF EnterCreation, Registered
      <4>2. processes'[CallKey[c]] = None
        BY <3>1, <4>1 DEF PopAndKill, PoolInv, TypeOK
      <4>3. /\ MoveTo(c, "killing_old")
            /\ creationLock' = [creationLock EXCEPT ![CallKey[c]] = c]
            /\ UNCHANGED <<routingKey, isDirty, lock, pipe, managed>>
        BY <2>5, <3>3 DEF EnterCreation
      <4>4. QED
        BY <1>0, <3>1, <4>1, <4>2, <4>3, CreatingInv DEF Creating
    <3>4. QED
      BY <3>2, <3>3
  <2>6. CASE OldKilled(c)
    <3>1. /\ pc[c] \notin Holding /\ creationLock[CallKey[c]] = c
          /\ processes[CallKey[c]] = None
      BY <2>6 DEF OldKilled, PoolInv, CreationHeld, SlotReserved, Creating, Holding
    <3>2. QED
      BY <1>0, <2>6, <3>1, MakeRoomInv DEF OldKilled
  <2>7. CASE Evicted(c)
    <3>1. /\ pc[c] \notin Holding /\ creationLock[CallKey[c]] = c
          /\ processes[CallKey[c]] = None
      BY <2>7 DEF Evicted, PoolInv, CreationHeld, SlotReserved, Creating, Holding
    <3>2. creationLock' = [creationLock EXCEPT ![CallKey[c]] = c]
      BY <2>7, <3>1, PoolAssumption DEF Evicted, PoolInv, TypeOK
    <3>3. QED
      BY <1>0, <2>7, <3>1, <3>2, CreatingInv DEF Evicted, Creating
  <2>8. CASE Spawned(c)
    BY <1>0, <2>8, SpawnedInv
  <2>9. CASE SpawnFails(c)
    BY <1>0, <2>9, CreationAbandoned DEF SpawnFails, Creating
  <2>10. CASE InitDone(c)
    <3>1. /\ pc' = [pc EXCEPT ![c] = "want_lock"] /\ pc[c] = "init"
          /\ UNCHANGED <<processes, status, routingKey, creationLock, isDirty,
                         lock, pipe, managed>>
      BY <2>10 DEF InitDone, LeaveInit, MoveTo
    <3>2. \A d \in Calls : /\ d # c => pc'[d] = pc[d]
                           /\ d = c => pc'[d] = "want_lock"
      BY <3>1 DEF PoolInv, TypeOK
    <3>3. CreationHeld' /\ SlotReserved'
      BY <1>0, <3>1, <3>2, CreationUndisturbed DEF Creating
    <3>4. RegistrySound' /\ NoLostProcess'
      BY <3>1, RegistryUndisturbed
    <3>5. Assigned'
      BY <3>1, <3>2 DEF PoolInv, Assigned
    <3>6. UnbornIsBlank' /\ CleanPipe'
      BY <3>1 DEF PoolInv, UnbornIsBlank, CleanPipe, Live
    <3>7. StreamHoldsLock'
      <4>1. \A d \in Calls : pc'[d] \in Holding <=> pc[d] \in Holding
        BY <3>1, <3>2 DEF Holding
      <4>2. QED
        BY <3>1, <4>1 DEF PoolInv, StreamHoldsLock, TypeOK
    <3>8. OwnAnswerPending'
      BY <3>1, <3>2 DEF PoolInv, OwnAnswerPending, Live, Holding
    <3>9. QED
      BY <1>0, <3>3, <3>4, <3>5, <3>6, <3>7, <3>8 DEF PoolInv
  <2>11. CASE InitEOF(c)
    BY <1>0, <2>11, CallOnlyMoves DEF InitEOF, LeaveInit, Creating, Holding
  <2>12. CASE InitConflict(c)
    BY <1>0, <2>12, CallOnlyMoves DEF InitConflict, LeaveInit, Creating, Holding
  <2>13. CASE LockAndSend(c)
    <3>1. RegistrySound' /\ NoLostProcess' /\ SameLife
      BY <2>13, RegistryUndisturbed DEF LockAndSend
    <3>2. QED
      BY <1>0, <2>13, <3>1, HolderEnters DEF LockAndSend, Holding
  <2>14. CASE LockDead(c)
    BY <1>0, <2>14, CallOnlyMoves DEF LockDead, Creating, Holding
  <2>15. CASE PipeBroken(c)
    <3>1. CASE processes[CallKey[c]] = None
      BY <1>0, <2>15, <3>1, CallOnlyMoves DEF PipeBroken, Creating, Holding
    <3>2. CASE processes[CallKey[c]] # None
      <4>1. CallKey[c] \in Registered /\ PopAndKill(c, CallKey[c])
        BY <2>15, <3>2, PoolAssumption DEF PipeBroken, Registered
      <4>2. UNCHANGED <<routingKey, creationLock, isDirty, pipe, managed>>
        BY <2>15 DEF PipeBroken
      <4>3. /\ RegistrySound' /\ NoLostProcess' /\ SameLife
            /\ \A j \in Keys : processes[j] = None => processes'[j] = None
        BY <4>1, <4>2, KillEffect
      <4>4. /\ pc[c] = "want_lock" /\ lock[managed[c]] = None
            /\ lock' = [lock EXCEPT ![managed[c]] = c]
            /\ MoveTo(c, "breaking")
        BY <2>15, <3>2 DEF PipeBroken
      <4>5. QED
        BY <1>0, <4>2, <4>3, <4>4, HolderEnters DEF Holding
    <3>3. QED
      BY <3>1, <3>2
  <2>16. CASE BrokenKilled(c)
    <3>1. Live(managed[c]) /\ ~isDirty[managed[c]] => pipe[managed[c]] = <<>>
      BY <2>16 DEF BrokenKilled, PoolInv, OwnAnswerPending, Holding
    <3>2. QED
      BY <1>0, <2>16, <3>1, HolderLeaves DEF BrokenKilled, Holding
  <2>17. CASE ReadResult(c)
    <3>1. managed[c] \in Procs
      BY <2>17 DEF ReadResult, PoolInv, Assigned, Holding
    <3>2. pipe' = [pipe EXCEPT ![managed[c]] = Tail(pipe[managed[c]])]
      BY <2>17 DEF ReadResult, Rest
    <3>3. Live(managed[c]) /\ ~isDirty[managed[c]] => pipe[managed[c]] = <<c>>
      BY <2>17 DEF ReadResult, PoolInv, OwnAnswerPending, Holding
    <3>4. Tail(<<c>>) = <<>>
      OBVIOUS
    <3>5. Live(managed[c]) /\ ~isDirty[managed[c]] => pipe'[managed[c]] = <<>>
      BY <3>1, <3>2, <3>3, <3>4 DEF PoolInv, TypeOK
    <3>6. \A q \in Procs : q # managed[c] => pipe'[q] = pipe[q]
      BY <3>2 DEF PoolInv, TypeOK
    <3>7. QED
      BY <1>0, <2>17, <3>5, <3>6, HolderLeaves DEF ReadResult, Holding
  <2>18. CASE StreamInterrupted(c)
    <3>1. managed[c] \in Procs
      BY <2>18 DEF StreamInterrupted, PoolInv, Assigned, Holding
    <3>2. Live(managed[c]) => isDirty'[managed[c]]
      BY <2>18, <3>1 DEF StreamInterrupted, DirtyAfter, PoolInv, TypeOK
    <3>3. \A q \in Procs : q # managed[c] =>
            isDirty'[q] = isDirty[q] /\ pipe'[q] = pipe[q]
      BY <2>18 DEF StreamInterrupted, DirtyAfter, PoolInv, TypeOK
    <3>4. QED
      BY <1>0, <2>18, <3>2, <3>3, HolderLeaves DEF StreamInterrupted, Holding
  <2>19. QED
    BY <1>1, <2>1, <2>2, <2>3, <2>4, <2>5, <2>6, <2>7, <2>8, <2>9, <2>10,
       <2>11, <2>12, <2>13, <2>14, <2>15, <2>16, <2>17, <2>18 DEF CallStep
<1>2. ASSUME NEW c \in Calls, Cancelled(c) PROVE PoolInv'
  <2>1. /\ MoveTo(c, "failed") /\ creationLock' = CreationReleased(c)
        /\ UNCHANGED <<processes, status, routingKey, isDirty, pipe, managed>>
    BY <1>2 DEF Cancelled
  <2>2. CASE pc[c] \in Creating
    BY <1>0, <1>2, <2>1, <2>2, CreationAbandoned DEF Cancelled, Creating
  <2>3. CASE pc[c] \in {"want_creation", "init", "want_lock", "breaking"}
    <3>1. creationLock[CallKey[c]] # c
      BY <2>3, PoolAssumption DEF PoolInv, CreationHeld, Creating
    <3>2. UNCHANGED creationLock
      BY <2>1, <3>1 DEF CreationReleased, PoolInv, TypeOK
    <3>3. CASE pc[c] = "breaking"
      <4>1. Unlock(c)
        BY <1>2, <3>3 DEF Cancelled
      <4>2. Live(managed[c]) /\ ~isDirty[managed[c]] => pipe[managed[c]] = <<>>
        BY <3>3 DEF PoolInv, OwnAnswerPending, Holding
      <4>3. QED
        BY <1>0, <2>1, <3>2, <3>3, <4>1, <4>2, HolderLeaves DEF Holding
    <3>4. CASE pc[c] # "breaking"
      BY <1>0, <1>2, <2>1, <2>3, <3>2, <3>4, CallOnlyMoves
      DEF Cancelled, Creating, Holding
    <3>5. QED
      BY <3>3, <3>4
  <2>4. QED
    BY <1>2, <2>2, <2>3 DEF Cancelled, Creating
<1>3. CASE CleanupCycle
  BY <1>0, <1>3, SweepInv DEF CleanupCycle, Expired, Registered, Sweepers
<1>4. ASSUME NEW t \in Terminators, TerminateSession(t) PROVE PoolInv'
  BY <1>0, <1>4, SweepInv DEF TerminateSession, Registered, Sweepers
<1>5. CASE BeginShutdown
  <2>1. UNCHANGED <<processes, status, routingKey, creationLock, isDirty, lock,
                    pipe, pc, managed>>
    BY <1>5 DEF BeginShutdown, SweepUnchanged
  <2>2. QED
    BY <1>0, <2>1, RegistryUndisturbed, NoCallMoves
<1>6. CASE ShutdownSnapshot
  BY <1>0, <1>6, SweepInv DEF ShutdownSnapshot, Registered, Sweepers
<1>7. ASSUME NEW s \in Sweepers, SweepKilled(s) PROVE PoolInv'
  <2>1. todo[s] \in SUBSET Keys
    BY DEF PoolInv, TypeOK
  <2>2. QED
    BY <1>0, <1>7, <2>1, SweepInv DEF SweepKilled
<1>8. ASSUME NEW p \in Procs, Crash(p) \/ Die(p) PROVE PoolInv'
  <2>1. /\ status[p] \in {"alive", "dying"}
        /\ status' = [status EXCEPT ![p] = "dead"]
        /\ UNCHANGED <<processes, routingKey, creationLock, isDirty, lock, pipe,
                       pc, managed>>
    BY <1>8 DEF Crash, Die, Exit
  <2>2. /\ status'[p] = "dead"
        /\ \A q \in Procs : q # p => status'[q] = status[q]
    BY <2>1 DEF PoolInv, TypeOK
  <2>3. CreationHeld' /\ SlotReserved' /\ StreamHoldsLock'
    BY <2>1 DEF PoolInv, CreationHeld, SlotReserved, StreamHoldsLock
  <2>4. RegistrySound' /\ NoLostProcess'
    BY <2>1, <2>2 DEF PoolInv, RegistrySound, NoLostProcess, TypeOK
  <2>5. Assigned' /\ UnbornIsBlank' /\ CleanPipe'
    BY <2>1, <2>2 DEF PoolInv, Assigned, UnbornIsBlank, CleanPipe, Live
  <2>6. OwnAnswerPending'
    BY <2>1, <2>2 DEF PoolInv, OwnAnswerPending, Assigned, Live
  <2>7. QED
    BY <1>0, <2>3, <2>4, <2>5, <2>6 DEF PoolInv
<1>9. CASE Tick \/ UNCHANGED vars
  <2>1. UNCHANGED <<processes, status, routingKey, creationLock, isDirty, lock,
                    pipe, pc, managed>>
    BY <1>9 DEF Tick, vars
  <2>2. QED
    BY <1>0, <2>1, RegistryUndisturbed, NoCallMoves
<1>10. QED
  BY <1>1, <1>2, <1>3, <1>4, <1>5, <1>6, <1>7, <1>8, <1>9 DEF Next

LEMMA InitInv == Init => PoolInv
<1> SUFFICES ASSUME Init PROVE PoolInv
  OBVIOUS
<1>1. TypeOK
  BY InitType
<1>2. Assigned /\ CreationHeld /\ SlotReserved /\ OwnAnswerPending
  BY DEF Init, Assigned, CreationHeld, SlotReserved, OwnAnswerPending, Creating,
         Holding
<1>3. RegistrySound /\ NoLostProcess
  BY DEF Init, RegistrySound, NoLostProcess
<1>4. UnbornIsBlank /\ StreamHoldsLock /\ CleanPipe
  BY DEF Init, UnbornIsBlank, StreamHoldsLock, CleanPipe, Holding
<1>5. QED
  BY <1>1, <1>2, <1>3, <1>4 DEF PoolInv

LEMMA Invariance == Spec => []PoolInv
BY InitInv, InvStep, PTL DEF Spec

(* Every reachable state of the pool is well typed.                        *)
THEOREM TypeCorrect == Spec => []TypeOK
<1>1. PoolInv => TypeOK
  BY DEF PoolInv
<1>2. QED
  BY <1>1, Invariance, PTL

(* No live subprocess ever drops out of the registry unsignalled: creation *)
(* locks, evictions, sweeps and broken pipes never lose one.               *)
THEOREM NoProcessIsLost == Spec => []NoLostProcess
<1>1. PoolInv => NoLostProcess
  BY DEF PoolInv
<1>2. QED
  BY <1>1, Invariance, PTL

(* The is_dirty discipline: an idle, live, clean subprocess has nothing    *)
(* left to read.                                                           *)
THEOREM IdlePipesAreClean == Spec => []CleanPipe
<1>1. PoolInv => CleanPipe
  BY DEF PoolInv
<1>2. QED
  BY <1>1, Invariance, PTL

(* A call reading from a live subprocess that is not dirty can be handed   *)
(* no answer but its own.                                                  *)
THEOREM CleanStreams == Spec => CleanStreamReadsOwnAnswer
<1>1. PoolInv /\ [Next]_vars =>
        [\A c \in Calls :
           /\ answer'[c] # answer[c]
           /\ Live(managed[c]) /\ ~isDirty[managed[c]]
           => answer'[c] = c]_vars
  <2> SUFFICES ASSUME PoolInv, Next, NEW d \in Calls, answer'[d] # answer[d],
                      Live(managed[d]), ~isDirty[managed[d]]
               PROVE  answer'[d] = d
    OBVIOUS
  <2>1. PICK c \in Calls : ReadResult(c)
    BY DEF Next, CallStep, RejectedByShutdown, FastPath, QueueForCreation,
           DoubleCheckHit, Reuse, EnterCreation, OldKilled, MakeRoom, Evicted,
           Spawned, SpawnFails, InitDone, InitEOF, InitConflict, LeaveInit,
           LockAndSend, LockDead, PipeBroken, BrokenKilled, StreamInterrupted,
           Cancelled, CleanupCycle, TerminateSession, BeginShutdown,
           ShutdownSnapshot, SweepKilled, SweepUnchanged, Crash, Die, Exit, Tick,
           callVars
  <2>2. c = d /\ answer'[d] = Head(pipe[managed[d]])
    BY <2>1 DEF ReadResult, PoolInv, TypeOK
  <2>3. pipe[managed[d]] = <<d>>
    BY <2>1, <2>2 DEF ReadResult, PoolInv, OwnAnswerPending, Holding
  <2>4. Head(<<d>>) = d
    OBVIOUS
  <2>5. QED
    BY <2>2, <2>3, <2>4
<1>2. QED
  BY <1>1, Invariance, PTL DEF Spec, CleanStreamReadsOwnAnswer
-----------------------------------------------------------------------------
(* Nothing is left held.  Locks are covered by PoolInv; a protected key is *)
(* that of a call in its init phase.                                       *)
InitProtects == \A k \in pendingInit : \E c \in Calls : CallKey[c] = k /\ pc[c] = "init"

(* A call moves: it protects its key when it enters the init phase, and    *)
(* unprotects it when it leaves it.                                        *)
LEMMA ProtectionMoves ==
  ASSUME TypeOK, InitProtects, NEW c \in Calls, NEW place, MoveTo(c, place),
         \/ UNCHANGED pendingInit /\ pc[c] # "init"
         \/ pendingInit' = Unprotected(c)
         \/ pendingInit' = Protected(c) /\ place = "init"
  PROVE  InitProtects'
<1>1. /\ pc'[c] = place
      /\ \A d \in Calls : d # c => pc'[d] = pc[d]
  BY DEF MoveTo, TypeOK
<1>2. SUFFICES ASSUME NEW k \in pendingInit'
               PROVE  \E d \in Calls : CallKey[d] = k /\ pc'[d] = "init"
  BY DEF InitProtects
<1>3. CASE UNCHANGED pendingInit /\ pc[c] # "init"
  BY <1>1, <1>2, <1>3 DEF InitProtects
<1>4. CASE pendingInit' = Unprotected(c)
  <2>1. k \in pendingInit /\ k # CallKey[c]
    BY <1>2, <1>4 DEF Unprotected
  <2>2. QED
    BY <1>1, <2>1 DEF InitProtects
<1>5. CASE pendingInit' = Protected(c) /\ place = "init"
  <2>1. k \in pendingInit \/ k = CallKey[c]
    BY <1>2, <1>5 DEF Protected
  <2>2. QED
    BY <1>1, <1>5, <2>1 DEF InitProtects
<1>6. QED
  BY <1>3, <1>4, <1>5

LEMMA ReuseProtects ==
  ASSUME TypeOK, InitProtects, NEW c \in Calls, pc[c] # "init", Reuse(c)
  PROVE  InitProtects'
<1>1. PICK p, ready : Obtain(c, p, ready)
  BY DEF Reuse
<1>2. QED
  BY <1>1, ProtectionMoves DEF Obtain

LEMMA InitProtectsStep == PoolInv /\ InitProtects /\ [Next]_vars => InitProtects'
<1> SUFFICES ASSUME TypeOK, InitProtects, [Next]_vars PROVE InitProtects'
  BY DEF PoolInv
<1> USE DEF poolVars, procVars, callVars, sweepVars
<1>1. ASSUME NEW c \in Calls, CallStep(c) PROVE InitProtects'
  <2>1. CASE FastPath(c) \/ DoubleCheckHit(c)
    BY <2>1, ReuseProtects DEF FastPath, DoubleCheckHit
  <2>2. CASE Spawned(c)
    <3>1. PICK p \in Procs : Obtain(c, p, FALSE)
      BY <2>2 DEF Spawned
    <3>2. QED
      BY <3>1, ProtectionMoves DEF Obtain
  <2>3. CASE InitDone(c) \/ InitEOF(c) \/ InitConflict(c)
    BY <2>3, ProtectionMoves DEF InitDone, InitEOF, InitConflict, LeaveInit
  <2>4. CASE EnterCreation(c) \/ OldKilled(c)
    BY <2>4, ProtectionMoves DEF EnterCreation, OldKilled, MakeRoom
  <2>5. CASE \/ RejectedByShutdown(c) \/ QueueForCreation(c) \/ Evicted(c)
             \/ SpawnFails(c) \/ LockAndSend(c) \/ LockDead(c)
    BY <2>5, ProtectionMoves
    DEF RejectedByShutdown, QueueForCreation, Evicted, SpawnFails, LockAndSend, LockDead
  <2>6. CASE \/ PipeBroken(c) \/ BrokenKilled(c) \/ ReadResult(c)
             \/ StreamInterrupted(c)
    BY <2>6, ProtectionMoves
    DEF PipeBroken, BrokenKilled, ReadResult, StreamInterrupted
  <2>7. QED
    BY <1>1, <2>1, <2>2, <2>3, <2>4, <2>5, <2>6 DEF CallStep
<1>2. ASSUME NEW c \in Calls, Cancelled(c) PROVE InitProtects'
  BY <1>2, ProtectionMoves DEF Cancelled
<1>3. CASE \/ CleanupCycle \/ BeginShutdown \/ ShutdownSnapshot \/ Tick
           \/ \E t \in Terminators : TerminateSession(t)
           \/ \E s \in Sweepers : SweepKilled(s)
           \/ \E p \in Procs : Crash(p) \/ Die(p)
  <2>1. UNCHANGED <<pc, pendingInit>>
    BY <1>3 DEF CleanupCycle, BeginShutdown, ShutdownSnapshot, Tick, TerminateSession,
                SweepKilled, SweepUnchanged, Crash, Die, Exit
  <2>2. QED
    BY <2>1 DEF InitProtects
<1>4. CASE UNCHANGED vars
  BY <1>4 DEF vars, InitProtects
<1>5. QED
  BY <1>1, <1>2, <1>3, <1>4 DEF Next

(* When every call has ended, no creation lock and no subprocess's lock is *)
(* held and no key is protected, whoever failed, was cancelled or killed.  *)
THEOREM NothingStaysHeld == Spec => []NothingLeftHeld
<1>1. Init => InitProtects
  BY DEF Init, InitProtects
<1>2. PoolInv /\ InitProtects => NothingLeftHeld
  <2> SUFFICES ASSUME PoolInv, InitProtects,
                      \A c \in Calls : pc[c] \in {"new", "done", "failed"}
               PROVE  /\ \A k \in Keys : creationLock[k] = None
                      /\ \A p \in Procs : lock[p] = None
                      /\ pendingInit = {}
    BY DEF NothingLeftHeld
  <2>0. /\ creationLock \in [Keys -> Calls \cup {None}]
        /\ lock \in [Procs -> Calls \cup {None}]
        /\ \A c \in Calls : pc[c] \notin Creating \cup Holding
    BY DEF PoolInv, TypeOK, Creating, Holding
  <2>1. \A k \in Keys : creationLock[k] = None
    BY <2>0 DEF PoolInv, CreationHeld
  <2>2. \A p \in Procs : lock[p] = None
    BY <2>0 DEF PoolInv, StreamHoldsLock
  <2>3. pendingInit = {}
    BY DEF InitProtects
  <2>4. QED
    BY <2>1, <2>2, <2>3
<1>3. QED
  BY <1>1, <1>2, Invariance, InitProtectsStep, PTL DEF Spec

-----------------------------------------------------------------------------
(* The pool implements AnswerService                                       *)

(* A call is given a subprocess of its own key.                            *)
OwnKey ==
  \A c \in Calls : managed[c] # None =>
    status[managed[c]] # "unborn" /\ routingKey[managed[c]] = CallKey[c]

(* A result goes to one call, and its request has ended by then.           *)
ResultsGiven ==
  \A c \in Calls : answer[c] # None =>
    pc[c] = "done" /\ pc[answer[c]] \in {"done", "failed"}

(* An unread answer is waiting in one place, in the pipe of the subprocess *)
(* its request was sent to, and has been handed to nobody.                 *)
AnswersUnread ==
  \A p \in Procs : \A i \in DOMAIN pipe[p] :
    /\ managed[pipe[p][i]] = p
    /\ pc[pipe[p][i]] \in {"streaming", "failed", "done"}
    /\ \A c \in Calls : answer[c] # pipe[p][i]
    /\ \A j \in DOMAIN pipe[p] : pipe[p][j] = pipe[p][i] => j = i

ServiceInv == OwnKey /\ ResultsGiven /\ AnswersUnread

(* A subprocess that was started keeps its key.                            *)
KeysKept ==
  \A p \in Procs : status[p] # "unborn" =>
    status'[p] # "unborn" /\ routingKey'[p] = routingKey[p]

LEMMA KillKeepsKeys ==
  ASSUME PoolInv, NEW a, NEW k \in Registered, PopAndKill(a, k), UNCHANGED routingKey
  PROVE  KeysKept
BY KillEffect DEF KeysKept, SameLife

(* How a call moves, as its caller sees it.                                *)
LEMMA StageMoves ==
  ASSUME TypeOK, NEW c \in Calls, NEW place \in CallPlaces, MoveTo(c, place)
  PROVE  /\ callState' = [callState EXCEPT ![c] = Stage(place)]
         /\ pc'[c] = place
         /\ \A d \in Calls : d # c => pc'[d] = pc[d]
<1>1. /\ pc'[c] = place
      /\ \A d \in Calls : d # c => pc'[d] = pc[d]
  BY DEF MoveTo, TypeOK
<1>2. callState' = [d \in Calls |-> Stage(pc'[d])]
  BY DEF callState, Stage
<1>3. \A d \in Calls : callState[d] = Stage(pc[d])
  BY DEF callState
<1>4. callState = [d \in Calls |-> callState[d]]
  BY DEF callState
<1>5. QED
  BY <1>1, <1>2, <1>3, <1>4

(* A step that moves no call and reads nothing.                            *)
LEMMA QuietKeeps ==
  ASSUME TypeOK, ServiceInv, KeysKept, UNCHANGED <<pc, managed, answer, pipe>>
  PROVE  ServiceInv' /\ UNCHANGED <<callState, answer>>
<1>1. OwnKey'
  BY DEF ServiceInv, OwnKey, KeysKept, TypeOK
<1>2. ResultsGiven' /\ AnswersUnread'
  BY DEF ServiceInv, ResultsGiven, AnswersUnread
<1>3. UNCHANGED callState
  BY DEF callState, Stage
<1>4. QED
  BY <1>1, <1>2, <1>3 DEF ServiceInv

(* A call on its way to the prompt, or giving up before it.                *)
LEMMA WaitingKeeps ==
  ASSUME TypeOK, ServiceInv, KeysKept, NEW c \in Calls,
         pc[c] \notin {"streaming", "done", "failed"},
         NEW place \in CallPlaces \ {"streaming", "done"}, MoveTo(c, place),
         UNCHANGED <<answer, pipe>>,
         \/ UNCHANGED managed
         \/ \E p \in Procs : /\ managed' = [managed EXCEPT ![c] = p]
                             /\ status'[p] # "unborn"
                             /\ routingKey'[p] = CallKey[c]
  PROVE  ServiceInv' /\ [Service!ANext]_(Service!avars)
<1>1. /\ pc'[c] = place
      /\ \A d \in Calls : d # c => pc'[d] = pc[d] /\ managed'[d] = managed[d]
      /\ callState' = [callState EXCEPT ![c] = Stage(place)]
  BY StageMoves DEF TypeOK
<1>2. OwnKey'
  BY <1>1 DEF ServiceInv, OwnKey, KeysKept, TypeOK
<1>3. ResultsGiven'
  <2>1. \A d \in Calls : answer[d] # None => answer[d] \in Calls
    BY DEF TypeOK
  <2>2. QED
    BY <1>1, <2>1 DEF ServiceInv, ResultsGiven
<1>4. \A p \in Procs : \A i \in DOMAIN pipe[p] : pipe[p][i] \in Calls /\ pipe[p][i] # c
  BY DEF ServiceInv, AnswersUnread, TypeOK
<1>5. AnswersUnread'
  BY <1>1, <1>4 DEF ServiceInv, AnswersUnread
<1>6. callState[c] = "open"
  BY DEF callState, Stage
<1>7. CASE place = "failed"
  <2>1. Service!Fail(c)
    BY <1>1, <1>6, <1>7 DEF Service!Fail, Stage
  <2>2. QED
    BY <1>2, <1>3, <1>5, <2>1 DEF ServiceInv, Service!ANext
<1>8. CASE place # "failed"
  <2>1. Stage(place) = "open"
    BY <1>8 DEF Stage
  <2>2. UNCHANGED callState
    BY <1>1, <1>6, <2>1 DEF callState
  <2>3. QED
    BY <1>2, <1>3, <1>5, <2>2 DEF ServiceInv, Service!avars
<1>9. QED
  BY <1>7, <1>8

(* The prompt is written: a new request enters the pipe.                   *)
LEMMA SendingKeeps ==
  ASSUME PoolInv, ServiceInv, NEW c \in Calls, LockAndSend(c)
  PROVE  ServiceInv' /\ [Service!ANext]_(Service!avars)
<1> DEFINE p == managed[c]
<1>0. TypeOK
  BY DEF PoolInv
<1>1. /\ pc[c] = "want_lock" /\ p \in Procs
      /\ MoveTo(c, "streaming")
      /\ pipe' = [pipe EXCEPT ![p] = Append(@, c)]
      /\ UNCHANGED <<status, routingKey, managed, answer>>
  BY DEF LockAndSend, PoolInv, Assigned
<1>2. /\ pc'[c] = "streaming"
      /\ \A d \in Calls : d # c => pc'[d] = pc[d]
      /\ callState' = [callState EXCEPT ![c] = "sent"]
  BY <1>0, <1>1, StageMoves DEF CallPlaces, Stage
<1>3. OwnKey'
  BY <1>1 DEF ServiceInv, OwnKey
<1>4. ResultsGiven'
  <2>1. \A d \in Calls : answer[d] # None => answer[d] \in Calls
    BY <1>0 DEF TypeOK
  <2>2. QED
    BY <1>1, <1>2, <2>1 DEF ServiceInv, ResultsGiven
<1>5. \A q \in Procs : \A i \in DOMAIN pipe[q] : pipe[q][i] \in Calls /\ pipe[q][i] # c
  <2>1. \A q \in Procs : \A i \in DOMAIN pipe[q] : pipe[q][i] \in Calls
    BY <1>0 DEF TypeOK
  <2>2. \A q \in Procs : \A i \in DOMAIN pipe[q] : pipe[q][i] # c
    BY <1>1 DEF ServiceInv, AnswersUnread
  <2>3. QED
    BY <2>1, <2>2
<1>6. \A d \in Calls : answer[d] # c
  BY <1>1, PoolAssumption DEF ServiceInv, ResultsGiven
<1>7. AnswersUnread'
  <2>1. SUFFICES ASSUME NEW q \in Procs, NEW i \in DOMAIN pipe'[q]
                 PROVE  /\ managed[pipe'[q][i]] = q
                        /\ pc'[pipe'[q][i]] \in {"streaming", "failed", "done"}
                        /\ \A d \in Calls : answer[d] # pipe'[q][i]
                        /\ \A j \in DOMAIN pipe'[q] : pipe'[q][j] = pipe'[q][i] => j = i
    BY <1>1 DEF AnswersUnread
  <2>2. CASE q # p
    <3>1. pipe'[q] = pipe[q]
      BY <1>0, <1>1, <2>2 DEF TypeOK
    <3>2. QED
      BY <1>2, <1>5, <2>1, <3>1 DEF ServiceInv, AnswersUnread
  <2>3. CASE q = p
    <3>1. pipe[p] \in Seq(Calls) /\ pipe'[p] = Append(pipe[p], c)
      BY <1>0, <1>1 DEF TypeOK
    <3>2. /\ DOMAIN pipe[p] = 1 .. Len(pipe[p]) /\ Len(pipe[p]) \in Nat
          /\ DOMAIN pipe'[p] = 1 .. (Len(pipe[p]) + 1)
          /\ pipe'[p][Len(pipe[p]) + 1] = c
          /\ \A j \in 1 .. Len(pipe[p]) : pipe'[p][j] = pipe[p][j]
      BY <3>1
    <3>3. CASE i = Len(pipe[p]) + 1
      <4>1. pipe'[p][i] = c
        BY <3>2, <3>3
      <4>2. \A j \in DOMAIN pipe'[p] : pipe'[p][j] = c => j = i
        BY <1>1, <1>5, <3>2, <3>3
      <4>3. QED
        BY <1>2, <1>6, <2>3, <4>1, <4>2
    <3>4. CASE i \in 1 .. Len(pipe[p])
      <4>1. pipe'[p][i] = pipe[p][i] /\ i \in DOMAIN pipe[p]
        BY <3>2, <3>4
      <4>2. pipe[p][i] # c /\ pipe[p][i] \in Calls
        BY <1>1, <1>5, <4>1
      <4>3. /\ managed[pipe[p][i]] = p
            /\ pc'[pipe[p][i]] \in {"streaming", "failed", "done"}
            /\ \A d \in Calls : answer[d] # pipe[p][i]
            /\ \A j \in DOMAIN pipe[p] : pipe[p][j] = pipe[p][i] => j = i
        BY <1>1, <1>2, <4>1, <4>2 DEF ServiceInv, AnswersUnread
      <4>4. ASSUME NEW j \in DOMAIN pipe'[p], pipe'[p][j] = pipe'[p][i]
            PROVE  j = i
        <5>1. j # Len(pipe[p]) + 1
          BY <3>2, <4>1, <4>2, <4>4
        <5>2. j \in 1 .. Len(pipe[p])
          BY <3>2, <4>4, <5>1
        <5>3. j \in DOMAIN pipe[p] /\ pipe[p][j] = pipe[p][i]
          BY <3>2, <4>1, <4>4, <5>2
        <5>4. QED
          BY <4>3, <5>3
      <4>5. QED
        BY <2>3, <4>1, <4>3, <4>4
    <3>5. QED
      BY <2>1, <2>3, <3>2, <3>3, <3>4
  <2>4. QED
    BY <2>2, <2>3
<1>8. Service!Send(c)
  <2>1. callState[c] = "open"
    BY <1>1 DEF callState, Stage
  <2>2. QED
    BY <1>1, <1>2, <2>1 DEF Service!Send
<1>9. QED
  BY <1>3, <1>4, <1>7, <1>8 DEF ServiceInv, Service!ANext

(* A result is read: the oldest unread answer leaves the pipe, and its     *)
(* request is the reader's own or one that has ended.                      *)
LEMMA ReadingKeeps ==
  ASSUME PoolInv, ServiceInv, NEW c \in Calls, ReadResult(c)
  PROVE  ServiceInv' /\ [Service!ANext]_(Service!avars)
<1> DEFINE p == managed[c]
           d == Head(pipe[p])
<1>0. TypeOK
  BY DEF PoolInv
<1>1. /\ pc[c] = "streaming" /\ p \in Procs /\ pipe[p] # <<>>
      /\ MoveTo(c, "done")
      /\ pipe' = [pipe EXCEPT ![p] = Tail(pipe[p])]
      /\ answer' = [answer EXCEPT ![c] = d]
      /\ UNCHANGED <<status, routingKey, managed>>
  BY DEF ReadResult, Rest, PoolInv, Assigned, Holding
<1>2. /\ pc'[c] = "done"
      /\ \A e \in Calls : e # c => pc'[e] = pc[e]
      /\ callState' = [callState EXCEPT ![c] = "answered"]
  BY <1>0, <1>1, StageMoves DEF CallPlaces, Stage
<1>3. /\ pipe[p] \in Seq(Calls) /\ Len(pipe[p]) \in Nat \ {0}
      /\ DOMAIN pipe[p] = 1 .. Len(pipe[p])
      /\ pipe[p][1] = d /\ d \in Calls
      /\ pipe'[p] = Tail(pipe[p])
  BY <1>0, <1>1 DEF TypeOK
<1>4. /\ DOMAIN pipe'[p] = 1 .. (Len(pipe[p]) - 1)
      /\ \A i \in DOMAIN pipe'[p] : /\ i + 1 \in DOMAIN pipe[p]
                                    /\ i + 1 # 1
                                    /\ pipe'[p][i] = pipe[p][i + 1]
  BY <1>3
<1>5. /\ managed[d] = p /\ pc[d] \in {"streaming", "failed", "done"}
      /\ \A e \in Calls : answer[e] # d
      /\ \A j \in DOMAIN pipe[p] : pipe[p][j] = d => j = 1
  <2>1. 1 \in DOMAIN pipe[p]
    BY <1>3
  <2>2. QED
    BY <1>1, <1>3, <2>1 DEF ServiceInv, AnswersUnread
<1>6. d = c \/ pc[d] \in {"failed", "done"}
  <2>1. pc[d] = "streaming" => lock[p] = d
    BY <1>3, <1>5 DEF PoolInv, StreamHoldsLock, Holding
  <2>2. lock[p] = c
    BY <1>1 DEF PoolInv, StreamHoldsLock, Holding
  <2>3. QED
    BY <1>5, <2>1, <2>2
<1>7. CallKey[d] = CallKey[c]
  BY <1>1, <1>3, <1>5, PoolAssumption DEF ServiceInv, OwnKey
<1> HIDE DEF d
<1>8. OwnKey'
  BY <1>1 DEF ServiceInv, OwnKey
<1>9. answer'[c] = d /\ \A e \in Calls : e # c => answer'[e] = answer[e]
  BY <1>0, <1>1 DEF TypeOK
<1>10. ResultsGiven'
  <2>1. \A e \in Calls : answer[e] # None => answer[e] # c
    BY <1>1 DEF ServiceInv, ResultsGiven
  <2>2. \A e \in Calls : answer[e] # None => answer[e] \in Calls
    BY <1>0 DEF TypeOK
  <2>3. \A e \in Calls : e # c /\ answer'[e] # None =>
          pc'[e] = "done" /\ pc'[answer'[e]] \in {"done", "failed"}
    BY <1>2, <1>9, <2>1, <2>2 DEF ServiceInv, ResultsGiven
  <2>4. pc'[c] = "done" /\ pc'[d] \in {"done", "failed"}
    BY <1>2, <1>3, <1>6
  <2>5. QED
    BY <1>9, <2>3, <2>4 DEF ResultsGiven
<1>11. AnswersUnread'
  <2>1. SUFFICES ASSUME NEW q \in Procs, NEW i \in DOMAIN pipe'[q]
                 PROVE  /\ managed[pipe'[q][i]] = q
                        /\ pc'[pipe'[q][i]] \in {"streaming", "failed", "done"}
                        /\ \A e \in Calls : answer'[e] # pipe'[q][i]
                        /\ \A j \in DOMAIN pipe'[q] : pipe'[q][j] = pipe'[q][i] => j = i
    BY <1>1 DEF AnswersUnread
  <2>2. CASE q # p
    <3>1. pipe'[q] = pipe[q] /\ i \in DOMAIN pipe[q] /\ pipe[q][i] \in Calls
      BY <1>0, <1>1, <2>1, <2>2 DEF TypeOK
    <3>2. /\ managed[pipe[q][i]] = q
          /\ pc[pipe[q][i]] \in {"streaming", "failed", "done"}
          /\ \A e \in Calls : answer[e] # pipe[q][i]
          /\ \A j \in DOMAIN pipe[q] : pipe[q][j] = pipe[q][i] => j = i
      BY <3>1 DEF ServiceInv, AnswersUnread
    <3>3. pipe[q][i] # d
      BY <1>5, <2>2, <3>2
    <3>4. pc'[pipe[q][i]] \in {"streaming", "failed", "done"}
      BY <1>2, <3>1, <3>2
    <3>5. QED
      BY <1>9, <3>1, <3>2, <3>3, <3>4
  <2>3. CASE q = p
    <3>0. i \in DOMAIN pipe'[p] /\ DOMAIN pipe'[p] \subseteq Nat
      <4>1. i \in DOMAIN pipe'[p]
        BY <2>1, <2>3
      <4>2. DOMAIN pipe'[p] \subseteq Nat
        BY <1>3, <1>4
      <4>3. QED
        BY <4>1, <4>2
    <3>1. /\ i + 1 \in DOMAIN pipe[p] /\ pipe'[p][i] = pipe[p][i + 1]
          /\ pipe[p][i + 1] # d /\ pipe[p][i + 1] \in Calls
      <4>1. i + 1 \in DOMAIN pipe[p] /\ pipe'[p][i] = pipe[p][i + 1] /\ i + 1 # 1
        BY <1>4, <3>0
      <4>2. pipe[p][i + 1] # d
        BY <1>5, <4>1
      <4>3. pipe[p][i + 1] \in Calls
        BY <1>3, <4>1
      <4>4. QED
        BY <4>1, <4>2, <4>3
    <3>2. /\ managed[pipe[p][i + 1]] = p
          /\ pc[pipe[p][i + 1]] \in {"streaming", "failed", "done"}
          /\ \A e \in Calls : answer[e] # pipe[p][i + 1]
          /\ \A j \in DOMAIN pipe[p] : pipe[p][j] = pipe[p][i + 1] => j = i + 1
      BY <1>1, <3>1 DEF ServiceInv, AnswersUnread
    <3>3. pc'[pipe[p][i + 1]] \in {"streaming", "failed", "done"}
      BY <1>2, <3>1, <3>2
    <3>4. \A j \in DOMAIN pipe'[p] : pipe'[p][j] = pipe'[p][i] => j + 1 = i + 1
      BY <1>4, <3>1, <3>2
    <3>5. \A j \in DOMAIN pipe'[p] : pipe'[p][j] = pipe'[p][i] => j = i
      BY <3>0, <3>4
    <3>6. QED
      BY <1>9, <2>3, <3>1, <3>2, <3>3, <3>5
  <2>4. QED
    BY <2>2, <2>3
<1>12. Service!Deliver(c, d)
  <2>1. callState[c] = "sent"
    BY <1>1 DEF callState, Stage
  <2>2. d = c \/ callState[d] \in {"answered", "failed"}
    BY <1>3, <1>6 DEF callState, Stage
  <2>3. d \notin Service!Delivered
    BY <1>5 DEF Service!Delivered
  <2>4. QED
    BY <1>1, <1>2, <1>7, <2>1, <2>2, <2>3 DEF Service!Deliver
<1>13. QED
  BY <1>3, <1>8, <1>10, <1>11, <1>12 DEF ServiceInv, Service!ANext

(* The stream ends without a result; at most the oldest answer is lost.    *)
LEMMA InterruptingKeeps ==
  ASSUME PoolInv, ServiceInv, NEW c \in Calls, StreamInterrupted(c)
  PROVE  ServiceInv' /\ [Service!ANext]_(Service!avars)
<1> DEFINE p == managed[c]
<1>0. TypeOK
  BY DEF PoolInv
<1>1. /\ pc[c] = "streaming" /\ p \in Procs
      /\ MoveTo(c, "failed")
      /\ UNCHANGED <<status, routingKey, managed, answer>>
      /\ \/ UNCHANGED pipe
         \/ pipe[p] # <<>> /\ pipe' = [pipe EXCEPT ![p] = Tail(pipe[p])]
  BY DEF StreamInterrupted, Rest, PoolInv, Assigned, Holding
<1>2. /\ pc'[c] = "failed"
      /\ \A e \in Calls : e # c => pc'[e] = pc[e]
      /\ callState' = [callState EXCEPT ![c] = "failed"]
  BY <1>0, <1>1, StageMoves DEF CallPlaces, Stage
<1>3. OwnKey'
  BY <1>1 DEF ServiceInv, OwnKey
<1>4. ResultsGiven'
  <2>1. \A e \in Calls : answer[e] # None => answer[e] \in Calls
    BY <1>0 DEF TypeOK
  <2>2. QED
    BY <1>1, <1>2, <2>1 DEF ServiceInv, ResultsGiven
<1>5. ASSUME NEW q \in Procs
      PROVE  \E n \in {0, 1} : \A i \in DOMAIN pipe'[q] :
               /\ i \in Nat
               /\ i + n \in DOMAIN pipe[q]
               /\ pipe'[q][i] = pipe[q][i + n]
  <2>1. pipe[q] \in Seq(Calls)
    BY <1>0 DEF TypeOK
  <2>2. CASE pipe'[q] = pipe[q]
    BY <2>1, <2>2
  <2>3. CASE pipe[q] # <<>> /\ pipe'[q] = Tail(pipe[q])
    BY <2>1, <2>3
  <2>4. QED
    BY <1>0, <1>1, <2>2, <2>3 DEF TypeOK
<1>6. AnswersUnread'
  <2>1. SUFFICES ASSUME NEW q \in Procs, NEW i \in DOMAIN pipe'[q]
                 PROVE  /\ managed[pipe'[q][i]] = q
                        /\ pc'[pipe'[q][i]] \in {"streaming", "failed", "done"}
                        /\ \A e \in Calls : answer[e] # pipe'[q][i]
                        /\ \A j \in DOMAIN pipe'[q] : pipe'[q][j] = pipe'[q][i] => j = i
    BY <1>1 DEF AnswersUnread
  <2>2. PICK n \in {0, 1} : \A j \in DOMAIN pipe'[q] :
               /\ j \in Nat
               /\ j + n \in DOMAIN pipe[q]
               /\ pipe'[q][j] = pipe[q][j + n]
    BY <1>5
  <2>3. pipe[q][i + n] \in Calls
    BY <1>0, <2>1, <2>2 DEF TypeOK
  <2>4. /\ managed[pipe[q][i + n]] = q
        /\ pc[pipe[q][i + n]] \in {"streaming", "failed", "done"}
        /\ \A e \in Calls : answer[e] # pipe[q][i + n]
        /\ \A j \in DOMAIN pipe[q] : pipe[q][j] = pipe[q][i + n] => j = i + n
    BY <2>1, <2>2 DEF ServiceInv, AnswersUnread
  <2>5. \A j \in DOMAIN pipe'[q] : pipe'[q][j] = pipe'[q][i] => j + n = i + n
    BY <2>1, <2>2, <2>4
  <2>6. \A j \in DOMAIN pipe'[q] : pipe'[q][j] = pipe'[q][i] => j = i
    BY <2>1, <2>2, <2>5
  <2>7. pc'[pipe[q][i + n]] \in {"streaming", "failed", "done"}
    BY <1>2, <2>3, <2>4
  <2>8. QED
    BY <2>1, <2>2, <2>4, <2>6, <2>7
<1>7. Service!Fail(c)
  <2>1. callState[c] = "sent"
    BY <1>1 DEF callState, Stage
  <2>2. QED
    BY <1>1, <1>2, <2>1 DEF Service!Fail
<1>8. QED
  BY <1>3, <1>4, <1>6, <1>7 DEF ServiceInv, Service!ANext

(* Handing out the registered subprocess of the call's key.                *)
LEMMA ReuseServes ==
  ASSUME PoolInv, ServiceInv, NEW c \in Calls, pc[c] \in {"new", "want_creation"},
         Usable(CallKey[c]), Reuse(c)
  PROVE  ServiceInv' /\ [Service!ANext]_(Service!avars)
<1> DEFINE p == processes[CallKey[c]]
<1>1. /\ p \in Procs /\ status[p] # "unborn" /\ routingKey[p] = CallKey[c]
  BY PoolAssumption DEF PoolInv, TypeOK, Usable, Live, RegistrySound
<1>2. PICK place \in {"init", "want_lock"} : MoveTo(c, place)
  BY DEF Reuse, Obtain
<1>3. /\ managed' = [managed EXCEPT ![c] = p]
      /\ UNCHANGED <<status, routingKey, answer, pipe>>
  BY DEF Reuse, Obtain
<1>4. KeysKept
  BY <1>3 DEF KeysKept
<1>5. \E q \in Procs : /\ managed' = [managed EXCEPT ![c] = q]
                       /\ status'[q] # "unborn"
                       /\ routingKey'[q] = CallKey[c]
  BY <1>1, <1>3
<1>6. place \in CallPlaces \ {"streaming", "done"}
  BY DEF CallPlaces
<1>7. QED
  BY <1>2, <1>3, <1>4, <1>5, <1>6, WaitingKeeps DEF PoolInv

(* Making room, with or without an eviction.                               *)
LEMMA MakeRoomServes ==
  ASSUME PoolInv, ServiceInv, NEW c \in Calls,
         pc[c] \notin {"streaming", "done", "failed"}, MakeRoom(c)
  PROVE  ServiceInv' /\ [Service!ANext]_(Service!avars)
<1>1. UNCHANGED <<routingKey, managed, answer, pipe>>
  BY DEF MakeRoom
<1>2. PICK place \in {"spawning", "evicting"} : MoveTo(c, place)
  BY DEF MakeRoom
<1>3. KeysKept
  <2>1. CASE UNCHANGED status
    BY <1>1, <2>1 DEF KeysKept
  <2>2. CASE \E k \in Registered : PopAndKill(c, k)
    BY <1>1, <2>2, KillKeepsKeys
  <2>3. QED
    BY <2>1, <2>2 DEF MakeRoom, LeastRecent, Evictable
<1>4. place \in CallPlaces \ {"streaming", "done"}
  BY DEF CallPlaces
<1>5. QED
  BY <1>1, <1>2, <1>3, <1>4, WaitingKeeps DEF PoolInv

(* A new subprocess carries the key of the call it was started for.        *)
LEMMA SpawnedServes ==
  ASSUME PoolInv, ServiceInv, NEW c \in Calls, Spawned(c)
  PROVE  ServiceInv' /\ [Service!ANext]_(Service!avars)
<1>1. PICK p \in Procs :
        /\ status[p] = "unborn"
        /\ status' = [status EXCEPT ![p] = "alive"]
        /\ routingKey' = [routingKey EXCEPT ![p] = CallKey[c]]
        /\ Obtain(c, p, FALSE)
  BY DEF Spawned
<1>2. pc[c] = "spawning" /\ UNCHANGED <<answer, pipe>>
  BY DEF Spawned
<1>3. managed' = [managed EXCEPT ![c] = p] /\ MoveTo(c, "init")
  BY <1>1 DEF Obtain
<1>4. KeysKept /\ status'[p] # "unborn" /\ routingKey'[p] = CallKey[c]
  BY <1>1 DEF KeysKept, PoolInv, TypeOK
<1>5. QED
  BY <1>2, <1>3, <1>4, WaitingKeeps DEF CallPlaces, PoolInv

LEMMA SweepServes ==
  ASSUME PoolInv, ServiceInv, NEW s \in Sweepers, NEW S \in SUBSET Keys,
         SweepOn(s, S), SweepUnchanged
  PROVE  ServiceInv' /\ [Service!ANext]_(Service!avars)
<1>1. UNCHANGED <<routingKey, pc, managed, answer, pipe>>
  BY DEF SweepUnchanged, callVars
<1>2. KeysKept
  <2>1. CASE UNCHANGED status
    BY <1>1, <2>1 DEF KeysKept
  <2>2. CASE \E k \in Registered : PopAndKill(s, k)
    BY <1>1, <2>2, KillKeepsKeys
  <2>3. QED
    BY <2>1, <2>2 DEF SweepOn
<1>3. QED
  BY <1>1, <1>2, QuietKeeps DEF PoolInv, Service!avars

LEMMA ServiceStep ==
  PoolInv /\ ServiceInv /\ [Next]_vars => ServiceInv' /\ [Service!ANext]_(Service!avars)
<1> SUFFICES ASSUME PoolInv, ServiceInv, [Next]_vars
             PROVE  ServiceInv' /\ [Service!ANext]_(Service!avars)
  OBVIOUS
<1> DEFINE Goal == ServiceInv' /\ [Service!ANext]_(Service!avars)
<1> HIDE DEF Goal
<1> USE DEF poolVars, procVars, callVars, sweepVars
<1>0. TypeOK
  BY DEF PoolInv
<1>1. ASSUME NEW c \in Calls, CallStep(c) PROVE Goal
  <2>1. CASE FastPath(c) \/ DoubleCheckHit(c)
    BY <2>1, ReuseServes DEF FastPath, DoubleCheckHit, Goal
  <2>2. CASE EnterCreation(c)
    <3>1. CASE processes[CallKey[c]] = None
      BY <2>2, <3>1, MakeRoomServes DEF EnterCreation, Goal
    <3>2. CASE processes[CallKey[c]] # None
      <4>1. /\ PopAndKill(c, CallKey[c]) /\ CallKey[c] \in Registered
            /\ MoveTo(c, "killing_old")
            /\ UNCHANGED <<routingKey, managed, answer, pipe>>
            /\ pc[c] \notin {"streaming", "done", "failed"}
        BY <2>2, <3>2, PoolAssumption DEF EnterCreation, Registered
      <4>2. KeysKept
        BY <4>1, KillKeepsKeys
      <4>3. QED
        BY <1>0, <4>1, <4>2, WaitingKeeps DEF CallPlaces, Goal
    <3>3. QED
      BY <3>1, <3>2
  <2>3. CASE OldKilled(c)
    BY <2>3, MakeRoomServes DEF OldKilled, Goal
  <2>4. CASE Spawned(c)
    BY <2>4, SpawnedServes DEF Goal
  <2>5. CASE \/ RejectedByShutdown(c) \/ QueueForCreation(c) \/ Evicted(c)
             \/ SpawnFails(c) \/ InitDone(c) \/ InitEOF(c) \/ InitConflict(c)
             \/ LockDead(c) \/ BrokenKilled(c)
    <3>1. PICK place \in CallPlaces \ {"streaming", "done"} : MoveTo(c, place)
      BY <2>5 DEF RejectedByShutdown, QueueForCreation, Evicted, SpawnFails, InitDone,
                  InitEOF, InitConflict, LeaveInit, LockDead, BrokenKilled, CallPlaces
    <3>2. /\ UNCHANGED <<status, routingKey, managed, answer, pipe>>
          /\ pc[c] \notin {"streaming", "done", "failed"}
      BY <2>5 DEF RejectedByShutdown, QueueForCreation, Evicted, SpawnFails, InitDone,
                  InitEOF, InitConflict, LeaveInit, LockDead, BrokenKilled
    <3>3. KeysKept
      BY <3>2 DEF KeysKept
    <3>4. QED
      BY <1>0, <3>1, <3>2, <3>3, WaitingKeeps DEF Goal
  <2>6. CASE PipeBroken(c)
    <3>1. PICK place \in {"failed", "breaking"} : MoveTo(c, place)
      BY <2>6 DEF PipeBroken
    <3>2. /\ UNCHANGED <<routingKey, managed, answer, pipe>>
          /\ pc[c] \notin {"streaming", "done", "failed"}
      BY <2>6 DEF PipeBroken
    <3>3. KeysKept
      <4>1. CASE processes[CallKey[c]] = None
        BY <2>6, <3>2, <4>1 DEF PipeBroken, KeysKept
      <4>2. CASE processes[CallKey[c]] # None
        <5>1. CallKey[c] \in Registered /\ PopAndKill(c, CallKey[c])
          BY <2>6, <4>2, PoolAssumption DEF PipeBroken, Registered
        <5>2. QED
          BY <3>2, <5>1, KillKeepsKeys
      <4>3. QED
        BY <4>1, <4>2
    <3>4. place \in CallPlaces \ {"streaming", "done"}
      BY DEF CallPlaces
    <3>5. QED
      BY <1>0, <3>1, <3>2, <3>3, <3>4, WaitingKeeps DEF Goal
  <2>7. CASE LockAndSend(c)
    BY <2>7, SendingKeeps DEF Goal
  <2>8. CASE ReadResult(c)
    BY <2>8, ReadingKeeps DEF Goal
  <2>9. CASE StreamInterrupted(c)
    BY <2>9, InterruptingKeeps DEF Goal
  <2>10. QED
    BY <1>1, <2>1, <2>2, <2>3, <2>4, <2>5, <2>6, <2>7, <2>8, <2>9 DEF CallStep
<1>2. ASSUME NEW c \in Calls, Cancelled(c) PROVE Goal
  <2>1. /\ MoveTo(c, "failed")
        /\ UNCHANGED <<status, routingKey, managed, answer, pipe>>
        /\ pc[c] \notin {"streaming", "done", "failed"}
    BY <1>2 DEF Cancelled
  <2>2. KeysKept
    BY <2>1 DEF KeysKept
  <2>3. QED
    BY <1>0, <2>1, <2>2, WaitingKeeps DEF CallPlaces, Goal
<1>3. CASE CleanupCycle \/ ShutdownSnapshot
  BY <1>3, SweepServes
  DEF CleanupCycle, ShutdownSnapshot, Expired, Registered, Sweepers, Goal
<1>4. ASSUME NEW t \in Terminators, TerminateSession(t) PROVE Goal
  BY <1>4, SweepServes DEF TerminateSession, Registered, Sweepers, Goal
<1>5. ASSUME NEW s \in Sweepers, SweepKilled(s) PROVE Goal
  <2>1. todo[s] \in SUBSET Keys
    BY <1>0 DEF TypeOK
  <2>2. QED
    BY <1>5, <2>1, SweepServes DEF SweepKilled, Goal
<1>6. CASE BeginShutdown \/ Tick \/ UNCHANGED vars
  <2>1. UNCHANGED <<status, routingKey, pc, managed, answer, pipe>>
    BY <1>6 DEF BeginShutdown, SweepUnchanged, Tick, vars
  <2>2. QED
    BY <1>0, <2>1, QuietKeeps DEF KeysKept, Service!avars, Goal
<1>7. ASSUME NEW p \in Procs, Crash(p) \/ Die(p) PROVE Goal
  <2>1. /\ status' = [status EXCEPT ![p] = "dead"]
        /\ UNCHANGED <<routingKey, pc, managed, answer, pipe>>
    BY <1>7 DEF Crash, Die, Exit
  <2>2. KeysKept
    BY <1>0, <2>1 DEF KeysKept, TypeOK
  <2>3. QED
    BY <1>0, <2>1, <2>2, QuietKeeps DEF Service!avars, Goal
<1>8. ASSUME Next PROVE Goal
  <2>1. \A c \in Calls : CallStep(c) => Goal
    BY <1>1
  <2>2. \A c \in Calls : Cancelled(c) => Goal
    BY <1>2
  <2>3. \A t \in Terminators : TerminateSession(t) => Goal
    BY <1>4
  <2>4. \A s \in Sweepers : SweepKilled(s) => Goal
    BY <1>5
  <2>5. \A p \in Procs : Crash(p) \/ Die(p) => Goal
    BY <1>7
  <2>6. (CleanupCycle \/ ShutdownSnapshot) => Goal
    BY <1>3 DEF Goal
  <2>7. (BeginShutdown \/ Tick) => Goal
    BY <1>6 DEF Goal
  <2>8. QED
    BY <1>8, <2>1, <2>2, <2>3, <2>4, <2>5, <2>6, <2>7 DEF Next
<1>9. QED
  BY <1>6, <1>8 DEF Goal

(* The pool implements AnswerService: every result a caller is handed was  *)
(* produced for a request of its own key, is handed out once, and belongs  *)
(* to the caller or to a request that has ended.                           *)
THEOREM PoolImplementsService == Spec => ServiceSpec
<1>1. Init => ServiceInv
  BY DEF Init, ServiceInv, OwnKey, ResultsGiven, AnswersUnread
<1>2. Init => Service!AInit
  BY DEF Init, Service!AInit, callState, Stage
<1>3. QED
  BY <1>1, <1>2, Invariance, ServiceStep, PTL DEF Spec, ServiceSpec, Service!ASpec

-----------------------------------------------------------------------------
(* Nobody waits in vain                                                    *)

Awaiting == {"killing_old", "evicting", "breaking"}

(* Whose death is awaited is dying or dead.                                *)
VictimsEnd ==
  /\ \A c \in Calls : pc[c] \in Awaiting => EndsByItself(victim[c])
  /\ \A s \in Sweepers : swPc[s] = "running" => EndsByItself(victim[s])

(* What is dying only dies.                                                *)
DyingEnds == \A p \in Procs : EndsByItself(p) => EndsByItself(p)'

(* Who kills what the registry holds awaits the death of a subprocess that *)
(* is dying now, or was dead.                                              *)
LEMMA KillVictim ==
  ASSUME PoolInv, NEW a \in Calls \cup Sweepers, NEW k \in Registered, PopAndKill(a, k)
  PROVE  /\ DyingEnds /\ EndsByItself(victim[a])'
         /\ \A b \in (Calls \cup Sweepers) \ {a} : victim'[b] = victim[b]
<1>1. /\ processes[k] \in Procs
      /\ status[processes[k]] \in {"alive", "dead"}
  BY DEF PoolInv, TypeOK, RegistrySound, Registered
<1>2. /\ status' = [status EXCEPT ![processes[k]] =
                                 IF @ = "alive" THEN "dying" ELSE @]
      /\ victim' = [victim EXCEPT ![a] = processes[k]]
  BY DEF PopAndKill
<1>3. DyingEnds
  BY <1>1, <1>2 DEF DyingEnds, EndsByItself, PoolInv, TypeOK
<1>4. victim'[a] = processes[k] /\ status'[processes[k]] \in {"dying", "dead"}
  BY <1>1, <1>2 DEF PoolInv, TypeOK
<1>5. EndsByItself(victim[a])'
  BY <1>1, <1>4 DEF EndsByItself
<1>6. QED
  BY <1>2, <1>3, <1>5 DEF PoolInv, TypeOK

(* A call moves, to the wait for a death only with a victim.               *)
LEMMA CallAwaits ==
  ASSUME TypeOK, VictimsEnd, DyingEnds, UNCHANGED swPc,
         NEW c \in Calls, NEW place, MoveTo(c, place),
         place \in Awaiting => EndsByItself(victim[c])',
         \A b \in (Calls \cup Sweepers) \ {c} : victim'[b] = victim[b]
  PROVE  VictimsEnd'
<1>1. \A s \in Sweepers : s # c
  BY PoolAssumption DEF Sweepers
<1>2. /\ pc'[c] = place
      /\ \A d \in Calls : d # c => pc'[d] = pc[d]
  BY DEF MoveTo, TypeOK
<1>3. ASSUME NEW b \in (Calls \cup Sweepers) \ {c}, EndsByItself(victim[b])
      PROVE  EndsByItself(victim[b])'
  BY <1>3 DEF DyingEnds, EndsByItself
<1>4. ASSUME NEW d \in Calls, pc'[d] \in Awaiting
      PROVE  EndsByItself(victim[d])'
  <2>1. CASE d = c
    BY <1>2, <1>4, <2>1
  <2>2. CASE d # c
    BY <1>2, <1>3, <1>4, <2>2 DEF VictimsEnd
  <2>3. QED
    BY <2>1, <2>2
<1>5. ASSUME NEW s \in Sweepers, swPc'[s] = "running"
      PROVE  EndsByItself(victim[s])'
  BY <1>1, <1>3, <1>5 DEF VictimsEnd
<1>6. QED
  BY <1>4, <1>5 DEF VictimsEnd

(* So does a sweeper.                                                      *)
LEMMA SweeperAwaits ==
  ASSUME PoolInv, VictimsEnd, NEW s \in Sweepers, NEW S \in SUBSET Keys, SweepOn(s, S),
         SweepUnchanged
  PROVE  VictimsEnd'
<1>0. /\ \A c \in Calls : c # s
      /\ swPc \in [Sweepers -> {"idle", "stopping", "running", "done"}]
      /\ victim \in [Calls \cup Sweepers -> Procs \cup {None}]
  BY PoolAssumption DEF Sweepers, PoolInv, TypeOK
<1>1. UNCHANGED pc
  BY DEF SweepUnchanged, callVars
<1>2. /\ DyingEnds
      /\ swPc'[s] = "running" => EndsByItself(victim[s])'
      /\ \A b \in (Calls \cup Sweepers) \ {s} : victim'[b] = victim[b]
      /\ \A t \in Sweepers \ {s} : swPc'[t] = swPc[t]
  <2>1. CASE \E k \in S \cap Registered : /\ PopAndKill(s, k)
                                          /\ swPc' = [swPc EXCEPT ![s] = "running"]
    BY <1>0, <2>1, KillVictim
  <2>2. CASE /\ \E place \in {"idle", "done"} : swPc' = [swPc EXCEPT ![s] = place]
             /\ victim' = [victim EXCEPT ![s] = None]
             /\ UNCHANGED status
    <3>1. DyingEnds
      BY <2>2 DEF DyingEnds, EndsByItself
    <3>2. QED
      BY <1>0, <2>2, <3>1
  <2>3. QED
    BY <2>1, <2>2 DEF SweepOn
<1>3. ASSUME NEW b \in (Calls \cup Sweepers) \ {s}, EndsByItself(victim[b])
      PROVE  EndsByItself(victim[b])'
  BY <1>2, <1>3 DEF DyingEnds, EndsByItself
<1>4. ASSUME NEW c \in Calls, pc'[c] \in Awaiting
      PROVE  EndsByItself(victim[c])'
  BY <1>0, <1>1, <1>3, <1>4 DEF VictimsEnd
<1>5. ASSUME NEW t \in Sweepers, swPc'[t] = "running"
      PROVE  EndsByItself(victim[t])'
  BY <1>2, <1>3, <1>5 DEF VictimsEnd
<1>6. QED
  BY <1>4, <1>5 DEF VictimsEnd

LEMMA MakeRoomAwaits ==
  ASSUME PoolInv, VictimsEnd, NEW c \in Calls, MakeRoom(c)
  PROVE  VictimsEnd'
<1>1. TypeOK /\ UNCHANGED swPc
  BY DEF PoolInv, MakeRoom, sweepVars
<1>2. CASE /\ MoveTo(c, "spawning")
           /\ victim' = [victim EXCEPT ![c] = None]
           /\ UNCHANGED status
  <2>1. DyingEnds
    BY <1>2 DEF DyingEnds, EndsByItself
  <2>2. \A b \in (Calls \cup Sweepers) \ {c} : victim'[b] = victim[b]
    BY <1>1, <1>2 DEF TypeOK
  <2>3. QED
    BY <1>1, <1>2, <2>1, <2>2, CallAwaits DEF Awaiting
<1>3. CASE \E k \in Registered : PopAndKill(c, k) /\ MoveTo(c, "evicting")
  BY <1>1, <1>3, CallAwaits, KillVictim
<1>4. QED
  BY <1>2, <1>3 DEF MakeRoom, LeastRecent, Evictable

LEMMA VictimsStep == PoolInv /\ VictimsEnd /\ [Next]_vars => VictimsEnd'
<1> SUFFICES ASSUME PoolInv, VictimsEnd, [Next]_vars PROVE VictimsEnd'
  OBVIOUS
<1> USE DEF poolVars, procVars, callVars, sweepVars
<1>0. TypeOK
  BY DEF PoolInv
<1>1. ASSUME NEW c \in Calls, NEW place \in CallPlaces \ Awaiting, MoveTo(c, place),
             UNCHANGED <<status, swPc>>,
             \A b \in (Calls \cup Sweepers) \ {c} : victim'[b] = victim[b]
      PROVE  VictimsEnd'
  <2>1. DyingEnds
    BY <1>1 DEF DyingEnds, EndsByItself
  <2>2. QED
    BY <1>0, <1>1, <2>1, CallAwaits
<1>2. ASSUME NEW c \in Calls, NEW k \in Registered, NEW place \in CallPlaces,
             PopAndKill(c, k), MoveTo(c, place), UNCHANGED swPc
      PROVE  VictimsEnd'
  BY <1>0, <1>2, CallAwaits, KillVictim
<1>3. ASSUME NEW c \in Calls, CallStep(c) PROVE VictimsEnd'
  <2>1. CASE \/ RejectedByShutdown(c) \/ QueueForCreation(c) \/ SpawnFails(c)
             \/ InitDone(c) \/ InitEOF(c) \/ InitConflict(c) \/ LockAndSend(c)
             \/ LockDead(c) \/ ReadResult(c) \/ StreamInterrupted(c)
    <3>1. /\ UNCHANGED <<status, swPc, victim>>
          /\ \E place \in CallPlaces \ Awaiting : MoveTo(c, place)
      BY <2>1 DEF RejectedByShutdown, QueueForCreation, SpawnFails, InitDone, InitEOF,
                  InitConflict, LeaveInit, LockAndSend, LockDead, ReadResult,
                  StreamInterrupted, CallPlaces, Awaiting
    <3>2. QED
      BY <1>1, <3>1
  <2>2. CASE FastPath(c) \/ DoubleCheckHit(c)
    <3>1. Reuse(c)
      BY <2>2 DEF FastPath, DoubleCheckHit
    <3>2. /\ UNCHANGED <<status, swPc, victim>>
          /\ \E place \in CallPlaces \ Awaiting : MoveTo(c, place)
      BY <3>1 DEF Reuse, Obtain, CallPlaces, Awaiting
    <3>3. QED
      BY <1>1, <3>2
  <2>3. CASE EnterCreation(c)
    <3>1. CASE processes[CallKey[c]] = None
      BY <2>3, <3>1, MakeRoomAwaits DEF EnterCreation
    <3>2. CASE processes[CallKey[c]] # None
      <4>1. /\ CallKey[c] \in Registered /\ PopAndKill(c, CallKey[c])
            /\ MoveTo(c, "killing_old") /\ UNCHANGED swPc
        BY <2>3, <3>2, PoolAssumption DEF EnterCreation, Registered
      <4>2. QED
        BY <1>2, <4>1 DEF CallPlaces
    <3>3. QED
      BY <3>1, <3>2
  <2>4. CASE OldKilled(c)
    BY <2>4, MakeRoomAwaits DEF OldKilled
  <2>5. CASE Evicted(c) \/ BrokenKilled(c)
    <3>1. /\ UNCHANGED <<status, swPc>>
          /\ victim' = [victim EXCEPT ![c] = None]
          /\ \E place \in CallPlaces \ Awaiting : MoveTo(c, place)
      BY <2>5 DEF Evicted, BrokenKilled, CallPlaces, Awaiting
    <3>2. \A b \in (Calls \cup Sweepers) \ {c} : victim'[b] = victim[b]
      BY <1>0, <3>1 DEF TypeOK
    <3>3. QED
      BY <1>1, <3>1, <3>2
  <2>6. CASE Spawned(c)
    <3>1. PICK p \in Procs : /\ status[p] = "unborn"
                             /\ status' = [status EXCEPT ![p] = "alive"]
                             /\ Obtain(c, p, FALSE)
      BY <2>6 DEF Spawned
    <3>2. DyingEnds
      BY <1>0, <3>1 DEF DyingEnds, EndsByItself, TypeOK
    <3>3. MoveTo(c, "init") /\ UNCHANGED <<swPc, victim>>
      BY <2>6, <3>1 DEF Spawned, Obtain
    <3>4. QED
      BY <1>0, <3>2, <3>3, CallAwaits DEF Awaiting
  <2>7. CASE PipeBroken(c)
    <3>1. CASE processes[CallKey[c]] = None
      <4>1. MoveTo(c, "failed") /\ UNCHANGED <<status, swPc, victim>>
        BY <2>7, <3>1 DEF PipeBroken
      <4>2. "failed" \in CallPlaces \ Awaiting
        BY DEF CallPlaces, Awaiting
      <4>3. QED
        BY <1>1, <4>1, <4>2
    <3>2. CASE processes[CallKey[c]] # None
      <4>1. /\ CallKey[c] \in Registered /\ PopAndKill(c, CallKey[c])
            /\ MoveTo(c, "breaking") /\ UNCHANGED swPc
        BY <2>7, <3>2, PoolAssumption DEF PipeBroken, Registered
      <4>2. QED
        BY <1>2, <4>1 DEF CallPlaces
    <3>3. QED
      BY <3>1, <3>2
  <2>8. QED
    BY <1>3, <2>1, <2>2, <2>3, <2>4, <2>5, <2>6, <2>7 DEF CallStep
<1>4. ASSUME NEW c \in Calls, Cancelled(c) PROVE VictimsEnd'
  <2>1. /\ MoveTo(c, "failed") /\ UNCHANGED <<status, swPc>>
        /\ victim' = [victim EXCEPT ![c] = None]
    BY <1>4 DEF Cancelled
  <2>2. \A b \in (Calls \cup Sweepers) \ {c} : victim'[b] = victim[b]
    BY <1>0, <2>1 DEF TypeOK
  <2>3. "failed" \in CallPlaces \ Awaiting
    BY DEF CallPlaces, Awaiting
  <2>4. QED
    BY <1>1, <2>1, <2>2, <2>3
<1>5. CASE CleanupCycle \/ ShutdownSnapshot
  BY <1>5, SweeperAwaits DEF CleanupCycle, ShutdownSnapshot, Expired, Registered, Sweepers
<1>6. ASSUME NEW t \in Terminators, TerminateSession(t) PROVE VictimsEnd'
  BY <1>6, SweeperAwaits DEF TerminateSession, Registered, Sweepers
<1>7. ASSUME NEW s \in Sweepers, SweepKilled(s) PROVE VictimsEnd'
  <2>1. todo[s] \in SUBSET Keys
    BY <1>0 DEF TypeOK
  <2>2. QED
    BY <1>7, <2>1, SweeperAwaits DEF SweepKilled
<1>8. CASE BeginShutdown
  <2>1. UNCHANGED <<pc, status>>
    BY <1>8 DEF BeginShutdown, SweepUnchanged
  <2>2. \A c \in Calls : victim'[c] = victim[c]
    BY <1>0, <1>8, PoolAssumption DEF BeginShutdown, TypeOK, Sweepers
  <2>3. \A s \in Sweepers : swPc'[s] = "running" => swPc[s] = "running" /\ victim'[s] = victim[s]
    <3>1. CASE UNCHANGED victim /\ swPc' = [swPc EXCEPT !["shutdown"] = "stopping"]
      BY <1>0, <3>1 DEF TypeOK
    <3>2. CASE /\ swPc' = [swPc EXCEPT !["shutdown"] = "stopping", !["cleanup"] = "done"]
               /\ victim' = [victim EXCEPT !["cleanup"] = None]
      BY <1>0, <3>2 DEF TypeOK
    <3>3. QED
      BY <1>8, <3>1, <3>2 DEF BeginShutdown, CancelledCleanup
  <2>4. QED
    BY <2>1, <2>2, <2>3 DEF VictimsEnd, EndsByItself
<1>9. ASSUME NEW p \in Procs, Crash(p) \/ Die(p) PROVE VictimsEnd'
  <2>1. /\ status' = [status EXCEPT ![p] = "dead"]
        /\ UNCHANGED <<pc, swPc, victim>>
    BY <1>9 DEF Crash, Die, Exit
  <2>2. DyingEnds
    BY <1>0, <2>1 DEF DyingEnds, EndsByItself, TypeOK
  <2>3. QED
    BY <2>1, <2>2 DEF VictimsEnd, DyingEnds, EndsByItself
<1>10. CASE Tick \/ UNCHANGED vars
  BY <1>10 DEF Tick, vars, VictimsEnd, EndsByItself
<1>11. QED
  BY <1>3, <1>4, <1>5, <1>6, <1>7, <1>8, <1>9, <1>10 DEF Next

(* No interleaving of creation locks, subprocess locks and kills leaves a  *)
(* call waiting for a call that waits for a lock, or for a death nobody    *)
(* brings about.                                                           *)
THEOREM NoVainWait == Spec => []NobodyWaitsInVain
<1>1. Init => VictimsEnd
  BY DEF Init, VictimsEnd, Awaiting
<1>2. ASSUME PoolInv, VictimsEnd
      PROVE  NobodyWaitsInVain
  <2>0. TypeOK
    BY <1>2 DEF PoolInv
  <2>1. ASSUME NEW c \in Calls, ~ CreationFree(c)
        PROVE  \E d \in Calls : CallKey[d] = CallKey[c] /\ pc[d] \in Creating
    <3>1. CallKey[c] \in Keys /\ creationLock[CallKey[c]] \in Calls
      BY <2>0, <2>1, PoolAssumption DEF CreationFree, TypeOK
    <3>2. QED
      BY <1>2, <2>1, <3>1 DEF PoolInv, CreationHeld, CreationFree
  <2>2. ASSUME NEW c \in Calls, pc[c] = "want_lock", lock[managed[c]] # None
        PROVE  \E d \in Calls : managed[d] = managed[c] /\ pc[d] \in Holding
    <3>1. managed[c] \in Procs
      BY <1>2, <2>2 DEF PoolInv, Assigned
    <3>2. lock[managed[c]] \in Calls
      BY <2>0, <2>2, <3>1 DEF TypeOK
    <3>3. QED
      BY <1>2, <2>2, <3>1, <3>2 DEF PoolInv, StreamHoldsLock
  <2>3. \A c \in Calls : pc[c] = "init" => status[managed[c]] # "unborn"
    BY <1>2 DEF PoolInv, Assigned
  <2>4. QED
    BY <1>2, <2>1, <2>2, <2>3 DEF NobodyWaitsInVain, VictimsEnd, Awaiting
<1>3. QED
  BY <1>1, <1>2, Invariance, VictimsStep, PTL DEF Spec

-----------------------------------------------------------------------------
(* No call goes back                                                       *)

(* A call moves forward, the others stay.                                  *)
Forward(c) ==
  \E place \in CallPlaces : MoveTo(c, place) /\ PlaceNumber[pc[c]] < PlaceNumber[place]

LEMMA StepsMoveForward ==
  ASSUME TypeOK, NEW c \in Calls, CallStep(c) \/ Cancelled(c)
  PROVE  Forward(c)
<1> USE DEF Forward, CallPlaces, PlaceNumber
<1>1. CASE RejectedByShutdown(c) \/ QueueForCreation(c)
  BY <1>1 DEF RejectedByShutdown, QueueForCreation
<1>2. CASE FastPath(c) \/ DoubleCheckHit(c)
  BY <1>2 DEF FastPath, DoubleCheckHit, Reuse, Obtain
<1>3. CASE EnterCreation(c)
  BY <1>3 DEF EnterCreation, MakeRoom
<1>4. CASE OldKilled(c) \/ Evicted(c)
  BY <1>4 DEF OldKilled, MakeRoom, Evicted
<1>5. CASE Spawned(c) \/ SpawnFails(c)
  BY <1>5 DEF Spawned, SpawnFails, Obtain
<1>6. CASE InitDone(c) \/ InitEOF(c) \/ InitConflict(c)
  BY <1>6 DEF InitDone, InitEOF, InitConflict, LeaveInit
<1>7. CASE LockAndSend(c) \/ LockDead(c) \/ PipeBroken(c) \/ BrokenKilled(c)
  BY <1>7 DEF LockAndSend, LockDead, PipeBroken, BrokenKilled
<1>8. CASE ReadResult(c) \/ StreamInterrupted(c)
  BY <1>8 DEF ReadResult, StreamInterrupted
<1>9. CASE Cancelled(c)
  BY <1>9 DEF Cancelled
<1>10. QED
  BY <1>1, <1>2, <1>3, <1>4, <1>5, <1>6, <1>7, <1>8, <1>9 DEF CallStep

(* A call never starts over: at most eight steps bring it to its end.      *)
THEOREM CallsNeverGoBack == Spec => CallsAdvance
<1>1. TypeOK /\ [Next]_vars =>
        \A c \in Calls :
          /\ PlaceNumber[pc[c]] <= PlaceNumber[pc'[c]]
          /\ CallStep(c) \/ Cancelled(c) => PlaceNumber[pc[c]] < PlaceNumber[pc'[c]]
  <2> SUFFICES ASSUME TypeOK, [Next]_vars, NEW c \in Calls
               PROVE  /\ PlaceNumber[pc[c]] <= PlaceNumber[pc'[c]]
                      /\ CallStep(c) \/ Cancelled(c) =>
                           PlaceNumber[pc[c]] < PlaceNumber[pc'[c]]
    OBVIOUS
  <2>1. \A place \in CallPlaces : PlaceNumber[place] \in 0 .. 8
    BY DEF CallPlaces, PlaceNumber
  <2>2. pc \in [Calls -> CallPlaces]
    BY DEF TypeOK
  <2>3. CASE CallStep(c) \/ Cancelled(c)
    <3>1. PICK place \in CallPlaces :
            MoveTo(c, place) /\ PlaceNumber[pc[c]] < PlaceNumber[place]
      BY <2>3, StepsMoveForward DEF Forward
    <3>2. pc'[c] = place
      BY <2>2, <3>1 DEF MoveTo
    <3>3. PlaceNumber[pc[c]] \in 0 .. 8 /\ PlaceNumber[place] \in 0 .. 8
      BY <2>1, <2>2
    <3>4. QED
      BY <3>1, <3>2, <3>3
  <2>4. CASE ~ (CallStep(c) \/ Cancelled(c))
    <3>1. pc'[c] = pc[c]
      <4>1. ASSUME NEW d \in Calls, CallStep(d) \/ Cancelled(d)
            PROVE  pc'[c] = pc[c]
        <5>1. PICK place \in CallPlaces : MoveTo(d, place)
          BY <4>1, StepsMoveForward DEF Forward
        <5>2. d # c
          BY <2>4, <4>1
        <5>3. QED
          BY <2>2, <5>1, <5>2 DEF MoveTo
      <4>2. ASSUME ~ \E d \in Calls : CallStep(d) \/ Cancelled(d)
            PROVE  pc'[c] = pc[c]
        BY <4>2 DEF Next, CleanupCycle, TerminateSession, BeginShutdown, ShutdownSnapshot,
                    SweepKilled, SweepUnchanged, Crash, Die, Exit, Tick, vars, callVars
      <4>3. QED
        BY <4>1, <4>2
    <3>2. PlaceNumber[pc[c]] \in 0 .. 8
      BY <2>1, <2>2
    <3>3. QED
      BY <2>4, <3>1, <3>2
  <2>5. QED
    BY <2>3, <2>4
<1>2. QED
  BY <1>1, TypeCorrect, PTL DEF CallsAdvance, Spec

(* A sweeper goes on with fewer keys than it had, or ends.                 *)
LEMMA SweepShrinks ==
  ASSUME TypeOK, NEW s \in Sweepers, NEW S \in SUBSET Keys, SweepOn(s, S)
  PROVE  /\ \/ swPc'[s] # "running"
            \/ todo'[s] \subseteq S /\ todo'[s] # S
         /\ \A t \in Sweepers \ {s} :
              swPc'[t] = swPc[t] /\ todo'[t] = todo[t] /\ victim'[t] = victim[t]
<1>0. /\ swPc \in [Sweepers -> {"idle", "stopping", "running", "done"}]
      /\ todo \in [Sweepers -> SUBSET Keys]
      /\ victim \in [Calls \cup Sweepers -> Procs \cup {None}]
  BY DEF TypeOK
<1>1. CASE \E k \in S \cap Registered, skipped \in SUBSET (S \ Registered) :
             /\ PopAndKill(s, k)
             /\ todo' = [todo EXCEPT ![s] = S \ (skipped \cup {k})]
             /\ swPc' = [swPc EXCEPT ![s] = "running"]
  BY <1>0, <1>1 DEF PopAndKill
<1>2. CASE /\ \E place \in {"idle", "done"} : swPc' = [swPc EXCEPT ![s] = place]
           /\ todo' = [todo EXCEPT ![s] = {}]
           /\ victim' = [victim EXCEPT ![s] = None]
  BY <1>0, <1>2
<1>3. QED
  BY <1>1, <1>2 DEF SweepOn

(* A sweep gets shorter until it ends, whatever is started meanwhile.      *)
THEOREM SweepsShrink == Spec => SweepsAdvance
<1>1. ASSUME TypeOK, [Next]_vars, NEW t \in Sweepers, swPc[t] = "running"
      PROVE  \/ swPc'[t] # "running"
             \/ todo'[t] \subseteq todo[t] /\ todo'[t] # todo[t]
             \/ todo'[t] = todo[t] /\ victim'[t] = victim[t]
  <2> DEFINE Goal == \/ swPc'[t] # "running"
                     \/ todo'[t] \subseteq todo[t] /\ todo'[t] # todo[t]
                     \/ todo'[t] = todo[t] /\ victim'[t] = victim[t]
  <2>0. t \notin Calls /\ todo[t] \in SUBSET Keys
    BY <1>1, PoolAssumption DEF Sweepers, TypeOK
  <2>1. ASSUME NEW c \in Calls, CallStep(c) \/ Cancelled(c) PROVE Goal
    <3>1. UNCHANGED sweepVars
      BY <2>1 DEF CallStep, RejectedByShutdown, FastPath, QueueForCreation, DoubleCheckHit,
                  Reuse, EnterCreation, MakeRoom, OldKilled, Evicted, Spawned, SpawnFails,
                  InitDone, InitEOF, InitConflict, LeaveInit, LockAndSend, LockDead,
                  PipeBroken, BrokenKilled, ReadResult, StreamInterrupted, Cancelled, sweepVars
    <3>2. \/ UNCHANGED victim
          \/ \E p : victim' = [victim EXCEPT ![c] = p]
      BY <2>1 DEF CallStep, RejectedByShutdown, FastPath, QueueForCreation, DoubleCheckHit,
                  Reuse, EnterCreation, MakeRoom, OldKilled, Evicted, Spawned, SpawnFails,
                  InitDone, InitEOF, InitConflict, LeaveInit, LockAndSend, LockDead,
                  PipeBroken, BrokenKilled, ReadResult, StreamInterrupted, Cancelled,
                  PopAndKill
    <3>3. QED
      BY <1>1, <2>0, <3>1, <3>2 DEF TypeOK, sweepVars
  <2>2. ASSUME NEW s \in Sweepers, NEW S \in SUBSET Keys, SweepOn(s, S),
               s = t => S = todo[t]
        PROVE  Goal
    BY <1>1, <2>2, SweepShrinks
  <2>3. CASE CleanupCycle
    BY <1>1, <2>2, <2>3 DEF CleanupCycle, Expired, Registered, Sweepers
  <2>4. ASSUME NEW s \in Terminators, TerminateSession(s) PROVE Goal
    BY <1>1, <2>2, <2>4 DEF TerminateSession, Registered, Sweepers
  <2>5. CASE ShutdownSnapshot
    BY <1>1, <2>2, <2>5 DEF ShutdownSnapshot, Registered, Sweepers
  <2>6. ASSUME NEW s \in Sweepers, SweepKilled(s) PROVE Goal
    BY <1>1, <2>2, <2>6 DEF SweepKilled, TypeOK
  <2>7. CASE BeginShutdown
    <3>1. CASE /\ swPc' = [swPc EXCEPT !["shutdown"] = "stopping"]
               /\ UNCHANGED <<todo, victim>>
      BY <3>1
    <3>2. CASE /\ swPc' = [swPc EXCEPT !["shutdown"] = "stopping", !["cleanup"] = "done"]
               /\ todo' = [todo EXCEPT !["cleanup"] = {}]
               /\ victim' = [victim EXCEPT !["cleanup"] = None]
      BY <1>1, <3>2 DEF TypeOK
    <3>3. QED
      BY <2>7, <3>1, <3>2 DEF BeginShutdown, CancelledCleanup
  <2>8. ASSUME (\E p \in Procs : Crash(p) \/ Die(p)) \/ Tick \/ UNCHANGED vars
        PROVE  Goal
    BY <2>8 DEF Crash, Die, Exit, Tick, vars, sweepVars
  <2>9. QED
    BY <1>1, <2>1, <2>3, <2>4, <2>5, <2>6, <2>7, <2>8 DEF Next
<1>2. TypeOK /\ [Next]_vars =>
        \A s \in Sweepers : swPc[s] = "running" =>
          \/ swPc'[s] # "running"
          \/ todo'[s] \subseteq todo[s] /\ todo'[s] # todo[s]
          \/ todo'[s] = todo[s] /\ victim'[s] = victim[s]
  BY <1>1
<1>3. QED
  BY <1>2, TypeCorrect, PTL DEF SweepsAdvance, Spec
=============================================================================
