----------------------------- MODULE ProcessPool -----------------------------
(***************************************************************************)
(* The pool of persistent Claude CLI subprocesses,                         *)
(* src/bridge/infrastructure/claude_process_pool.py.                       *)
(*                                                                         *)
(* A routing key (user, chat, model) owns at most one registered           *)
(* subprocess.  A call of send_message first obtains the subprocess of its *)
(* key (get_or_create), waits for its init phase, then takes the           *)
(* subprocess's own lock, writes the prompt and reads events until the     *)
(* answer is complete.  Sweepers (the cleanup task, terminate_session and  *)
(* shutdown) remove subprocesses from the registry and kill them.          *)
(*                                                                         *)
(* The program is one asyncio event loop: code between two awaits that     *)
(* really suspend is one step.  Every body guarded by _pool_lock is free   *)
(* of awaits, so that lock is never contended and each such body is        *)
(* atomic; it needs no variable.                                           *)
(***************************************************************************)
EXTENDS Naturals, Sequences, FiniteSets

CONSTANTS
  Calls,        (* calls of send_message; each is one request                *)
  Keys,         (* routing keys (user_id, chat_id, model)                    *)
  Procs,        (* identities of subprocesses; each is started at most once  *)
  Terminators,  (* calls of terminate_session                                *)
  CallKey,      (* the routing key of a call                                 *)
  TermKeys,     (* the keys a terminate_session call is about                *)
  PoolMax,      (* POOL_MAX_SIZE                                             *)
  Timeout,      (* INACTIVITY_TIMEOUT_SECONDS, in ticks                      *)
  MaxNow,       (* bound of the clock                                        *)
  None

ASSUME PoolAssumption ==
  /\ CallKey \in [Calls -> Keys]
  /\ TermKeys \in [Terminators -> SUBSET Keys]
  /\ PoolMax \in Nat \ {0}
  /\ Timeout \in Nat
  /\ MaxNow \in Nat
  /\ None \notin Calls \cup Keys \cup Procs
  /\ Calls \cap (Terminators \cup {"cleanup", "shutdown"}) = {}
  /\ Terminators \cap {"cleanup", "shutdown"} = {}

Sweepers == Terminators \cup {"cleanup", "shutdown"}

VARIABLES
  processes,    (* self._processes: key -> registered subprocess             *)
  creationLock, (* self._creation_locks: key -> the call that holds it       *)
  pendingInit,  (* self._pending_init                                        *)
  shutdown,     (* self._shutdown                                            *)
  status,       (* subprocess: returncode is None iff "alive" or "dying";    *)
                (* "dying" once _kill_process has begun on it                *)
  routingKey,   (* ManagedProcess.routing_key                                *)
  isReady, isDirty, lastUsed, lock,   (* the ManagedProcess attributes       *)
  pipe,         (* requests written whose final event is still unread        *)
  pc, managed,  (* where a call is, and the subprocess it was given          *)
  answer,       (* the request whose final result the call was handed        *)
  swPc, todo,   (* where a sweeper is, and the keys it has still to visit    *)
  victim,       (* the subprocess whose death a call or sweeper awaits       *)
  now           (* time.monotonic()                                          *)

poolVars == <<processes, creationLock, pendingInit, shutdown>>
procVars == <<status, routingKey, isReady, isDirty, lastUsed, lock, pipe>>
callVars == <<pc, managed, answer>>
sweepVars == <<swPc, todo>>
vars == <<poolVars, procVars, callVars, sweepVars, victim, now>>

-----------------------------------------------------------------------------

Live(p) == status[p] \in {"alive", "dying"}      \* _is_alive

Registered == {k \in Keys : processes[k] # None}

Usable(k) ==
  /\ processes[k] # None
  /\ Live(processes[k])
  /\ ~isDirty[processes[k]]

(* Keys _evict_if_needed may take: no active stream, no init in progress.  *)
Evictable ==
  {k \in Registered : lock[processes[k]] = None /\ k \notin pendingInit}

LeastRecent(S) ==
  {k \in S : \A j \in S : lastUsed[processes[k]] <= lastUsed[processes[j]]}

MoveTo(c, place) == pc' = [pc EXCEPT ![c] = place]

(* The creation lock of the call's key: free, and as the call leaves it.   *)
CreationFree_Always(c) == TRUE
CreationFree(c) == creationLock[CallKey[c]] = None

CreationReleased_Never(c) == creationLock
CreationReleased(c) ==
  [creationLock EXCEPT ![CallKey[c]] = IF @ = c THEN None ELSE @]

(* _pending_init as the call enters and leaves _wait_for_init.             *)
Protected_ByCall(c) == pendingInit \cup {c}
Protected(c) == pendingInit \cup {CallKey[c]}

Unprotected_Never(c) == pendingInit
Unprotected(c) == pendingInit \ {CallKey[c]}

(* Pop key k and begin _kill_process on its subprocess on behalf of a.     *)
PopAndKill(a, k) ==
  LET p == processes[k] IN
  /\ processes' = [processes EXCEPT ![k] = None]
  /\ status' = [status EXCEPT ![p] = IF @ = "alive" THEN "dying" ELSE @]
  /\ victim' = [victim EXCEPT ![a] = p]

(* get_or_create returns p: a subprocess not ready makes the call wait in  *)
(* _wait_for_init, with its key protected from eviction.                   *)
Obtain(c, p, ready) ==
  /\ managed' = [managed EXCEPT ![c] = p]
  /\ IF ready
     THEN MoveTo(c, "want_lock") /\ UNCHANGED pendingInit
     ELSE MoveTo(c, "init") /\ pendingInit' = Protected(c)

(* The usable subprocess of the call's key is handed out and touched.      *)
Reuse(c) ==
  LET p == processes[CallKey[c]] IN
  /\ Obtain(c, p, isReady[p])
  /\ lastUsed' = [lastUsed EXCEPT ![p] = now]
  /\ UNCHANGED <<processes, creationLock, shutdown, status, routingKey,
                 isReady, isDirty, lock, pipe, answer, sweepVars, victim, now>>

(* _evict_if_needed, then the call starts the CLI (_spawn_process) at once *)
(* or after the evicted subprocess has died.                               *)
MakeRoom(c) ==
  /\ creationLock' = [creationLock EXCEPT ![CallKey[c]] = c]
  /\ IF Cardinality(Registered) < PoolMax \/ Evictable = {}
     THEN /\ MoveTo(c, "spawning")
          /\ victim' = [victim EXCEPT ![c] = None]
          /\ UNCHANGED <<processes, status>>
     ELSE /\ \E k \in LeastRecent(Evictable) : PopAndKill(c, k)
          /\ MoveTo(c, "evicting")
  /\ UNCHANGED <<pendingInit, shutdown, routingKey, isReady, isDirty,
                 lastUsed, lock, pipe, managed, answer, sweepVars, now>>

-----------------------------------------------------------------------------
(* get_or_create                                                           *)

RejectedByShutdown(c) ==
  /\ pc[c] = "new" /\ shutdown
  /\ MoveTo(c, "failed")
  /\ UNCHANGED <<poolVars, procVars, managed, answer, sweepVars, victim, now>>

FastPath(c) ==
  /\ pc[c] = "new" /\ ~shutdown
  /\ Usable(CallKey[c])
  /\ Reuse(c)

QueueForCreation(c) ==
  /\ pc[c] = "new" /\ ~shutdown
  /\ ~Usable(CallKey[c])
  /\ ~CreationFree(c)
  /\ MoveTo(c, "want_creation")
  /\ UNCHANGED <<poolVars, procVars, managed, answer, sweepVars, victim, now>>

(* The double-check under the creation lock finds what another call made.  *)
DoubleCheckHit(c) ==
  /\ pc[c] = "want_creation"
  /\ CreationFree(c)
  /\ Usable(CallKey[c])
  /\ Reuse(c)

(* A dead or dirty subprocess is dropped and killed, else room is made.    *)
EnterCreation(c) ==
  LET k == CallKey[c] IN
  /\ \/ pc[c] = "new" /\ ~shutdown
     \/ pc[c] = "want_creation"
  /\ CreationFree(c)
  /\ ~Usable(k)
  /\ IF processes[k] = None
     THEN MakeRoom(c)
     ELSE /\ creationLock' = [creationLock EXCEPT ![k] = c]
          /\ PopAndKill(c, k)
          /\ MoveTo(c, "killing_old")
          /\ UNCHANGED <<pendingInit, shutdown, routingKey, isReady, isDirty,
                         lastUsed, lock, pipe, managed, answer, sweepVars, now>>

OldKilled(c) ==
  /\ pc[c] = "killing_old" /\ status[victim[c]] = "dead"
  /\ MakeRoom(c)

Evicted(c) ==
  /\ pc[c] = "evicting" /\ status[victim[c]] = "dead"
  /\ victim' = [victim EXCEPT ![c] = None]
  /\ MoveTo(c, "spawning")
  /\ UNCHANGED <<poolVars, procVars, managed, answer, sweepVars, now>>

(* The CLI has started: register it, release the creation lock and go on   *)
(* to _wait_for_init without another suspension.                           *)
Spawned(c) ==
  LET k == CallKey[c] IN
  /\ pc[c] = "spawning"
  /\ \E p \in Procs :
       /\ status[p] = "unborn"
       /\ status' = [status EXCEPT ![p] = "alive"]
       /\ routingKey' = [routingKey EXCEPT ![p] = k]
       /\ lastUsed' = [lastUsed EXCEPT ![p] = now]
       /\ processes' = [processes EXCEPT ![k] = p]
       /\ Obtain(c, p, FALSE)
  /\ creationLock' = CreationReleased(c)
  /\ UNCHANGED <<shutdown, isReady, isDirty, lock, pipe, answer, sweepVars,
                 victim, now>>

(* No CLI in PATH, or the operating system refuses the new process.        *)
SpawnFails(c) ==
  /\ pc[c] = "spawning"
  /\ creationLock' = CreationReleased(c)
  /\ MoveTo(c, "failed")
  /\ UNCHANGED <<processes, pendingInit, shutdown, procVars, managed, answer,
                 sweepVars, victim, now>>

-----------------------------------------------------------------------------
(* send_message                                                            *)

InitReaders(p) == {c \in Calls : pc[c] = "init" /\ managed[c] = p}

LeaveInit(c, place) ==
  /\ pendingInit' = Unprotected(c)
  /\ MoveTo(c, place)
  /\ UNCHANGED <<processes, creationLock, shutdown, status, routingKey,
                 isDirty, lastUsed, lock, pipe, managed, answer, sweepVars,
                 victim, now>>

(* No init event for two seconds, or the deadline has passed.              *)
InitDone(c) ==
  /\ pc[c] = "init" /\ InitReaders(managed[c]) = {c}
  /\ Live(managed[c])
  /\ isReady' = [isReady EXCEPT ![managed[c]] = TRUE]
  /\ LeaveInit(c, "want_lock")

(* End of file on stdout.                                                  *)
InitEOF(c) ==
  /\ pc[c] = "init" /\ status[managed[c]] = "dead"
  /\ LeaveInit(c, "failed")
  /\ UNCHANGED isReady

(* Two tasks wait in readline on one StreamReader: the library raises      *)
(* RuntimeError in one of them.                                            *)
InitConflict(c) ==
  /\ pc[c] = "init" /\ InitReaders(managed[c]) # {c}
  /\ LeaveInit(c, "failed")
  /\ UNCHANGED isReady

Unlock_Forgotten(c) == UNCHANGED lock
Unlock(c) == lock' = [lock EXCEPT ![managed[c]] = None]

(* The lock is taken, the subprocess is alive, the prompt is written.      *)
(* is_dirty is not read again here.                                        *)
LockAndSend(c) ==
  LET p == managed[c] IN
  /\ pc[c] = "want_lock" /\ lock[p] = None
  /\ Live(p)
  /\ lock' = [lock EXCEPT ![p] = c]
  /\ lastUsed' = [lastUsed EXCEPT ![p] = now]
  /\ pipe' = [pipe EXCEPT ![p] = Append(@, c)]
  /\ MoveTo(c, "streaming")
  /\ UNCHANGED <<poolVars, status, routingKey, isReady, isDirty, managed,
                 answer, sweepVars, victim, now>>

(* "died while locked": the lock is taken and left in one step.            *)
LockDead(c) ==
  LET p == managed[c] IN
  /\ pc[c] = "want_lock" /\ lock[p] = None
  /\ ~Live(p)
  /\ lastUsed' = [lastUsed EXCEPT ![p] = now]
  /\ MoveTo(c, "failed")
  /\ UNCHANGED <<poolVars, status, routingKey, isReady, isDirty, lock, pipe,
                 managed, answer, sweepVars, victim, now>>

(* The write fails: whatever is registered under the key is terminated,    *)
(* while the call keeps the lock of the subprocess it was given.           *)
PipeBroken(c) ==
  LET p == managed[c] k == CallKey[c] IN
  /\ pc[c] = "want_lock" /\ lock[p] = None
  /\ Live(p)
  /\ lastUsed' = [lastUsed EXCEPT ![p] = now]
  /\ IF processes[k] = None
     THEN /\ MoveTo(c, "failed")
          /\ UNCHANGED <<processes, status, victim, lock>>
     ELSE /\ PopAndKill(c, k)
          /\ lock' = [lock EXCEPT ![p] = c]
          /\ MoveTo(c, "breaking")
  /\ UNCHANGED <<creationLock, pendingInit, shutdown, routingKey, isReady,
                 isDirty, pipe, managed, answer, sweepVars, now>>

BrokenKilled(c) ==
  /\ pc[c] = "breaking" /\ status[victim[c]] = "dead"
  /\ victim' = [victim EXCEPT ![c] = None]
  /\ Unlock(c)
  /\ MoveTo(c, "failed")
  /\ UNCHANGED <<poolVars, status, routingKey, isReady, isDirty, lastUsed,
                 pipe, managed, answer, sweepVars, now>>

(* The pipe once the answer to its oldest request has been read.           *)
Rest_Unread(p) == pipe[p]
Rest(p) == Tail(pipe[p])

(* A result event: the answer to the oldest request not yet answered.      *)
ReadResult(c) ==
  LET p == managed[c] IN
  /\ pc[c] = "streaming" /\ pipe[p] # <<>>
  /\ answer' = [answer EXCEPT ![c] = Head(pipe[p])]
  /\ pipe' = [pipe EXCEPT ![p] = Rest(p)]
  /\ lastUsed' = [lastUsed EXCEPT ![p] = now]
  /\ Unlock(c)
  /\ MoveTo(c, "done")
  /\ UNCHANGED <<poolVars, status, routingKey, isReady, isDirty, managed,
                 sweepVars, victim, now>>

(* is_dirty once the call's stream has ended without a result.             *)
DirtyAfter_Never(c) == isDirty
DirtyAfter(c) == [isDirty EXCEPT ![managed[c]] = @ \/ Live(managed[c])]

(* The stream ends before a result: the generator is closed or cancelled,  *)
(* cancel_event is set, 120 s pass, stdout ends, or (rest) the CLI emits   *)
(* an error event for the oldest request.  A live subprocess is dirty now. *)
StreamInterrupted(c) ==
  LET p == managed[c] IN
  /\ pc[c] = "streaming"
  /\ \/ UNCHANGED pipe
     \/ pipe[p] # <<>> /\ pipe' = [pipe EXCEPT ![p] = Rest(p)]
  /\ isDirty' = DirtyAfter(c)
  /\ Unlock(c)
  /\ MoveTo(c, "failed")
  /\ UNCHANGED <<poolVars, status, routingKey, isReady, lastUsed, managed,
                 answer, sweepVars, victim, now>>

(* The caller's asyncio.wait_for expires or its task is cancelled before   *)
(* the prompt is written: every lock held is released, the key leaves      *)
(* _pending_init, and a kill that has begun goes on without the call.      *)
Cancelled(c) ==
  /\ pc[c] \in {"want_creation", "killing_old", "evicting", "spawning",
                "init", "want_lock", "breaking"}
  /\ creationLock' = CreationReleased(c)
  /\ pendingInit' = IF pc[c] = "init" THEN Unprotected(c) ELSE pendingInit
  /\ IF pc[c] = "breaking" THEN Unlock(c) ELSE UNCHANGED lock
  /\ victim' = [victim EXCEPT ![c] = None]
  /\ MoveTo(c, "failed")
  /\ UNCHANGED <<processes, shutdown, status, routingKey, isReady, isDirty,
                 lastUsed, pipe, managed, answer, sweepVars, now>>

-----------------------------------------------------------------------------
(* Sweepers: _cleanup_expired, terminate_session, shutdown                 *)

(* The loop over the keys S left to sweeper s, up to its next suspension:  *)
(* keys gone from the registry are skipped, the first one found is popped  *)
(* and killed; with none left the sweep is over.                           *)
SweepOn(s, S) ==
  \/ /\ S \cap Registered = {}
     /\ swPc' = [swPc EXCEPT ![s] = IF s = "cleanup" /\ ~shutdown
                                    THEN "idle" ELSE "done"]
     /\ todo' = [todo EXCEPT ![s] = {}]
     /\ victim' = [victim EXCEPT ![s] = None]
     /\ UNCHANGED <<processes, status>>
  \/ \E k \in S \cap Registered, skipped \in SUBSET (S \ Registered) :
       /\ PopAndKill(s, k)
       /\ todo' = [todo EXCEPT ![s] = S \ (skipped \cup {k})]
       /\ swPc' = [swPc EXCEPT ![s] = "running"]

SweepUnchanged ==
  UNCHANGED <<creationLock, pendingInit, routingKey, isReady, isDirty,
              lastUsed, lock, pipe, callVars, now>>

(* A cleanup cycle snapshots the keys idle for longer than the timeout.    *)
Expired ==
  {k \in Registered : /\ now - lastUsed[processes[k]] > Timeout
                      /\ lock[processes[k]] = None}

CleanupCycle ==
  /\ swPc["cleanup"] = "idle" /\ ~shutdown
  /\ Expired # {}
  /\ SweepOn("cleanup", Expired)
  /\ UNCHANGED shutdown /\ SweepUnchanged

TerminateSession(t) ==
  /\ swPc[t] = "idle"
  /\ SweepOn(t, TermKeys[t] \cap Registered)
  /\ UNCHANGED shutdown /\ SweepUnchanged

(* shutdown sets the flag and cancels the cleanup task: asleep, it ends;   *)
(* in a kill, it ends there or, if the cancellation is swallowed while the *)
(* stderr reader is awaited, it runs its sweep to the end.                 *)
CancelledCleanup_StillAsleep == "idle"
CancelledCleanup == "done"

BeginShutdown ==
  /\ swPc["shutdown"] = "idle"
  /\ shutdown' = TRUE
  /\ \/ /\ swPc' = [swPc EXCEPT !["shutdown"] = "stopping",
                                   !["cleanup"] = CancelledCleanup]
        /\ todo' = [todo EXCEPT !["cleanup"] = {}]
        /\ victim' = [victim EXCEPT !["cleanup"] = None]
     \/ /\ swPc["cleanup"] = "running"
        /\ swPc' = [swPc EXCEPT !["shutdown"] = "stopping"]
        /\ UNCHANGED <<todo, victim>>
  /\ UNCHANGED <<processes, status>> /\ SweepUnchanged

ShutdownSnapshot ==
  /\ swPc["shutdown"] = "stopping" /\ swPc["cleanup"] = "done"
  /\ SweepOn("shutdown", Registered)
  /\ UNCHANGED shutdown /\ SweepUnchanged

SweepKilled(s) ==
  /\ swPc[s] = "running" /\ status[victim[s]] = "dead"
  /\ SweepOn(s, todo[s])
  /\ UNCHANGED shutdown /\ SweepUnchanged

-----------------------------------------------------------------------------
(* The environment                                                         *)

(* A subprocess ends on its own, or at last after SIGTERM or SIGKILL.      *)
Exit(p, from) ==
  /\ status[p] = from
  /\ status' = [status EXCEPT ![p] = "dead"]
  /\ UNCHANGED <<poolVars, routingKey, isReady, isDirty, lastUsed, lock, pipe,
                 callVars, sweepVars, victim, now>>

Crash(p) == Exit(p, "alive")
Die(p) == Exit(p, "dying")

Tick ==
  /\ now < MaxNow
  /\ now' = now + 1
  /\ UNCHANGED <<poolVars, procVars, callVars, sweepVars, victim>>

-----------------------------------------------------------------------------

Init ==
  /\ processes = [k \in Keys |-> None]
  /\ creationLock = [k \in Keys |-> None]
  /\ pendingInit = {}
  /\ shutdown = FALSE
  /\ status = [p \in Procs |-> "unborn"]
  /\ routingKey = [p \in Procs |-> None]
  /\ isReady = [p \in Procs |-> FALSE]
  /\ isDirty = [p \in Procs |-> FALSE]
  /\ lastUsed = [p \in Procs |-> 0]
  /\ lock = [p \in Procs |-> None]
  /\ pipe = [p \in Procs |-> <<>>]
  /\ pc = [c \in Calls |-> "new"]
  /\ managed = [c \in Calls |-> None]
  /\ answer = [c \in Calls |-> None]
  /\ swPc = [s \in Sweepers |-> "idle"]
  /\ todo = [s \in Sweepers |-> {}]
  /\ victim = [a \in Calls \cup Sweepers |-> None]
  /\ now = 0

(* What the code of a call does, and what may happen to it.                *)
CallStep(c) ==
  \/ RejectedByShutdown(c) \/ FastPath(c) \/ QueueForCreation(c)
  \/ DoubleCheckHit(c) \/ EnterCreation(c) \/ OldKilled(c) \/ Evicted(c)
  \/ Spawned(c) \/ SpawnFails(c)
  \/ InitDone(c) \/ InitEOF(c) \/ InitConflict(c)
  \/ LockAndSend(c) \/ LockDead(c) \/ PipeBroken(c) \/ BrokenKilled(c)
  \/ ReadResult(c) \/ StreamInterrupted(c)

Next ==
  \/ \E c \in Calls : CallStep(c) \/ Cancelled(c)
  \/ CleanupCycle
  \/ \E t \in Terminators : TerminateSession(t)
  \/ BeginShutdown \/ ShutdownSnapshot
  \/ \E s \in Sweepers : SweepKilled(s)
  \/ \E p \in Procs : Crash(p) \/ Die(p)
  \/ Tick

Spec == Init /\ [][Next]_vars

(* Every await of a call ends: the init deadline, the 120 s read timeout,  *)
(* SIGKILL after 3 s, and the FIFO locks of asyncio.                       *)
Fairness ==
  /\ \A c \in Calls : WF_vars(CallStep(c))
  /\ \A s \in Sweepers : WF_vars(SweepKilled(s))
  /\ WF_vars(ShutdownSnapshot)
  /\ \A p \in Procs : WF_vars(Die(p))

FairSpec == Spec /\ Fairness
=============================================================================
