-------------------------- MODULE ProcessPoolProps --------------------------
(***************************************************************************)
(* What must hold of the process pool, and claims of its source that do    *)
(* not hold.                                                               *)
(***************************************************************************)
EXTENDS ProcessPool

CallPlaces ==
  {"new", "want_creation", "killing_old", "evicting", "spawning", "init",
   "want_lock", "streaming", "breaking", "done", "failed"}

(* Every variable has its type.                                            *)
TypeOK ==
  /\ processes \in [Keys -> Procs \cup {None}]
  /\ creationLock \in [Keys -> Calls \cup {None}]
  /\ pendingInit \in SUBSET Keys
  /\ shutdown \in BOOLEAN
  /\ status \in [Procs -> {"unborn", "alive", "dying", "dead"}]
  /\ routingKey \in [Procs -> Keys \cup {None}]
  /\ isReady \in [Procs -> BOOLEAN]
  /\ isDirty \in [Procs -> BOOLEAN]
  /\ lastUsed \in [Procs -> Nat]
  /\ lock \in [Procs -> Calls \cup {None}]
  /\ pipe \in [Procs -> Seq(Calls)]
  /\ pc \in [Calls -> CallPlaces]
  /\ managed \in [Calls -> Procs \cup {None}]
  /\ answer \in [Calls -> Calls \cup {None}]
  /\ swPc \in [Sweepers -> {"idle", "stopping", "running", "done"}]
  /\ todo \in [Sweepers -> SUBSET Keys]
  /\ victim \in [Calls \cup Sweepers -> Procs \cup {None}]
  /\ now \in Nat

(* No subprocess is ever lost: one that lives and that nobody is killing   *)
(* is the one registered under its routing key, so the cleanup task, the   *)
(* eviction and terminate_session can still reach it.  It fails as soon as *)
(* two calls create for one key, or a registration overwrites a slot.      *)
NoLostProcess ==
  \A p \in Procs : status[p] = "alive" => /\ routingKey[p] # None
                                          /\ processes[routingKey[p]] = p

(* The point of is_dirty (claude_process_pool.py:354-360): a live          *)
(* subprocess that is idle and not dirty has no unread output, so the next *)
(* call that get_or_create gives it to reads its own answer.               *)
CleanPipe ==
  \A p \in Procs :
    Live(p) /\ lock[p] = None /\ ~isDirty[p] => pipe[p] = <<>>

(* A call that took the lock of a subprocess that was not dirty is handed  *)
(* the answer to its own request, if any.                                  *)
CleanStreamReadsOwnAnswer ==
  [][\A c \in Calls :
       /\ answer'[c] # answer[c]
       /\ Live(managed[c]) /\ ~isDirty[managed[c]]
       => answer'[c] = c]_vars

(* Whoever fails, is cancelled or is killed, all locks are given back:     *)
(* when every call has ended no lock is held and no key is still protected *)
(* from eviction as initialising.                                          *)
NothingLeftHeld ==
  (\A c \in Calls : pc[c] \in {"new", "done", "failed"}) =>
    /\ \A k \in Keys : creationLock[k] = None
    /\ \A p \in Procs : lock[p] = None
    /\ pendingInit = {}

(* The pool's promise to its callers: the answers are those AnswerService  *)
(* allows.                                                                 *)
Stage(place) == CASE place = "done" -> "answered"
                  [] place = "failed" -> "failed"
                  [] place = "streaming" -> "sent"
                  [] OTHER -> "open"

callState == [c \in Calls |-> Stage(pc[c])]

Service == INSTANCE AnswerService WITH state <- callState

ServiceSpec == Service!ASpec

(* Every call that has begun ends: no interleaving of creation locks,      *)
(* subprocess locks and kills leaves one waiting for ever.                 *)
CallsEnd ==
  \A c \in Calls : pc[c] # "new" ~> pc[c] \in {"done", "failed"}

(* A shutdown that has begun completes, also when it interrupts a cleanup  *)
(* sweep in the middle of a kill.                                          *)
ShutdownEnds == shutdown ~> swPc["shutdown"] = "done"

(* Where a call creates a subprocess, and where it holds the lock of one.  *)
Creating == {"killing_old", "evicting", "spawning"}
Holding == {"streaming", "breaking"}

(* Nobody waits in vain: a lock a call wants is free or held by a call     *)
(* that only awaits a process, not a lock; and the subprocess whose death  *)
(* a call or a sweeper awaits is being killed or dead (the creation lock   *)
(* is taken at 224, the lock of a subprocess at 318).                      *)
EndsByItself(p) == p \in Procs /\ status[p] \in {"dying", "dead"}

NobodyWaitsInVain ==
  /\ \A c \in Calls : pc[c] = "want_creation" =>
       \/ CreationFree(c)
       \/ \E d \in Calls : CallKey[d] = CallKey[c] /\ pc[d] \in Creating
  /\ \A c \in Calls : pc[c] = "want_lock" =>
       \/ lock[managed[c]] = None
       \/ \E d \in Calls : managed[d] = managed[c] /\ pc[d] \in Holding
  /\ \A c \in Calls : pc[c] = "init" => status[managed[c]] # "unborn"
  /\ \A c \in Calls :
       pc[c] \in {"killing_old", "evicting", "breaking"} => EndsByItself(victim[c])
  /\ \A s \in Sweepers : swPc[s] = "running" => EndsByItself(victim[s])

(* How far a call is.                                                      *)
PlaceNumber ==
  [place \in CallPlaces |->
     CASE place = "new" -> 0 [] place = "want_creation" -> 1
       [] place = "killing_old" -> 2 [] place = "evicting" -> 3
       [] place = "spawning" -> 4 [] place = "init" -> 5
       [] place = "want_lock" -> 6 [] place \in {"streaming", "breaking"} -> 7
       [] place \in {"done", "failed"} -> 8]

(* No call goes back, and each of its steps brings it closer to its end:   *)
(* whatever dies, is evicted or is swept away under it, a call never       *)
(* starts over (send_message, 270-381, has no retry), so it takes no more  *)
(* than eight steps.                                                       *)
CallsAdvance ==
  [][\A c \in Calls :
       /\ PlaceNumber[pc[c]] <= PlaceNumber[pc'[c]]
       /\ CallStep(c) \/ Cancelled(c) => PlaceNumber[pc[c]] < PlaceNumber[pc'[c]]]_vars

(* A sweep that has begun gets shorter with every kill it has waited for,  *)
(* however many subprocesses are started meanwhile: it works off the keys  *)
(* it took down at its start (_terminate_process in the loops of           *)
(* shutdown, terminate_session and _cleanup_expired).                      *)
SweepsAdvance ==
  [][\A s \in Sweepers : swPc[s] = "running" =>
       \/ swPc'[s] # "running"
       \/ todo'[s] \subseteq todo[s] /\ todo'[s] # todo[s]
       \/ todo'[s] = todo[s] /\ victim'[s] = victim[s]]_vars

-----------------------------------------------------------------------------
(* The inductive invariant behind NoLostProcess and CleanPipe              *)

(* A call past get_or_create holds a subprocess that was started.          *)
Assigned ==
  \A c \in Calls :
    pc[c] \in {"init", "want_lock"} \cup Holding =>
      managed[c] \in Procs /\ status[managed[c]] # "unborn"

(* A call that creates holds its key's creation lock, and nobody else.     *)
CreationHeld ==
  /\ \A c \in Calls : pc[c] \in Creating => creationLock[CallKey[c]] = c
  /\ \A k \in Keys : creationLock[k] # None =>
       CallKey[creationLock[k]] = k /\ pc[creationLock[k]] \in Creating

(* While it does, the key has no registered subprocess.                    *)
SlotReserved ==
  \A c \in Calls : pc[c] \in Creating => processes[CallKey[c]] = None

(* The registry holds started subprocesses under their own key, and none   *)
(* that is being killed.                                                   *)
RegistrySound ==
  \A k \in Keys : processes[k] # None =>
    /\ routingKey[processes[k]] = k
    /\ status[processes[k]] \in {"alive", "dead"}

(* A subprocess not started yet has no user, no dirt and no output.        *)
UnbornIsBlank ==
  \A p \in Procs : status[p] = "unborn" =>
    lock[p] = None /\ ~isDirty[p] /\ pipe[p] = <<>>

(* The lock of a subprocess is held by the one call that reads or breaks.  *)
StreamHoldsLock ==
  /\ \A c \in Calls : pc[c] \in Holding => lock[managed[c]] = c
  /\ \A p \in Procs : lock[p] # None =>
       managed[lock[p]] = p /\ pc[lock[p]] \in Holding

(* What a live, clean subprocess still owes: the reader's own answer.      *)
OwnAnswerPending ==
  \A c \in Calls :
    pc[c] \in Holding /\ Live(managed[c]) /\ ~isDirty[managed[c]] =>
      /\ pc[c] = "streaming" => pipe[managed[c]] = <<c>>
      /\ pc[c] = "breaking" => pipe[managed[c]] = <<>>

PoolInv ==
  /\ TypeOK /\ Assigned /\ CreationHeld /\ SlotReserved /\ RegistrySound
  /\ UnbornIsBlank /\ StreamHoldsLock /\ OwnAnswerPending
  /\ NoLostProcess /\ CleanPipe

-----------------------------------------------------------------------------
(* Claims of the source that the code does not keep                        *)

(* "The next request on this key would read stale output.  To prevent      *)
(* this, we mark the process as dirty" (lines 354-360): a call is handed   *)
(* the answer to its own request.                                          *)
NoStaleAnswer == \A c \in Calls : answer[c] \in {None, c}

(* "Keys currently in init phase: excluded from LRU eviction" (139-142):   *)
(* the key of a call waiting for init on the registered subprocess is      *)
(* marked as such.                                                         *)
InitIsProtected ==
  \A c \in Calls :
    pc[c] = "init" /\ processes[CallKey[c]] = managed[c]
      => CallKey[c] \in pendingInit

(* "pool may briefly have POOL_MAX_SIZE+1" (446): never more than that.    *)
PoolSizeBound == Cardinality(Registered) <= PoolMax + 1

(* "Do not terminate while a stream is active" (960): the cleanup task     *)
(* never begins to kill a subprocess whose lock is held.                   *)
CleanupSparesStreams ==
  [][LET p == victim'["cleanup"] IN
       p # None /\ p # victim["cleanup"] => lock[p] = None]_vars

(* "Graceful shutdown: terminates all active subprocesses" (159).          *)
ShutdownLeavesNone ==
  swPc["shutdown"] = "done" => \A p \in Procs : status[p] # "alive"
=============================================================================
