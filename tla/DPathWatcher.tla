---------------------------- MODULE DPathWatcher ----------------------------
(***************************************************************************)
(* The life cycle of DPathWatcher (lib/DPathWatcher.cpp): one client       *)
(* thread that owns the object and the detached threads that Start()       *)
(* launches.  They share plain bool members, the WatchList and the promise *)
(* the client waits on.  What one watch detects is in PathWatch; here a    *)
(* watch is an entry that takes a step to check.                           *)
(*                                                                         *)
(* The client is sequential: it is in at most one call, cpc is where.      *)
(* A call that returns early without writing anything is a stuttering step *)
(* and has no action.  The k-th Start makes promise k and launches         *)
(* worker k.                                                               *)
(***************************************************************************)
EXTENDS Naturals

CONSTANTS
  MaxStarts,          \* bound: how many times Start gets past its guards
  MaxWatches,         \* bound: how long WatchList grows
  AwaitsStarted,      \* the client waits for WATCH_STARTED after Start
  UsesSetStop,        \* the client or its callback also calls SetStop
  MayTimeOut,         \* wait_for may report a timeout
  EditsWhileWatching  \* the client calls AddPath and Check at any time

ASSUME BoundsAssumption == MaxStarts \in Nat /\ MaxWatches \in Nat
ASSUME ClientAssumption ==
  /\ AwaitsStarted \in BOOLEAN /\ UsesSetStop \in BOOLEAN
  /\ MayTimeOut \in BOOLEAN /\ EditsWhileWatching \in BOOLEAN

VARIABLES
  Watching, StopWatchingRequested, Stopping, Paused,
  watches,      \* WatchList.size()
  promise,      \* the promise in PromiseEnded, 0 before the first Start
  valid,        \* ThreadFuture refers to the state of PromiseEnded
  pc,           \* where each worker is
  left,         \* entries a worker still has to visit in Check
  kept,         \* the promise a worker has satisfied, 0 if none
  cpc, op,      \* where the client is; what it calls SetStopAndWait for
  destroyed,    \* ~DPathWatcher has returned
  terminated,   \* a std::future_error nobody catches was thrown
  stopped,      \* history: SetStopAndWait returned no error since Start
  timedOut,     \* history: some SetStopAndWait timed out
  wantPaused    \* history: what the client last asked of Pause

flags == <<Watching, StopWatchingRequested, Stopping, Paused>>
future == <<promise, valid>>
thread == <<pc, left, kept>>
client == <<cpc, op, destroyed>>
history == <<stopped, timedOut, wantPaused>>
vars == <<flags, watches, future, thread, client, terminated, history>>

(* What no step of a worker writes, and no step of the client.             *)
clients == <<Stopping, watches, future, client, history>>
workers == <<Watching, left, kept>>

Worker == 1..MaxStarts
Starting == {"spawned", "clearStop", "clearPause", "started"}
Looping == {"test", "check", "sleep"}
Closing == {"ending", "keep", "ended"}

(* The worker still uses the object / has not returned yet.                *)
Live(w) == pc[w] \in Starting \cup Looping \cup Closing
Running(w) == Live(w) \/ pc[w] = "exit"

Init ==
  /\ Watching = FALSE /\ StopWatchingRequested = FALSE
  /\ Stopping = FALSE /\ Paused = FALSE
  /\ watches = 0 /\ promise = 0 /\ valid = FALSE
  /\ pc = [w \in Worker |-> "none"]
  /\ left = [w \in Worker |-> 0] /\ kept = [w \in Worker |-> 0]
  /\ cpc = "idle" /\ op = "stop" /\ destroyed = FALSE /\ terminated = FALSE
  /\ stopped = FALSE /\ timedOut = FALSE /\ wantPaused = FALSE

-----------------------------------------------------------------------------
(* The worker: the lambda Start hands to std::thread.                      *)

Move(w, from, to) == pc[w] = from /\ pc' = [pc EXCEPT ![w] = to]

SetWatching(w) ==
  /\ Move(w, "spawned", "clearStop")
  /\ Watching' = TRUE
  /\ UNCHANGED <<StopWatchingRequested, Paused, left, kept, terminated,
                 clients>>

ClearStop(w) ==
  /\ Move(w, "clearStop", "clearPause")
  /\ StopWatchingRequested' = FALSE
  /\ UNCHANGED <<Paused, workers, terminated, clients>>

(* Fault: the pause of an earlier thread is kept.                          *)
ClearPause_Missing(w) ==
  /\ Move(w, "clearPause", "started")
  /\ UNCHANGED <<flags, workers, terminated, clients>>

ClearPause(w) ==
  /\ Move(w, "clearPause", "started")
  /\ Paused' = FALSE
  /\ UNCHANGED <<StopWatchingRequested, workers, terminated, clients>>

(* Steps that write nothing the model keeps: WATCH_STARTED, the sleep,     *)
(* WATCH_ENDED, and the exit that makes the kept promise ready.            *)
Pass(w) ==
  /\ \/ Move(w, "started", "test") \/ Move(w, "sleep", "test")
     \/ Move(w, "ended", "exit") \/ Move(w, "exit", "done")
  /\ UNCHANGED <<flags, workers, terminated, clients>>

(* One evaluation of the loop condition and of Paused.                     *)
LoopTest(w) ==
  /\ \/ StopWatchingRequested /\ Move(w, "test", "ending") /\ UNCHANGED left
     \/ /\ ~StopWatchingRequested /\ Paused
        /\ Move(w, "test", "sleep") /\ UNCHANGED left
     \/ /\ ~StopWatchingRequested /\ ~Paused
        /\ Move(w, "test", "check") /\ left' = [left EXCEPT ![w] = watches]
  /\ UNCHANGED <<flags, kept, terminated, clients>>

(* Watch.Check and the callback it leads to for one entry of WatchList, or *)
(* the end of the list.                                                    *)
Check(w) ==
  /\ \/ /\ pc[w] = "check" /\ left[w] > 0
        /\ left' = [left EXCEPT ![w] = @ - 1] /\ UNCHANGED pc
     \/ left[w] = 0 /\ Move(w, "check", "sleep") /\ UNCHANGED left
  /\ UNCHANGED <<flags, kept, terminated, clients>>

ClearWatching(w) ==
  /\ Move(w, "ending", "keep")
  /\ Watching' = FALSE
  /\ UNCHANGED <<StopWatchingRequested, Paused, left, kept, terminated,
                 clients>>

PromiseSet == \E v \in Worker : kept[v] = promise

(* set_value_at_thread_exit stores the value now and makes it ready when   *)
(* the thread exits; a promise that has its value already throws, out of   *)
(* the thread's function.                                                  *)
KeepPromise(w) ==
  /\ Move(w, "keep", "ended")
  /\ \/ /\ ~PromiseSet
        /\ kept' = [kept EXCEPT ![w] = promise] /\ UNCHANGED terminated
     \/ PromiseSet /\ terminated' = TRUE /\ UNCHANGED kept
  /\ UNCHANGED <<flags, left, clients>>

(* A callback that calls SetStop.  The store directly follows the test: of *)
(* the threads here only this one could clear Watching in between.         *)
CallbackSetStop(w) ==
  /\ UsesSetStop /\ pc[w] \in {"started", "check", "ended"} /\ Watching
  /\ StopWatchingRequested' = TRUE
  /\ UNCHANGED <<Paused, pc, workers, terminated, clients>>

WorkerStep(w) ==
  \/ SetWatching(w) \/ ClearStop(w) \/ ClearPause(w) \/ Pass(w)
  \/ LoopTest(w) \/ Check(w) \/ ClearWatching(w) \/ KeepPromise(w)

-----------------------------------------------------------------------------
(* The client.                                                             *)

Idle == cpc = "idle" /\ ~destroyed
MayEdit == EditsWhileWatching \/ ~Watching

AddPath ==
  /\ Idle /\ MayEdit /\ watches < MaxWatches
  /\ watches' = watches + 1
  /\ UNCHANGED <<flags, future, thread, client, terminated, history>>

(* The one-shot Check on the client's own thread.                          *)
ClientCheck ==
  /\ \/ Idle /\ MayEdit /\ watches > 0 /\ cpc' = "checking"
     \/ cpc = "checking" /\ cpc' = "idle"
  /\ UNCHANGED <<flags, watches, future, thread, op, destroyed, terminated,
                 history>>

(* Fault: Start does not look at Watching.                                 *)
MayStart_WhileWatching == ~Stopping /\ watches > 0

MayStart == ~Watching /\ ~Stopping /\ watches > 0

StartCall ==
  /\ Idle /\ promise < MaxStarts /\ MayStart
  /\ cpc' = "starting"
  /\ stopped' = FALSE /\ wantPaused' = FALSE
  /\ UNCHANGED <<flags, watches, future, thread, op, destroyed, terminated,
                 timedOut>>

(* Fault: the future of the new promise is not taken.                      *)
ResetPromise_NoFuture ==
  /\ cpc = "starting" /\ cpc' = "launching"
  /\ promise' = promise + 1
  /\ UNCHANGED <<flags, watches, valid, thread, op, destroyed, terminated,
                 history>>

ResetPromise ==
  /\ cpc = "starting" /\ cpc' = "launching"
  /\ promise' = promise + 1 /\ valid' = TRUE
  /\ UNCHANGED <<flags, watches, thread, op, destroyed, terminated, history>>

LaunchThread ==
  /\ cpc = "launching"
  /\ cpc' = IF AwaitsStarted THEN "awaitStarted" ELSE "idle"
  /\ pc' = [pc EXCEPT ![promise] = "spawned"]
  /\ UNCHANGED <<flags, watches, future, left, kept, op, destroyed,
                 terminated, history>>

(* Not a call: the client's own wait for the WATCH_STARTED callback.       *)
SeeStarted ==
  /\ cpc = "awaitStarted" /\ pc[promise] \notin Starting
  /\ cpc' = "idle"
  /\ UNCHANGED <<flags, watches, future, thread, op, destroyed, terminated,
                 history>>

Pause(enabled) ==
  /\ Idle
  /\ Paused' = enabled /\ wantPaused' = enabled
  /\ UNCHANGED <<StopWatchingRequested, Stopping, watches, future, pc, workers,
                 client, terminated, stopped, timedOut>>

(* SetStop tests Watching and then stores the request.                     *)
SetStop ==
  /\ \/ /\ UsesSetStop /\ Idle /\ Watching
        /\ cpc' = "setStop" /\ UNCHANGED StopWatchingRequested
     \/ /\ cpc = "setStop"
        /\ cpc' = "idle" /\ StopWatchingRequested' = TRUE
  /\ UNCHANGED <<Stopping, Paused, watches, future, pc, workers, op, destroyed,
                 terminated, history>>

(* What the caller of SetStopAndWait does with its result: SetStopAndWait  *)
(* itself ("stop"), ClearWatches, which clears the list if there was no    *)
(* error, or the destructor, which ignores the result.                     *)
AfterStop(o, ok) ==
  /\ cpc' = "idle"
  /\ watches' = IF o = "clear" /\ ok THEN 0 ELSE watches
  /\ destroyed' = (o = "destroy")
  /\ stopped' = (stopped \/ ok)

(* Fault: the stop is taken for granted.                                   *)
NothingToStop_Always == TRUE

NothingToStop == ~Watching \/ Stopping

StopEarly(o) ==
  /\ Idle /\ NothingToStop
  /\ AfterStop(o, TRUE)
  /\ UNCHANGED <<flags, future, thread, op, terminated, timedOut, wantPaused>>

StopCall(o) ==
  /\ Idle /\ ~NothingToStop
  /\ cpc' = "stopping" /\ op' = o
  /\ UNCHANGED <<flags, watches, future, thread, destroyed, terminated,
                 history>>

(* Fault: SetStopAndWait waits without asking the thread to stop.          *)
StopFlags_NoRequest ==
  /\ cpc = "stopping" /\ cpc' = "waiting"
  /\ Stopping' = TRUE
  /\ UNCHANGED <<StopWatchingRequested, Paused, watches, future, pc, workers,
                 op, destroyed, terminated, history>>

StopFlags ==
  /\ cpc = "stopping" /\ cpc' = "waiting"
  /\ StopWatchingRequested' = TRUE /\ Stopping' = TRUE
  /\ UNCHANGED <<Paused, watches, future, pc, workers, op, destroyed,
                 terminated, history>>

(* Fault: the promise is made ready at once, not when the thread exits.    *)
FutureReady_AtOnce == \E w \in Worker : kept[w] = promise

FutureReady == \E w \in Worker : kept[w] = promise /\ pc[w] = "done"

(* Fault: Stopping stays set after the wait.                               *)
WaitReady_StillStopping ==
  /\ cpc = "waiting" /\ valid /\ FutureReady
  /\ valid' = FALSE
  /\ AfterStop(op, TRUE)
  /\ UNCHANGED <<flags, promise, thread, op, terminated, timedOut, wantPaused>>

WaitReady ==
  /\ cpc = "waiting" /\ valid /\ FutureReady
  /\ valid' = FALSE /\ Stopping' = FALSE
  /\ AfterStop(op, TRUE)
  /\ UNCHANGED <<StopWatchingRequested, Paused, promise, pc, workers, op,
                 terminated, timedOut, wantPaused>>

WaitTimeout ==
  /\ MayTimeOut /\ cpc = "waiting" /\ valid /\ ~FutureReady
  /\ timedOut' = TRUE
  /\ AfterStop(op, FALSE)
  /\ UNCHANGED <<flags, future, thread, op, terminated, wantPaused>>

(* wait_for on a future that get() has emptied throws future_error.        *)
WaitInvalid ==
  /\ cpc = "waiting" /\ ~valid
  /\ terminated' = TRUE
  /\ UNCHANGED <<flags, watches, future, thread, client, history>>

(* Between calls the client may make one; within a call it goes on.        *)
ClientStep ==
  \/ AddPath \/ ClientCheck \/ SetStop \/ \E b \in BOOLEAN : Pause(b)
  \/ StartCall \/ ResetPromise \/ LaunchThread \/ SeeStarted
  \/ \E o \in {"stop", "clear", "destroy"} : StopEarly(o) \/ StopCall(o)
  \/ StopFlags \/ WaitReady \/ WaitTimeout \/ WaitInvalid

(* Nothing is left to do once the object and its threads are gone.         *)
Finished ==
  /\ terminated \/ (destroyed /\ \A w \in Worker : ~Running(w))
  /\ UNCHANGED vars

Next ==
  \/ /\ ~terminated
     /\ ClientStep \/ \E w \in Worker : WorkerStep(w) \/ CallbackSetStop(w)
  \/ Finished

(* The operating system runs every thread: a worker and a client inside a  *)
(* call keep moving.  Nothing obliges the client to make a call.           *)
Fairness ==
  /\ WF_vars(~terminated /\ ~Idle /\ ClientStep)
  /\ \A w \in Worker : WF_vars(~terminated /\ WorkerStep(w))

Spec == Init /\ [][Next]_vars /\ Fairness

-----------------------------------------------------------------------------
FlagsOK ==
  /\ Watching \in BOOLEAN /\ StopWatchingRequested \in BOOLEAN
  /\ Stopping \in BOOLEAN /\ Paused \in BOOLEAN /\ valid \in BOOLEAN
  /\ destroyed \in BOOLEAN /\ terminated \in BOOLEAN
  /\ stopped \in BOOLEAN /\ timedOut \in BOOLEAN /\ wantPaused \in BOOLEAN

NumbersOK ==
  /\ watches \in 0..MaxWatches /\ promise \in 0..MaxStarts
  /\ left \in [Worker -> 0..MaxWatches] /\ kept \in [Worker -> 0..MaxStarts]

PlacesOK ==
  /\ pc \in [Worker -> {"none", "exit", "done"}
                       \cup Starting \cup Looping \cup Closing]
  /\ cpc \in {"idle", "checking", "starting", "launching", "awaitStarted",
              "setStop", "stopping", "waiting"}
  /\ op \in {"stop", "clear", "destroy"}

(* Every variable keeps to its type.                                       *)
TypeOK == FlagsOK /\ NumbersOK /\ PlacesOK

(* At most one worker uses the object at any time.                         *)
SingleWorker == \A v, w \in Worker : Live(v) /\ Live(w) => v = w

(* After SetStopAndWait has returned no error, and until the next Start,   *)
(* the thread is gone: nothing more is scanned and no callback comes.      *)
StopMeansStopped == stopped => \A w \in Worker : ~Running(w)

(* No thread satisfies a promise twice or waits on an empty future, which  *)
(* would end the program.                                                  *)
NoFutureError == ~terminated

(* WatchList never changes length under a thread that iterates over it,    *)
(* which would invalidate its iterators.                                   *)
ListStableUnderCheck ==
  [][watches' # watches => \A w \in Worker : pc[w] # "check"]_vars

(* No worker touches the object after its destructor has returned.         *)
NoUseAfterDestroy == destroyed => \A w \in Worker : ~Live(w)

(* Between calls the watcher is paused exactly when the client last asked  *)
(* for it since Start: no call of Pause is lost.                           *)
PauseKept == Idle => Paused = wantPaused

(* Between calls, only a timeout leaves Stopping set, so a watcher whose   *)
(* stops all succeeded can be started again.                               *)
RestartableUnlessTimedOut == Idle /\ Stopping => timedOut

(* No two Starts have met on one promise: every worker that can still keep *)
(* one is the last, and what was kept was kept by its own worker.          *)
OwnPromises ==
  \A w \in Worker :
    kept[w] \in {0, w} /\ (Running(w) /\ kept[w] = 0 => w = promise)

(* Whatever the client does, IsWatching is true only while a thread uses   *)
(* the object; and unless two Starts have met, between calls that thread   *)
(* is the one of the last Start, the future a SetStopAndWait would wait on *)
(* can be waited on, and no other thread has made it ready.                *)
WatchingMeansLive ==
  Watching =>
    /\ \E w \in Worker : Live(w)
    /\ Idle /\ OwnPromises => valid /\ Live(promise) /\ ~PromiseSet

(* Between calls a worker that is running is reported by IsWatching.       *)
IsWatchingTruthful ==
  Idle => (Watching <=> \E w \in Worker : Running(w))

(* SetStopAndWait, ClearWatches and the destructor return.                 *)
StopReturns == cpc = "waiting" ~> cpc = "idle"

(* Whatever thread Start launched, the client sees one WatchService.       *)
Service == INSTANCE WatchService WITH
  running <- \E w \in Worker : Live(w),
  entries <- watches
ServiceSpec == Service!SSpec
=============================================================================
