---------------------------- MODULE DSyncWatcher ----------------------------
(***************************************************************************)
(* DSyncWatcher (lib/DSyncWatcher.cpp): a list of file pairs, the detached *)
(* threads Start() launches to call DoSync on each pair again and again,   *)
(* and the one client thread that owns the object.  The life cycle is      *)
(* DPathWatcher's without Pause, but by default a stop waits without a     *)
(* timeout.  A pair is a SyncEntry: one call of DoSync is one step, which  *)
(* takes any of its Outcomes; DSyncFile tells what happens within it.      *)
(*                                                                         *)
(* A call that returns early without writing anything is a stuttering      *)
(* step.  The k-th Start makes promise k and launches worker k.            *)
(***************************************************************************)
EXTENDS Naturals, Sequences, SyncOutcomes

CONSTANTS
  MaxStarts,      \* bound: how many times Start gets past its guards
  MaxSyncs        \* bound: how long SyncList grows

ASSUME BoundsAssumption == MaxStarts \in Nat /\ MaxSyncs \in Nat

VARIABLES
  Watching, NeedToQuit, Stopping,
  SyncList,     \* a sequence of PairType
  promise,      \* the promise in PromiseEnded, 0 before the first Start
  valid,        \* ThreadFuture refers to the state of PromiseEnded
  pc,           \* where each worker is
  next,         \* the pair each thread will check next; thread 0: the client
  kept,         \* the promise a worker has satisfied, 0 if none
  cpc, op,      \* where the client is; what it calls StopAndWait for
  timed,        \* with a timeout, or without one, which is the default
  destroyed,    \* ~DSyncWatcher has returned
  terminated,   \* a std::future_error nobody catches was thrown
  told,         \* history: what the last callback about each pair told
  stopped,      \* history: StopAndWait returned true since Start
  timedOut,     \* history: some StopAndWait timed out
  disciplined   \* history: the client has waited for SYNC_STARTED after every
                \* Start and stopped only by StopAndWait without a timeout

flags == <<Watching, NeedToQuit, Stopping>>
future == <<promise, valid>>
thread == <<pc, kept>>
client == <<cpc, op, timed, destroyed>>
list == <<SyncList, told>>
history == <<stopped, timedOut, disciplined>>
vars == <<flags, list, future, thread, next, client, terminated, history>>

Worker == 1..MaxStarts
Starting == {"spawned", "clearQuit", "started"}
Looping == {"test", "check", "sleep"}
Closing == {"ending", "keep", "ended"}

Live(w) == pc[w] \in Starting \cup Looping \cup Closing
Running(w) == Live(w) \/ pc[w] = "exit"

Init ==
  /\ Watching = FALSE /\ NeedToQuit = FALSE /\ Stopping = FALSE
  /\ SyncList = <<>> /\ told = <<>>
  /\ promise = 0 /\ valid = FALSE
  /\ pc = [w \in Worker |-> "none"] /\ kept = [w \in Worker |-> 0]
  /\ next = [t \in {0} \cup Worker |-> 1]
  /\ cpc = "idle" /\ op = "stop" /\ timed = FALSE
  /\ destroyed = FALSE /\ terminated = FALSE
  /\ stopped = FALSE /\ timedOut = FALSE /\ disciplined = TRUE

-----------------------------------------------------------------------------
(* Check, on thread t.                                                     *)

(* What the program has been told of a pair by its last callback: nothing  *)
(* yet, that Source is missing (again, if nothing was told since the last  *)
(* time), not ready, that the paths are the same, that a copy failed, or   *)
(* that the pair is served.  Three of them are one                         *)
(* CALLBACK_WATCHER_SYNC_ERROR, with different texts.                      *)
Word == {"silent", "missing", "again", "notReady", "same", "failed", "served"}

(* Fault: SYNC_ERR_FILE_NOT_FOUND has no callback.                         *)
Told_NoError(before, status) ==
  CASE status = "SYNC_ERR_SAME_AS_DEST" -> "same"
    [] status \in {"SYNC_ERR_COPY", "SYNC_ERR_BHO"} -> "failed"
    [] status \in {"SYNC_DONE", "SYNC_RESTORED"} -> "served"
    [] OTHER -> before

(* The callbacks of Check.  SYNC_NO_NEEDED, SYNC_NOT_READY have none.      *)
Told(before, status) ==
  CASE status = "SYNC_ERR_FILE_NOT_FOUND" ->
         IF before \in {"missing", "again"} THEN "again" ELSE "missing"
    [] status = "SYNC_ERR_SAME_AS_DEST" -> "same"
    [] status \in {"SYNC_ERR_COPY", "SYNC_ERR_BHO"} -> "failed"
    [] status \in {"SYNC_DONE", "SYNC_RESTORED"} -> "served"
    [] OTHER -> before

(* NotifySyncStatus has one for every status.                              *)
Notified(status) ==
  CASE status = "SYNC_NOT_READY" -> "notReady"
    [] status = "SYNC_NO_NEEDED" -> "served"
    [] OTHER -> Told("silent", status)

CheckPair(t) ==
  LET i == next[t] IN
  /\ i \in DOMAIN SyncList
  /\ \E o \in Outcomes(SyncList[i]) :
       /\ SyncList' = [SyncList EXCEPT ![i] = o.pair]
       /\ told' = [told EXCEPT ![i] = Told(@, o.ret)]
  /\ next' = [next EXCEPT ![t] = i + 1]

CheckEnd(t) ==
  /\ next[t] \notin DOMAIN SyncList
  /\ next' = [next EXCEPT ![t] = 1]
  /\ UNCHANGED list

-----------------------------------------------------------------------------
(* The worker: the lambda Start hands to std::thread.                      *)

Move(w, from, to) == pc[w] = from /\ pc' = [pc EXCEPT ![w] = to]

SetWatching(w) ==
  /\ Move(w, "spawned", "clearQuit")
  /\ Watching' = TRUE
  /\ UNCHANGED <<NeedToQuit, Stopping, list, future, kept, next, client,
                 terminated, history>>

(* Fault: the request that ended an earlier thread is kept.                *)
ClearQuit_Missing(w) ==
  /\ Move(w, "clearQuit", "started")
  /\ UNCHANGED <<flags, list, future, kept, next, client, terminated, history>>

ClearQuit(w) ==
  /\ Move(w, "clearQuit", "started")
  /\ NeedToQuit' = FALSE
  /\ UNCHANGED <<Watching, Stopping, list, future, kept, next, client,
                 terminated, history>>

(* SYNC_STARTED, the sleep, SYNC_ENDED, the exit that makes the kept       *)
(* promise ready, and the test of NeedToQuit.                              *)
Pass(w) ==
  /\ \/ Move(w, "started", "test") \/ Move(w, "sleep", "test")
     \/ NeedToQuit /\ Move(w, "test", "ending")
     \/ ~NeedToQuit /\ Move(w, "test", "check")
     \/ Move(w, "ended", "exit") \/ Move(w, "exit", "done")
  /\ UNCHANGED <<flags, list, future, kept, next, client, terminated, history>>

Check(w) ==
  /\ pc[w] = "check"
  /\ \/ CheckPair(w) /\ UNCHANGED pc
     \/ CheckEnd(w) /\ Move(w, "check", "sleep")
  /\ UNCHANGED <<flags, future, kept, client, terminated, history>>

ClearWatching(w) ==
  /\ Move(w, "ending", "keep")
  /\ Watching' = FALSE
  /\ UNCHANGED <<NeedToQuit, Stopping, list, future, kept, next, client,
                 terminated, history>>

PromiseSet == \E v \in Worker : kept[v] = promise

(* set_value_at_thread_exit stores the value now and makes it ready when   *)
(* the thread exits; a promise that has its value already throws.          *)
KeepPromise(w) ==
  /\ Move(w, "keep", "ended")
  /\ \/ /\ ~PromiseSet
        /\ kept' = [kept EXCEPT ![w] = promise] /\ UNCHANGED terminated
     \/ PromiseSet /\ terminated' = TRUE /\ UNCHANGED kept
  /\ UNCHANGED <<flags, list, future, next, client, history>>

(* A callback that calls Stop.                                             *)
CallbackStop(w) ==
  /\ pc[w] \in {"started", "check", "ended"} /\ Watching
  /\ NeedToQuit' = TRUE /\ disciplined' = FALSE
  /\ UNCHANGED <<Watching, Stopping, list, future, thread, next, client,
                 terminated, stopped, timedOut>>

WorkerStep(w) ==
  \/ SetWatching(w) \/ ClearQuit(w) \/ Pass(w) \/ Check(w)
  \/ ClearWatching(w) \/ KeepPromise(w)

-----------------------------------------------------------------------------
(* The client.  It edits and checks the list only while IsWatching is      *)
(* false.                                                                  *)

Idle == cpc = "idle" /\ ~destroyed

(* AddSync constructs a pair, which may be ready or not.  With SyncNow it  *)
(* calls DoSync on it, LastSyncStatus still unset, and reports what it     *)
(* did; without, it says nothing.                                          *)
AddSync ==
  /\ Idle /\ ~Watching /\ Len(SyncList) < MaxSyncs
  /\ \E ready, same, erred \in BOOLEAN :
       LET new == [ready |-> ready, same |-> same, erred |-> erred] IN
       \/ /\ ~erred
          /\ SyncList' = Append(SyncList, new)
          /\ told' = Append(told, "silent")
       \/ \E o \in Outcomes(new) :
            /\ SyncList' = Append(SyncList, o.pair)
            /\ told' = Append(told, Notified(o.ret))
  /\ UNCHANGED <<flags, future, thread, next, client, terminated, history>>

(* The one-shot Check on the client's own thread.                          *)
ClientCheck ==
  /\ \/ /\ Idle /\ ~Watching /\ cpc' = "checking" /\ UNCHANGED <<list, next>>
     \/ cpc = "checking" /\ CheckPair(0) /\ UNCHANGED cpc
     \/ cpc = "checking" /\ CheckEnd(0) /\ cpc' = "idle"
  /\ UNCHANGED <<flags, future, thread, op, timed, destroyed, terminated,
                 history>>

(* Fault: Start does not look at Watching.                                 *)
MayStart_WhileWatching == ~Stopping /\ SyncList # <<>>

MayStart == ~Watching /\ ~Stopping /\ SyncList # <<>>

StartCall ==
  /\ Idle /\ promise < MaxStarts /\ MayStart
  /\ cpc' = "starting" /\ stopped' = FALSE
  /\ UNCHANGED <<flags, list, future, thread, next, op, timed, destroyed,
                 terminated, timedOut, disciplined>>

ResetPromise ==
  /\ cpc = "starting" /\ cpc' = "launching"
  /\ promise' = promise + 1 /\ valid' = TRUE
  /\ UNCHANGED <<flags, list, thread, next, op, timed, destroyed, terminated,
                 history>>

LaunchThread ==
  /\ cpc = "launching"
  /\ \/ cpc' = "awaitStarted" /\ UNCHANGED disciplined
     \/ cpc' = "idle" /\ disciplined' = FALSE
  /\ pc' = [pc EXCEPT ![promise] = "spawned"]
  /\ UNCHANGED <<flags, list, future, kept, next, op, timed, destroyed,
                 terminated, stopped, timedOut>>

(* Not a call: the client's own wait for the SYNC_STARTED callback.        *)
SeeStarted ==
  /\ cpc = "awaitStarted" /\ pc[promise] \notin Starting
  /\ cpc' = "idle"
  /\ UNCHANGED <<flags, list, future, thread, next, op, timed, destroyed,
                 terminated, history>>

(* Stop tests Watching and then stores the request.                        *)
Stop ==
  /\ \/ Idle /\ Watching /\ cpc' = "stop" /\ UNCHANGED NeedToQuit
     \/ cpc = "stop" /\ cpc' = "idle" /\ NeedToQuit' = TRUE
  /\ disciplined' = FALSE
  /\ UNCHANGED <<Watching, Stopping, list, future, thread, next, op, timed,
                 destroyed, terminated, stopped, timedOut>>

(* What the caller of StopAndWait does with its result: the client itself  *)
(* ("stop"), Clear, which clears the list if it is true, or the            *)
(* destructor, which calls Clear and ignores its result.                   *)
AfterStop(o, ok) ==
  /\ cpc' = "idle"
  /\ IF o # "stop" /\ ok THEN SyncList' = <<>> /\ told' = <<>>
                         ELSE UNCHANGED list
  /\ destroyed' = (o = "destroy")
  /\ stopped' = (stopped \/ ok)

(* Fault: the stop is taken for granted.                                   *)
NothingToStop_Always == TRUE

NothingToStop == ~Watching \/ Stopping

StopEarly(o) ==
  /\ Idle /\ NothingToStop
  /\ AfterStop(o, TRUE)
  /\ UNCHANGED <<flags, future, thread, next, op, timed, terminated, timedOut,
                 disciplined>>

(* Only the destructor has no say: it waits without a timeout.             *)
StopCall(o, timeout) ==
  /\ Idle /\ ~NothingToStop
  /\ o = "destroy" => ~timeout
  /\ cpc' = "stopping" /\ op' = o /\ timed' = timeout
  /\ disciplined' = (disciplined /\ ~timeout)
  /\ UNCHANGED <<flags, list, future, thread, next, destroyed, terminated,
                 stopped, timedOut>>

(* Fault: StopAndWait waits without asking the thread to quit.             *)
StopFlags_NoRequest ==
  /\ cpc = "stopping" /\ cpc' = "waiting"
  /\ Stopping' = TRUE
  /\ UNCHANGED <<Watching, NeedToQuit, list, future, thread, next, op, timed,
                 destroyed, terminated, history>>

StopFlags ==
  /\ cpc = "stopping" /\ cpc' = "waiting"
  /\ NeedToQuit' = TRUE /\ Stopping' = TRUE
  /\ UNCHANGED <<Watching, list, future, thread, next, op, timed, destroyed,
                 terminated, history>>

(* Fault: the promise is made ready at once, not when the thread exits.    *)
FutureReady_AtOnce == \E w \in Worker : kept[w] = promise

FutureReady == \E w \in Worker : kept[w] = promise /\ pc[w] = "done"

WaitReady ==
  /\ cpc = "waiting" /\ valid /\ FutureReady
  /\ valid' = FALSE /\ Stopping' = FALSE
  /\ AfterStop(op, TRUE)
  /\ UNCHANGED <<Watching, NeedToQuit, promise, thread, next, op, timed,
                 terminated, timedOut, disciplined>>

WaitTimeout ==
  /\ timed /\ cpc = "waiting" /\ valid /\ ~FutureReady
  /\ timedOut' = TRUE
  /\ AfterStop(op, FALSE)
  /\ UNCHANGED <<flags, future, thread, next, op, timed, terminated,
                 disciplined>>

(* A wait on a future that get() has emptied throws future_error.          *)
WaitInvalid ==
  /\ cpc = "waiting" /\ ~valid
  /\ terminated' = TRUE
  /\ UNCHANGED <<flags, list, future, thread, next, client, history>>

ClientStep ==
  \/ AddSync \/ ClientCheck \/ Stop
  \/ StartCall \/ ResetPromise \/ LaunchThread \/ SeeStarted
  \/ \E o \in {"stop", "clear", "destroy"} :
       StopEarly(o) \/ \E b \in BOOLEAN : StopCall(o, b)
  \/ StopFlags \/ WaitReady \/ WaitTimeout \/ WaitInvalid

(* Nothing is left to do once the object and its threads are gone.         *)
Finished ==
  /\ terminated \/ (destroyed /\ \A w \in Worker : ~Running(w))
  /\ UNCHANGED vars

Next ==
  \/ /\ ~terminated
     /\ ClientStep \/ \E w \in Worker : WorkerStep(w) \/ CallbackStop(w)
  \/ Finished

(* The operating system runs every thread: a worker and a client inside a  *)
(* call keep moving.  Nothing obliges the client to make a call.           *)
Fairness ==
  /\ WF_vars(~terminated /\ ~Idle /\ ClientStep)
  /\ \A w \in Worker : WF_vars(~terminated /\ WorkerStep(w))

Spec == Init /\ [][Next]_vars /\ Fairness

-----------------------------------------------------------------------------
FlagsOK ==
  /\ Watching \in BOOLEAN /\ NeedToQuit \in BOOLEAN /\ Stopping \in BOOLEAN
  /\ valid \in BOOLEAN /\ destroyed \in BOOLEAN /\ terminated \in BOOLEAN
  /\ stopped \in BOOLEAN /\ timedOut \in BOOLEAN
  /\ timed \in BOOLEAN /\ disciplined \in BOOLEAN

ListOK ==
  /\ SyncList \in Seq(PairType) /\ Len(SyncList) <= MaxSyncs
  /\ told \in Seq(Word) /\ Len(told) = Len(SyncList)
  /\ next \in [{0} \cup Worker -> 1..(MaxSyncs + 1)]

PlacesOK ==
  /\ promise \in 0..MaxStarts /\ kept \in [Worker -> 0..MaxStarts]
  /\ pc \in [Worker -> {"none", "exit", "done"}
                       \cup Starting \cup Looping \cup Closing]
  /\ cpc \in {"idle", "checking", "starting", "launching", "awaitStarted",
              "stop", "stopping", "waiting"}
  /\ op \in {"stop", "clear", "destroy"}

(* Every variable keeps to its type.                                       *)
TypeOK == FlagsOK /\ ListOK /\ PlacesOK

(* A disciplined client may believe StopAndWait: after it has returned     *)
(* true, and until the next Start, nothing is copied and no callback       *)
(* comes; and no thread touches the object once its destructor is through. *)
StopMeansStopped ==
  disciplined => \A w \in Worker : /\ stopped => ~Running(w)
                                   /\ destroyed => ~Live(w)

(* For a disciplined client no thread satisfies a promise twice or waits   *)
(* on an empty future, which would end the program.                        *)
NoFutureError == disciplined => ~terminated

Agrees(p, word) ==
  /\ word \in {"missing", "same", "notReady"} => ~p.ready
  /\ word \in {"served", "failed"} => p.ready
  /\ word # "again"

(* The callbacks, over any number of threads and one-shot checks, tell a   *)
(* disciplined client which pairs GetSyncErrors counts: those whose last   *)
(* one was about the files that are missing or the same.  A missing Source *)
(* is never told twice without its end between.  A pair that was told to   *)
(* be served, or a copy of which failed, is not counted; of one added      *)
(* without SyncNow nothing is known before its first callback.             *)
CallbacksAgree ==
  disciplined => \A i \in DOMAIN SyncList : Agrees(SyncList[i], told[i])

(* A thread that nobody stops checks every pair in every round of its      *)
(* loop, also when it is the second thread of a watcher stopped before.    *)
EveryPairChecked ==
  \A w \in Worker, i \in 1..MaxSyncs :
    pc[w] \in {"started", "sleep"} /\ i \in DOMAIN SyncList
      ~> \/ pc[w] = "check" /\ next[w] = i
         \/ cpc \in {"stopping", "waiting"} \/ ~disciplined

(* StopAndWait, Clear and the destructor return, as they promise.          *)
StopAlwaysReturns == cpc = "waiting" ~> cpc = "idle"

(* They do for a disciplined client, and for one that gives a timeout      *)
(* unless the program has ended.                                           *)
StopReturns ==
  cpc = "waiting" /\ (disciplined \/ timed) ~> cpc = "idle" \/ terminated

(* Until it gives up its discipline, the client sees one WatchService,     *)
(* whatever thread Start launched: SyncList never changes its length under *)
(* a thread that iterates over it, nor is the object destroyed.            *)
Service == INSTANCE WatchService WITH
  running <- disciplined /\ \E w \in Worker : Live(w),
  entries <- Len(SyncList)
ServiceSpec == Service!SSpec
=============================================================================
