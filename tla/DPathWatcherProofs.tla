------------------------- MODULE DPathWatcherProofs -------------------------
(***************************************************************************)
(* Proofs about DPathWatcher for every number of starts and of watches:    *)
(* what holds for every client, and what holds for the careful one.        *)
(***************************************************************************)
EXTENDS DPathWatcher, TLAPS

(* The careful client waits for WATCH_STARTED, stops the thread only       *)
(* through SetStopAndWait, whose waits succeed, and edits or checks the    *)
(* list only while IsWatching is false.                                    *)
Careful ==
  ~UsesSetStop /\ ~MayTimeOut /\ ~EditsWhileWatching /\ AwaitsStarted

Quiet == \A w \in Worker : pc[w] \in {"none", "done"}
At(S) == promise \in Worker /\ valid /\ pc[promise] \in S
Announced ==
  {"clearStop", "clearPause", "started"} \cup Looping \cup {"ending"}

(* A worker that has not been launched is still where Init put it.         *)
Fresh ==
  /\ \A w \in Worker : w > promise => pc[w] = "none"
  /\ cpc = "launching" => promise \in Worker /\ pc[promise] = "none"
  /\ cpc = "starting" => promise < MaxStarts

TypeInv == TypeOK /\ Fresh

StoppingInv == Stopping => timedOut \/ cpc = "waiting"

AnnouncedInv == Watching => \E w \in Worker : pc[w] \in Announced

(* A worker has kept nothing before its last lines, and a future is used   *)
(* up only after somebody kept its promise.                                *)
FutureInv ==
  /\ \A w \in Worker : kept[w] # 0 => pc[w] \in {"ended", "exit", "done"}
  /\ ~valid => promise = 0 \/ PromiseSet

(* The inductive invariant of the careful client, part by part.            *)
OthersGone == \A w \in Worker : w # promise => pc[w] \in {"none", "done"}

KeptOwn ==
  \A w \in Worker :
    kept[w] = IF pc[w] \in {"ended", "exit", "done"} THEN w ELSE 0

WatchingInv == Watching <=> \E w \in Worker : pc[w] \in Announced

ClientPhase ==
  /\ cpc \in {"checking", "starting", "launching"} \/ destroyed \/ stopped
       => Quiet
  /\ cpc = "idle" => Quiet \/ At(Looping)
  /\ cpc = "launching" => At({"none"})
  /\ cpc = "awaitStarted" => At(Starting \cup Looping)
  /\ cpc = "stopping" => At(Looping)
  /\ cpc = "waiting" => At(Looping \cup Closing \cup {"exit", "done"})
  /\ cpc # "setStop"
  /\ destroyed => cpc = "idle"
  /\ stopped => cpc \in {"idle", "checking"}
  /\ cpc \in {"starting", "launching"} => watches > 0

(* Outside a wait no request to stop is pending past ClearStop.            *)
RequestInv ==
  StopWatchingRequested /\ cpc # "waiting" =>
    \A w \in Worker : pc[w] \in {"none", "spawned", "clearStop", "done"}

PauseInv ==
  /\ cpc \in {"starting", "launching", "awaitStarted"} => ~wantPaused
  /\ cpc = "awaitStarted" /\ Paused =>
       At({"spawned", "clearStop", "clearPause"})
  /\ cpc \in {"idle", "checking", "stopping", "waiting"} => Paused = wantPaused

CarefulInv ==
  /\ TypeInv /\ OthersGone /\ KeptOwn /\ WatchingInv /\ ClientPhase
  /\ RequestInv /\ PauseInv /\ ~terminated /\ (Stopping => cpc = "waiting")

-----------------------------------------------------------------------------
(* The tuples the actions leave unchanged are expanded in every leaf.      *)
USE DEF flags, future, thread, client, history, clients, workers

(* The initial state.                                                      *)
LEMMA TypeInit == Init => TypeInv
<1> SUFFICES ASSUME Init PROVE TypeInv OBVIOUS
<1> USE BoundsAssumption DEF Init
<1>1. FlagsOK BY DEF FlagsOK
<1>2. NumbersOK BY DEF NumbersOK
<1>3. PlacesOK BY DEF PlacesOK
<1>4. Fresh BY DEF Fresh, Worker
<1>5. QED BY <1>1, <1>2, <1>3, <1>4 DEF TypeInv, TypeOK

(* The Boolean members and histories stay Boolean.                         *)
LEMMA FlagsWorker ==
  ASSUME FlagsOK, NEW w \in Worker,
         WorkerStep(w) \/ CallbackSetStop(w)
  PROVE  FlagsOK'
<1> USE DEF FlagsOK
<1>1. CASE SetWatching(w) BY <1>1 DEF SetWatching
<1>2. CASE ClearStop(w) BY <1>2 DEF ClearStop
<1>3. CASE ClearPause(w) BY <1>3 DEF ClearPause
<1>4. CASE Pass(w) BY <1>4 DEF Pass
<1>5. CASE LoopTest(w) BY <1>5 DEF LoopTest
<1>6. CASE Check(w) BY <1>6 DEF Check
<1>7. CASE ClearWatching(w) BY <1>7 DEF ClearWatching
<1>8. CASE KeepPromise(w) BY <1>8 DEF KeepPromise
<1>9. CASE CallbackSetStop(w) BY <1>9 DEF CallbackSetStop
<1>10. QED
  BY <1>1, <1>2, <1>3, <1>4, <1>5, <1>6, <1>7, <1>8, <1>9 DEF WorkerStep

(* The same for the steps of the client.                                   *)
LEMMA FlagsClient ==
  ASSUME FlagsOK, ClientStep
  PROVE  FlagsOK'
<1> USE DEF FlagsOK, NothingToStop
<1>1. CASE AddPath BY <1>1 DEF AddPath
<1>2. CASE ClientCheck BY <1>2 DEF ClientCheck
<1>3. CASE SetStop BY <1>3 DEF SetStop
<1>4. ASSUME NEW b \in BOOLEAN, Pause(b) PROVE FlagsOK'
  BY <1>4 DEF Pause
<1>5. CASE StartCall BY <1>5 DEF StartCall
<1>6. CASE ResetPromise BY <1>6 DEF ResetPromise
<1>7. CASE LaunchThread BY <1>7 DEF LaunchThread
<1>8. CASE SeeStarted BY <1>8 DEF SeeStarted
<1>9. ASSUME NEW o \in {"stop", "clear", "destroy"}, StopEarly(o)
      PROVE  FlagsOK'
  BY <1>9 DEF StopEarly, AfterStop
<1>10. ASSUME NEW o \in {"stop", "clear", "destroy"}, StopCall(o)
      PROVE  FlagsOK'
  BY <1>10 DEF StopCall
<1>11. CASE StopFlags BY <1>11 DEF StopFlags
<1>12. CASE WaitReady BY <1>12 DEF WaitReady, AfterStop
<1>13. CASE WaitTimeout BY <1>13 DEF WaitTimeout, AfterStop
<1>14. CASE WaitInvalid BY <1>14 DEF WaitInvalid
<1>15. QED
  BY <1>1, <1>2, <1>3, <1>4, <1>5, <1>6, <1>7, <1>8, <1>9, <1>10, <1>11,
     <1>12, <1>13, <1>14 DEF ClientStep

(* The counters stay in their bounds.                                      *)
LEMMA NumbersWorker ==
  ASSUME NumbersOK, NEW w \in Worker,
         WorkerStep(w) \/ CallbackSetStop(w)
  PROVE  NumbersOK'
<1> USE BoundsAssumption DEF NumbersOK
<1>1. CASE SetWatching(w) BY <1>1 DEF SetWatching
<1>2. CASE ClearStop(w) BY <1>2 DEF ClearStop
<1>3. CASE ClearPause(w) BY <1>3 DEF ClearPause
<1>4. CASE Pass(w) BY <1>4 DEF Pass
<1>5. CASE LoopTest(w) BY <1>5 DEF LoopTest
<1>6. CASE Check(w) BY <1>6 DEF Check
<1>7. CASE ClearWatching(w) BY <1>7 DEF ClearWatching
<1>8. CASE KeepPromise(w) BY <1>8 DEF KeepPromise
<1>9. CASE CallbackSetStop(w) BY <1>9 DEF CallbackSetStop
<1>10. QED
  BY <1>1, <1>2, <1>3, <1>4, <1>5, <1>6, <1>7, <1>8, <1>9 DEF WorkerStep

(* The same for the client: Fresh says that the last Start was within the  *)
(* bound.                                                                  *)
LEMMA NumbersClient ==
  ASSUME NumbersOK, Fresh, ClientStep
  PROVE  NumbersOK'
<1> USE BoundsAssumption DEF NumbersOK, Fresh
<1>1. CASE AddPath BY <1>1 DEF AddPath
<1>2. CASE ClientCheck BY <1>2 DEF ClientCheck
<1>3. CASE SetStop BY <1>3 DEF SetStop
<1>4. ASSUME NEW b \in BOOLEAN, Pause(b) PROVE NumbersOK'
  BY <1>4 DEF Pause
<1>5. CASE StartCall BY <1>5 DEF StartCall
<1>6. CASE ResetPromise BY <1>6 DEF ResetPromise
<1>7. CASE LaunchThread BY <1>7 DEF LaunchThread
<1>8. CASE SeeStarted BY <1>8 DEF SeeStarted
<1>9. ASSUME NEW o \in {"stop", "clear", "destroy"}, StopEarly(o)
      PROVE  NumbersOK'
  BY <1>9 DEF StopEarly, AfterStop
<1>10. ASSUME NEW o \in {"stop", "clear", "destroy"}, StopCall(o)
      PROVE  NumbersOK'
  BY <1>10 DEF StopCall
<1>11. CASE StopFlags BY <1>11 DEF StopFlags
<1>12. CASE WaitReady BY <1>12 DEF WaitReady, AfterStop
<1>13. CASE WaitTimeout BY <1>13 DEF WaitTimeout, AfterStop
<1>14. CASE WaitInvalid BY <1>14 DEF WaitInvalid
<1>15. QED
  BY <1>1, <1>2, <1>3, <1>4, <1>5, <1>6, <1>7, <1>8, <1>9, <1>10, <1>11,
     <1>12, <1>13, <1>14 DEF ClientStep

(* Program counters stay in their sets.                                    *)
LEMMA PlacesWorker ==
  ASSUME PlacesOK, NEW w \in Worker,
         WorkerStep(w) \/ CallbackSetStop(w)
  PROVE  PlacesOK'
<1> USE DEF PlacesOK, Starting, Looping, Closing
<1>1. CASE SetWatching(w) BY <1>1 DEF SetWatching, Move
<1>2. CASE ClearStop(w) BY <1>2 DEF ClearStop, Move
<1>3. CASE ClearPause(w) BY <1>3 DEF ClearPause, Move
<1>4. CASE Pass(w) BY <1>4 DEF Pass, Move
<1>5. CASE LoopTest(w) BY <1>5 DEF LoopTest, Move
<1>6. CASE Check(w) BY <1>6 DEF Check, Move
<1>7. CASE ClearWatching(w) BY <1>7 DEF ClearWatching, Move
<1>8. CASE KeepPromise(w) BY <1>8 DEF KeepPromise, Move
<1>9. CASE CallbackSetStop(w) BY <1>9 DEF CallbackSetStop
<1>10. QED
  BY <1>1, <1>2, <1>3, <1>4, <1>5, <1>6, <1>7, <1>8, <1>9 DEF WorkerStep

(* The same for the client.                                                *)
LEMMA PlacesClient ==
  ASSUME PlacesOK, ClientStep
  PROVE  PlacesOK'
<1> USE DEF PlacesOK, Starting, Looping, Closing
<1>1. CASE AddPath BY <1>1 DEF AddPath
<1>2. CASE ClientCheck BY <1>2 DEF ClientCheck
<1>3. CASE SetStop BY <1>3 DEF SetStop
<1>4. ASSUME NEW b \in BOOLEAN, Pause(b) PROVE PlacesOK'
  BY <1>4 DEF Pause
<1>5. CASE StartCall BY <1>5 DEF StartCall
<1>6. CASE ResetPromise BY <1>6 DEF ResetPromise
<1>7. CASE LaunchThread BY <1>7 DEF LaunchThread
<1>8. CASE SeeStarted BY <1>8 DEF SeeStarted
<1>9. ASSUME NEW o \in {"stop", "clear", "destroy"}, StopEarly(o)
      PROVE  PlacesOK'
  BY <1>9 DEF StopEarly, AfterStop
<1>10. ASSUME NEW o \in {"stop", "clear", "destroy"}, StopCall(o)
      PROVE  PlacesOK'
  BY <1>10 DEF StopCall
<1>11. CASE StopFlags BY <1>11 DEF StopFlags
<1>12. CASE WaitReady BY <1>12 DEF WaitReady, AfterStop
<1>13. CASE WaitTimeout BY <1>13 DEF WaitTimeout, AfterStop
<1>14. CASE WaitInvalid BY <1>14 DEF WaitInvalid
<1>15. QED
  BY <1>1, <1>2, <1>3, <1>4, <1>5, <1>6, <1>7, <1>8, <1>9, <1>10, <1>11,
     <1>12, <1>13, <1>14 DEF ClientStep

(* A worker that moves was launched before.                                *)
LEMMA FreshWorker ==
  ASSUME PlacesOK, Fresh, NEW w \in Worker,
         WorkerStep(w) \/ CallbackSetStop(w)
  PROVE  Fresh'
<1> USE DEF PlacesOK, Fresh
<1>1. CASE SetWatching(w) BY <1>1 DEF SetWatching, Move
<1>2. CASE ClearStop(w) BY <1>2 DEF ClearStop, Move
<1>3. CASE ClearPause(w) BY <1>3 DEF ClearPause, Move
<1>4. CASE Pass(w) BY <1>4 DEF Pass, Move
<1>5. CASE LoopTest(w) BY <1>5 DEF LoopTest, Move
<1>6. CASE Check(w) BY <1>6 DEF Check, Move
<1>7. CASE ClearWatching(w) BY <1>7 DEF ClearWatching, Move
<1>8. CASE KeepPromise(w) BY <1>8 DEF KeepPromise, Move
<1>9. CASE CallbackSetStop(w) BY <1>9 DEF CallbackSetStop
<1>10. QED
  BY <1>1, <1>2, <1>3, <1>4, <1>5, <1>6, <1>7, <1>8, <1>9 DEF WorkerStep

(* ResetPromise names the next worker and LaunchThread launches it.        *)
LEMMA FreshClient ==
  ASSUME TypeOK, Fresh, ClientStep
  PROVE  Fresh'
<1> USE BoundsAssumption DEF TypeOK, NumbersOK, PlacesOK, Fresh, Worker,
          MayStart
<1>1. CASE AddPath BY <1>1 DEF AddPath
<1>2. CASE ClientCheck BY <1>2 DEF ClientCheck
<1>3. CASE SetStop BY <1>3 DEF SetStop
<1>4. ASSUME NEW b \in BOOLEAN, Pause(b) PROVE Fresh'
  BY <1>4 DEF Pause
<1>5. CASE StartCall BY <1>5 DEF StartCall
<1>6. CASE ResetPromise BY <1>6 DEF ResetPromise
<1>7. CASE LaunchThread BY <1>7 DEF LaunchThread
<1>8. CASE SeeStarted BY <1>8 DEF SeeStarted
<1>9. ASSUME NEW o \in {"stop", "clear", "destroy"}, StopEarly(o)
      PROVE  Fresh'
  BY <1>9 DEF StopEarly, AfterStop
<1>10. ASSUME NEW o \in {"stop", "clear", "destroy"}, StopCall(o)
      PROVE  Fresh'
  BY <1>10 DEF StopCall
<1>11. CASE StopFlags BY <1>11 DEF StopFlags
<1>12. CASE WaitReady BY <1>12 DEF WaitReady, AfterStop
<1>13. CASE WaitTimeout BY <1>13 DEF WaitTimeout, AfterStop
<1>14. CASE WaitInvalid BY <1>14 DEF WaitInvalid
<1>15. QED
  BY <1>1, <1>2, <1>3, <1>4, <1>5, <1>6, <1>7, <1>8, <1>9, <1>10, <1>11,
     <1>12, <1>13, <1>14 DEF ClientStep

LEMMA TypeStep == TypeInv /\ [Next]_vars => TypeInv'
<1> SUFFICES ASSUME TypeInv, [Next]_vars PROVE TypeInv' OBVIOUS
<1> USE DEF TypeInv, TypeOK
<1>1. CASE ClientStep
  BY <1>1, FlagsClient, NumbersClient, PlacesClient, FreshClient
<1>2. ASSUME NEW w \in Worker, WorkerStep(w) \/ CallbackSetStop(w)
      PROVE  TypeInv'
  BY <1>2, FlagsWorker, NumbersWorker, PlacesWorker, FreshWorker
<1>3. CASE UNCHANGED vars
  <2>1. FlagsOK' BY <1>3 DEF vars, FlagsOK
  <2>2. NumbersOK' BY <1>3 DEF vars, NumbersOK
  <2>3. PlacesOK' BY <1>3 DEF vars, PlacesOK
  <2>4. Fresh' BY <1>3 DEF vars, Fresh
  <2>5. QED BY <2>1, <2>2, <2>3, <2>4
<1>4. QED BY <1>1, <1>2, <1>3 DEF Next, Finished

(* Every variable keeps to its type, and no worker moves before it is      *)
(* launched, for every client and every bound.                             *)
THEOREM TypeCorrect == Spec => []TypeOK
<1>1. Spec => []TypeInv BY TypeInit, TypeStep, PTL DEF Spec
<1>2. TypeInv => TypeOK BY DEF TypeInv
<1>3. QED BY <1>1, <1>2, PTL

-----------------------------------------------------------------------------
(* Stopping and Watching, for every client.                                *)

(* No worker touches Stopping.                                             *)
LEMMA StoppingWorker ==
  ASSUME StoppingInv, NEW w \in Worker,
         WorkerStep(w) \/ CallbackSetStop(w)
  PROVE  StoppingInv'
<1> USE DEF StoppingInv
<1>1. CASE SetWatching(w) BY <1>1 DEF SetWatching
<1>2. CASE ClearStop(w) BY <1>2 DEF ClearStop
<1>3. CASE ClearPause(w) BY <1>3 DEF ClearPause
<1>4. CASE Pass(w) BY <1>4 DEF Pass
<1>5. CASE LoopTest(w) BY <1>5 DEF LoopTest
<1>6. CASE Check(w) BY <1>6 DEF Check
<1>7. CASE ClearWatching(w) BY <1>7 DEF ClearWatching
<1>8. CASE KeepPromise(w) BY <1>8 DEF KeepPromise
<1>9. CASE CallbackSetStop(w) BY <1>9 DEF CallbackSetStop
<1>10. QED
  BY <1>1, <1>2, <1>3, <1>4, <1>5, <1>6, <1>7, <1>8, <1>9 DEF WorkerStep

(* Stopping is set when the wait begins and survives only a timeout.       *)
LEMMA StoppingClient ==
  ASSUME FlagsOK, StoppingInv, ClientStep
  PROVE  StoppingInv'
<1> USE DEF StoppingInv, FlagsOK, Idle, NothingToStop
<1>1. CASE AddPath BY <1>1 DEF AddPath
<1>2. CASE ClientCheck BY <1>2 DEF ClientCheck
<1>3. CASE SetStop BY <1>3 DEF SetStop
<1>4. ASSUME NEW b \in BOOLEAN, Pause(b) PROVE StoppingInv'
  BY <1>4 DEF Pause
<1>5. CASE StartCall BY <1>5 DEF StartCall
<1>6. CASE ResetPromise BY <1>6 DEF ResetPromise
<1>7. CASE LaunchThread BY <1>7 DEF LaunchThread
<1>8. CASE SeeStarted BY <1>8 DEF SeeStarted
<1>9. ASSUME NEW o \in {"stop", "clear", "destroy"}, StopEarly(o)
      PROVE  StoppingInv'
  BY <1>9 DEF StopEarly, AfterStop
<1>10. ASSUME NEW o \in {"stop", "clear", "destroy"}, StopCall(o)
      PROVE  StoppingInv'
  BY <1>10 DEF StopCall
<1>11. CASE StopFlags BY <1>11 DEF StopFlags
<1>12. CASE WaitReady BY <1>12 DEF WaitReady, AfterStop
<1>13. CASE WaitTimeout BY <1>13 DEF WaitTimeout, AfterStop
<1>14. CASE WaitInvalid BY <1>14 DEF WaitInvalid
<1>15. QED
  BY <1>1, <1>2, <1>3, <1>4, <1>5, <1>6, <1>7, <1>8, <1>9, <1>10, <1>11,
     <1>12, <1>13, <1>14 DEF ClientStep

LEMMA StoppingStep == TypeInv /\ StoppingInv /\ [Next]_vars => StoppingInv'
<1> SUFFICES ASSUME TypeInv, StoppingInv, [Next]_vars PROVE StoppingInv'
  OBVIOUS
<1>1. CASE ClientStep
  BY <1>1, StoppingClient DEF TypeInv, TypeOK
<1>2. ASSUME NEW w \in Worker, WorkerStep(w) \/ CallbackSetStop(w)
      PROVE  StoppingInv'
  BY <1>2, StoppingWorker
<1>3. CASE UNCHANGED vars BY <1>3 DEF vars, StoppingInv
<1>4. QED BY <1>1, <1>2, <1>3 DEF Next, Finished

(* A watcher between calls refuses a Start on account of Stopping only if  *)
(* a wait once timed out: whatever the client does, SetStopAndWait clears  *)
(* Stopping on every other way out.                                        *)
THEOREM Restartable == Spec => []RestartableUnlessTimedOut
<1>1. Init => StoppingInv BY DEF Init, StoppingInv
<1>2. Spec => []StoppingInv
  BY <1>1, TypeInit, TypeStep, StoppingStep, PTL DEF Spec
<1>3. StoppingInv => RestartableUnlessTimedOut
  BY DEF StoppingInv, RestartableUnlessTimedOut, Idle
<1>4. QED BY <1>2, <1>3, PTL

(* Only the worker that stores Watching = false leaves the announced part. *)
LEMMA AnnouncedWorker ==
  ASSUME PlacesOK, AnnouncedInv, NEW w \in Worker,
         WorkerStep(w) \/ CallbackSetStop(w)
  PROVE  AnnouncedInv'
<1> USE DEF PlacesOK, AnnouncedInv, Announced, Looping
<1>1. CASE SetWatching(w) BY <1>1 DEF SetWatching, Move
<1>2. CASE ClearStop(w) BY <1>2 DEF ClearStop, Move
<1>3. CASE ClearPause(w) BY <1>3 DEF ClearPause, Move
<1>4. CASE Pass(w) BY <1>4 DEF Pass, Move
<1>5. CASE LoopTest(w) BY <1>5 DEF LoopTest, Move
<1>6. CASE Check(w) BY <1>6 DEF Check, Move
<1>7. CASE ClearWatching(w) BY <1>7 DEF ClearWatching, Move
<1>8. CASE KeepPromise(w) BY <1>8 DEF KeepPromise, Move
<1>9. CASE CallbackSetStop(w) BY <1>9 DEF CallbackSetStop
<1>10. QED
  BY <1>1, <1>2, <1>3, <1>4, <1>5, <1>6, <1>7, <1>8, <1>9 DEF WorkerStep

(* The client moves no worker but the one it launches, which is Fresh.     *)
LEMMA AnnouncedClient ==
  ASSUME PlacesOK, Fresh, AnnouncedInv, ClientStep
  PROVE  AnnouncedInv'
<1> USE DEF PlacesOK, Fresh, AnnouncedInv, Announced, Looping
<1>1. CASE AddPath BY <1>1 DEF AddPath
<1>2. CASE ClientCheck BY <1>2 DEF ClientCheck
<1>3. CASE SetStop BY <1>3 DEF SetStop
<1>4. ASSUME NEW b \in BOOLEAN, Pause(b) PROVE AnnouncedInv'
  BY <1>4 DEF Pause
<1>5. CASE StartCall BY <1>5 DEF StartCall
<1>6. CASE ResetPromise BY <1>6 DEF ResetPromise
<1>7. CASE LaunchThread BY <1>7 DEF LaunchThread
<1>8. CASE SeeStarted BY <1>8 DEF SeeStarted
<1>9. ASSUME NEW o \in {"stop", "clear", "destroy"}, StopEarly(o)
      PROVE  AnnouncedInv'
  BY <1>9 DEF StopEarly, AfterStop
<1>10. ASSUME NEW o \in {"stop", "clear", "destroy"}, StopCall(o)
      PROVE  AnnouncedInv'
  BY <1>10 DEF StopCall
<1>11. CASE StopFlags BY <1>11 DEF StopFlags
<1>12. CASE WaitReady BY <1>12 DEF WaitReady, AfterStop
<1>13. CASE WaitTimeout BY <1>13 DEF WaitTimeout, AfterStop
<1>14. CASE WaitInvalid BY <1>14 DEF WaitInvalid
<1>15. QED
  BY <1>1, <1>2, <1>3, <1>4, <1>5, <1>6, <1>7, <1>8, <1>9, <1>10, <1>11,
     <1>12, <1>13, <1>14 DEF ClientStep

LEMMA AnnouncedStep ==
  TypeInv /\ AnnouncedInv /\ [Next]_vars => AnnouncedInv'
<1> SUFFICES ASSUME TypeInv, AnnouncedInv, [Next]_vars PROVE AnnouncedInv'
  OBVIOUS
<1>1. CASE ClientStep
  BY <1>1, AnnouncedClient DEF TypeInv, TypeOK
<1>2. ASSUME NEW w \in Worker, WorkerStep(w) \/ CallbackSetStop(w)
      PROVE  AnnouncedInv'
  BY <1>2, AnnouncedWorker DEF TypeInv, TypeOK
<1>3. CASE UNCHANGED vars BY <1>3 DEF vars, AnnouncedInv
<1>4. QED BY <1>1, <1>2, <1>3 DEF Next, Finished

(* A worker keeps the promise once, in its last lines.                     *)
LEMMA FutureWorker ==
  ASSUME TypeOK, FutureInv, NEW w \in Worker,
         WorkerStep(w) \/ CallbackSetStop(w)
  PROVE  FutureInv'
<1> USE DEF TypeOK, NumbersOK, PlacesOK, FutureInv, PromiseSet
<1>1. CASE SetWatching(w) BY <1>1 DEF SetWatching, Move
<1>2. CASE ClearStop(w) BY <1>2 DEF ClearStop, Move
<1>3. CASE ClearPause(w) BY <1>3 DEF ClearPause, Move
<1>4. CASE Pass(w) BY <1>4 DEF Pass, Move
<1>5. CASE LoopTest(w) BY <1>5 DEF LoopTest, Move
<1>6. CASE Check(w) BY <1>6 DEF Check, Move
<1>7. CASE ClearWatching(w) BY <1>7 DEF ClearWatching, Move
<1>8. CASE KeepPromise(w) BY <1>8 DEF KeepPromise, Move
<1>9. CASE CallbackSetStop(w) BY <1>9 DEF CallbackSetStop
<1>10. QED
  BY <1>1, <1>2, <1>3, <1>4, <1>5, <1>6, <1>7, <1>8, <1>9 DEF WorkerStep

(* Only the wait for a kept promise uses its future up.                    *)
LEMMA FutureClient ==
  ASSUME TypeOK, Fresh, FutureInv, ClientStep
  PROVE  FutureInv'
<1> USE DEF TypeOK, NumbersOK, PlacesOK, Fresh, FutureInv, PromiseSet
<1>1. CASE AddPath BY <1>1 DEF AddPath
<1>2. CASE ClientCheck BY <1>2 DEF ClientCheck
<1>3. CASE SetStop BY <1>3 DEF SetStop
<1>4. ASSUME NEW b \in BOOLEAN, Pause(b) PROVE FutureInv'
  BY <1>4 DEF Pause
<1>5. CASE StartCall BY <1>5 DEF StartCall
<1>6. CASE ResetPromise BY <1>6 DEF ResetPromise
<1>7. CASE LaunchThread BY <1>7 DEF LaunchThread
<1>8. CASE SeeStarted BY <1>8 DEF SeeStarted
<1>9. ASSUME NEW o \in {"stop", "clear", "destroy"}, StopEarly(o)
      PROVE  FutureInv'
  BY <1>9 DEF StopEarly, AfterStop
<1>10. ASSUME NEW o \in {"stop", "clear", "destroy"}, StopCall(o)
      PROVE  FutureInv'
  BY <1>10 DEF StopCall
<1>11. CASE StopFlags BY <1>11 DEF StopFlags
<1>12. CASE WaitReady BY <1>12 DEF WaitReady, AfterStop, FutureReady
<1>13. CASE WaitTimeout BY <1>13 DEF WaitTimeout, AfterStop
<1>14. CASE WaitInvalid BY <1>14 DEF WaitInvalid
<1>15. QED
  BY <1>1, <1>2, <1>3, <1>4, <1>5, <1>6, <1>7, <1>8, <1>9, <1>10, <1>11,
     <1>12, <1>13, <1>14 DEF ClientStep

LEMMA FutureStep == TypeInv /\ FutureInv /\ [Next]_vars => FutureInv'
<1> SUFFICES ASSUME TypeInv, FutureInv, [Next]_vars PROVE FutureInv'
  OBVIOUS
<1>1. CASE ClientStep
  BY <1>1, FutureClient DEF TypeInv
<1>2. ASSUME NEW w \in Worker, WorkerStep(w) \/ CallbackSetStop(w)
      PROVE  FutureInv'
  BY <1>2, FutureWorker DEF TypeInv
<1>3. CASE UNCHANGED vars BY <1>3 DEF vars, FutureInv, PromiseSet
<1>4. QED BY <1>1, <1>2, <1>3 DEF Next, Finished

(* IsWatching is never true without a thread that uses the object, even    *)
(* for a client that starts several; and a thread that shares its promise  *)
(* with no other can be stopped and waited for.                            *)
THEOREM WatchingIsLive == Spec => []WatchingMeansLive
<1>1. Init => AnnouncedInv /\ FutureInv
  BY DEF Init, AnnouncedInv, FutureInv, PromiseSet
<1>2. Spec => [](TypeInv /\ AnnouncedInv /\ FutureInv)
  BY <1>1, TypeInit, TypeStep, AnnouncedStep, FutureStep, PTL DEF Spec
<1>3. TypeInv /\ AnnouncedInv /\ FutureInv => WatchingMeansLive
  <2> SUFFICES ASSUME TypeInv, AnnouncedInv, FutureInv, Watching
               PROVE  /\ \E w \in Worker : Live(w)
                      /\ Idle /\ OwnPromises =>
                           valid /\ Live(promise) /\ ~PromiseSet
    BY DEF WatchingMeansLive
  <2>1. PICK w \in Worker : pc[w] \in Announced BY DEF AnnouncedInv
  <2>2. Live(w)
    BY <2>1 DEF Live, Announced, Starting, Looping, Closing
  <2>3. kept[w] = 0
    BY <2>1 DEF FutureInv, Announced, Looping
  <2>4. ASSUME OwnPromises PROVE valid /\ Live(promise) /\ ~PromiseSet
    <3>1. w = promise BY <2>2, <2>3, <2>4 DEF OwnPromises, Running
    <3>2. promise # 0 BY <3>1 DEF Worker
    <3>3. ~PromiseSet BY <2>3, <2>4, <3>1, <3>2 DEF OwnPromises, PromiseSet
    <3>4. QED BY <2>2, <3>1, <3>2, <3>3 DEF FutureInv
  <2>5. QED BY <2>2, <2>4
<1>4. QED BY <1>2, <1>3, PTL

-----------------------------------------------------------------------------
(* The careful client.                                                     *)

(* No worker but the last one moves.                                       *)
LEMMA OthersWorker ==
  ASSUME Careful, CarefulInv, NEW w \in Worker,
         WorkerStep(w) \/ CallbackSetStop(w)
  PROVE  OthersGone'
<1> USE DEF Careful, CarefulInv, TypeInv, TypeOK, NumbersOK, PlacesOK, Fresh,
          OthersGone
<1>1. CASE SetWatching(w) BY <1>1 DEF SetWatching, Move
<1>2. CASE ClearStop(w) BY <1>2 DEF ClearStop, Move
<1>3. CASE ClearPause(w) BY <1>3 DEF ClearPause, Move
<1>4. CASE Pass(w) BY <1>4 DEF Pass, Move
<1>5. CASE LoopTest(w) BY <1>5 DEF LoopTest, Move
<1>6. CASE Check(w) BY <1>6 DEF Check, Move
<1>7. CASE ClearWatching(w) BY <1>7 DEF ClearWatching, Move
<1>8. CASE KeepPromise(w) BY <1>8 DEF KeepPromise, Move
<1>9. CASE CallbackSetStop(w) BY <1>9 DEF CallbackSetStop
<1>10. QED
  BY <1>1, <1>2, <1>3, <1>4, <1>5, <1>6, <1>7, <1>8, <1>9 DEF WorkerStep

(* A Start finds every worker gone.                                        *)
LEMMA OthersClient ==
  ASSUME Careful, CarefulInv, ClientStep
  PROVE  OthersGone'
<1> USE DEF Careful, CarefulInv, TypeInv, TypeOK, NumbersOK, PlacesOK, Fresh,
          OthersGone, ClientPhase, Quiet, Idle, MayStart, Worker, Starting,
          Looping, Closing
<1>1. CASE AddPath BY <1>1 DEF AddPath
<1>2. CASE ClientCheck BY <1>2 DEF ClientCheck
<1>3. CASE SetStop BY <1>3 DEF SetStop
<1>4. ASSUME NEW b \in BOOLEAN, Pause(b) PROVE OthersGone'
  BY <1>4 DEF Pause
<1>5. CASE StartCall BY <1>5 DEF StartCall
<1>6. CASE ResetPromise BY <1>6 DEF ResetPromise
<1>7. CASE LaunchThread BY <1>7 DEF LaunchThread
<1>8. CASE SeeStarted BY <1>8 DEF SeeStarted
<1>9. ASSUME NEW o \in {"stop", "clear", "destroy"}, StopEarly(o)
      PROVE  OthersGone'
  BY <1>9 DEF StopEarly, AfterStop
<1>10. ASSUME NEW o \in {"stop", "clear", "destroy"}, StopCall(o)
      PROVE  OthersGone'
  BY <1>10 DEF StopCall
<1>11. CASE StopFlags BY <1>11 DEF StopFlags
<1>12. CASE WaitReady BY <1>12 DEF WaitReady, AfterStop
<1>13. CASE WaitTimeout BY <1>13 DEF WaitTimeout, AfterStop
<1>14. CASE WaitInvalid BY <1>14 DEF WaitInvalid
<1>15. QED
  BY <1>1, <1>2, <1>3, <1>4, <1>5, <1>6, <1>7, <1>8, <1>9, <1>10, <1>11,
     <1>12, <1>13, <1>14 DEF ClientStep

(* The last worker keeps the last promise.                                 *)
LEMMA KeptWorker ==
  ASSUME Careful, CarefulInv, NEW w \in Worker,
         WorkerStep(w) \/ CallbackSetStop(w)
  PROVE  KeptOwn'
<1> USE DEF Careful, CarefulInv, TypeInv, TypeOK, NumbersOK, PlacesOK, Fresh,
          OthersGone, KeptOwn, PromiseSet
<1>1. CASE SetWatching(w) BY <1>1 DEF SetWatching, Move
<1>2. CASE ClearStop(w) BY <1>2 DEF ClearStop, Move
<1>3. CASE ClearPause(w) BY <1>3 DEF ClearPause, Move
<1>4. CASE Pass(w) BY <1>4 DEF Pass, Move
<1>5. CASE LoopTest(w) BY <1>5 DEF LoopTest, Move
<1>6. CASE Check(w) BY <1>6 DEF Check, Move
<1>7. CASE ClearWatching(w) BY <1>7 DEF ClearWatching, Move
<1>8. CASE KeepPromise(w) BY <1>8 DEF KeepPromise, Move
<1>9. CASE CallbackSetStop(w) BY <1>9 DEF CallbackSetStop
<1>10. QED
  BY <1>1, <1>2, <1>3, <1>4, <1>5, <1>6, <1>7, <1>8, <1>9 DEF WorkerStep

(* The client moves only a worker that has kept nothing.                   *)
LEMMA KeptClient ==
  ASSUME Careful, CarefulInv, ClientStep
  PROVE  KeptOwn'
<1> USE DEF Careful, CarefulInv, TypeInv, TypeOK, NumbersOK, PlacesOK, Fresh,
          KeptOwn
<1>1. CASE AddPath BY <1>1 DEF AddPath
<1>2. CASE ClientCheck BY <1>2 DEF ClientCheck
<1>3. CASE SetStop BY <1>3 DEF SetStop
<1>4. ASSUME NEW b \in BOOLEAN, Pause(b) PROVE KeptOwn'
  BY <1>4 DEF Pause
<1>5. CASE StartCall BY <1>5 DEF StartCall
<1>6. CASE ResetPromise BY <1>6 DEF ResetPromise
<1>7. CASE LaunchThread BY <1>7 DEF LaunchThread
<1>8. CASE SeeStarted BY <1>8 DEF SeeStarted
<1>9. ASSUME NEW o \in {"stop", "clear", "destroy"}, StopEarly(o)
      PROVE  KeptOwn'
  BY <1>9 DEF StopEarly, AfterStop
<1>10. ASSUME NEW o \in {"stop", "clear", "destroy"}, StopCall(o)
      PROVE  KeptOwn'
  BY <1>10 DEF StopCall
<1>11. CASE StopFlags BY <1>11 DEF StopFlags
<1>12. CASE WaitReady BY <1>12 DEF WaitReady, AfterStop
<1>13. CASE WaitTimeout BY <1>13 DEF WaitTimeout, AfterStop
<1>14. CASE WaitInvalid BY <1>14 DEF WaitInvalid
<1>15. QED
  BY <1>1, <1>2, <1>3, <1>4, <1>5, <1>6, <1>7, <1>8, <1>9, <1>10, <1>11,
     <1>12, <1>13, <1>14 DEF ClientStep

(* Watching follows the last worker.                                       *)
LEMMA WatchingWorker ==
  ASSUME Careful, CarefulInv, NEW w \in Worker,
         WorkerStep(w) \/ CallbackSetStop(w)
  PROVE  WatchingInv'
<1> USE DEF Careful, CarefulInv, TypeInv, TypeOK, NumbersOK, PlacesOK, Fresh,
          OthersGone, WatchingInv, Announced, Looping
<1>1. CASE SetWatching(w) BY <1>1 DEF SetWatching, Move
<1>2. CASE ClearStop(w) BY <1>2 DEF ClearStop, Move
<1>3. CASE ClearPause(w) BY <1>3 DEF ClearPause, Move
<1>4. CASE Pass(w) BY <1>4 DEF Pass, Move
<1>5. CASE LoopTest(w) BY <1>5 DEF LoopTest, Move
<1>6. CASE Check(w) BY <1>6 DEF Check, Move
<1>7. CASE ClearWatching(w) BY <1>7 DEF ClearWatching, Move
<1>8. CASE KeepPromise(w) BY <1>8 DEF KeepPromise, Move
<1>9. CASE CallbackSetStop(w) BY <1>9 DEF CallbackSetStop
<1>10. QED
  BY <1>1, <1>2, <1>3, <1>4, <1>5, <1>6, <1>7, <1>8, <1>9 DEF WorkerStep

(* The client does not write Watching.                                     *)
LEMMA WatchingClient ==
  ASSUME Careful, CarefulInv, ClientStep
  PROVE  WatchingInv'
<1> USE DEF Careful, CarefulInv, TypeInv, TypeOK, NumbersOK, PlacesOK, Fresh,
          WatchingInv, Announced, Looping
<1>1. CASE AddPath BY <1>1 DEF AddPath
<1>2. CASE ClientCheck BY <1>2 DEF ClientCheck
<1>3. CASE SetStop BY <1>3 DEF SetStop
<1>4. ASSUME NEW b \in BOOLEAN, Pause(b) PROVE WatchingInv'
  BY <1>4 DEF Pause
<1>5. CASE StartCall BY <1>5 DEF StartCall
<1>6. CASE ResetPromise BY <1>6 DEF ResetPromise
<1>7. CASE LaunchThread BY <1>7 DEF LaunchThread
<1>8. CASE SeeStarted BY <1>8 DEF SeeStarted
<1>9. ASSUME NEW o \in {"stop", "clear", "destroy"}, StopEarly(o)
      PROVE  WatchingInv'
  BY <1>9 DEF StopEarly, AfterStop
<1>10. ASSUME NEW o \in {"stop", "clear", "destroy"}, StopCall(o)
      PROVE  WatchingInv'
  BY <1>10 DEF StopCall
<1>11. CASE StopFlags BY <1>11 DEF StopFlags
<1>12. CASE WaitReady BY <1>12 DEF WaitReady, AfterStop
<1>13. CASE WaitTimeout BY <1>13 DEF WaitTimeout, AfterStop
<1>14. CASE WaitInvalid BY <1>14 DEF WaitInvalid
<1>15. QED
  BY <1>1, <1>2, <1>3, <1>4, <1>5, <1>6, <1>7, <1>8, <1>9, <1>10, <1>11,
     <1>12, <1>13, <1>14 DEF ClientStep

(* A step of the worker keeps the client's view of it.                     *)
LEMMA PhaseWorker ==
  ASSUME Careful, CarefulInv, NEW w \in Worker,
         WorkerStep(w) \/ CallbackSetStop(w)
  PROVE  ClientPhase'
<1> USE DEF Careful, CarefulInv, TypeInv, TypeOK, NumbersOK, PlacesOK, Fresh,
          OthersGone, RequestInv, ClientPhase, Quiet, At, Worker, Starting,
          Looping, Closing
<1>1. CASE SetWatching(w) BY <1>1 DEF SetWatching, Move
<1>2. CASE ClearStop(w) BY <1>2 DEF ClearStop, Move
<1>3. CASE ClearPause(w) BY <1>3 DEF ClearPause, Move
<1>4. CASE Pass(w) BY <1>4 DEF Pass, Move
<1>5. CASE LoopTest(w) BY <1>5 DEF LoopTest, Move
<1>6. CASE Check(w) BY <1>6 DEF Check, Move
<1>7. CASE ClearWatching(w) BY <1>7 DEF ClearWatching, Move
<1>8. CASE KeepPromise(w) BY <1>8 DEF KeepPromise, Move
<1>9. CASE CallbackSetStop(w) BY <1>9 DEF CallbackSetStop
<1>10. QED
  BY <1>1, <1>2, <1>3, <1>4, <1>5, <1>6, <1>7, <1>8, <1>9 DEF WorkerStep

(* A call changes phase as the worker does what the call waits for.        *)
LEMMA PhaseClient ==
  ASSUME Careful, CarefulInv, ClientStep
  PROVE  ClientPhase'
<1> USE DEF Careful, CarefulInv, TypeInv, TypeOK, NumbersOK, PlacesOK, Fresh,
          OthersGone, KeptOwn, WatchingInv, Announced, ClientPhase, Quiet,
          At, Idle, MayEdit, NothingToStop, MayStart, FutureReady, Worker,
          Starting, Looping, Closing
<1>1. CASE AddPath BY <1>1 DEF AddPath
<1>2. CASE ClientCheck BY <1>2 DEF ClientCheck
<1>3. CASE SetStop BY <1>3 DEF SetStop
<1>4. ASSUME NEW b \in BOOLEAN, Pause(b) PROVE ClientPhase'
  BY <1>4 DEF Pause
<1>5. CASE StartCall BY <1>5 DEF StartCall
<1>6. CASE ResetPromise
  <2>1. /\ promise' = promise + 1 /\ promise' \in Worker /\ valid'
        /\ pc' = pc /\ Quiet /\ watches' = watches /\ watches > 0
    BY <1>6, BoundsAssumption DEF ResetPromise
  <2>2. pc'[promise'] = "none" BY <2>1
  <2>3. cpc' = "launching" /\ ~destroyed' /\ ~stopped'
    BY <1>6 DEF ResetPromise
  <2>4. QED BY <2>1, <2>2, <2>3
<1>7. CASE LaunchThread BY <1>7 DEF LaunchThread
<1>8. CASE SeeStarted BY <1>8 DEF SeeStarted
<1>9. ASSUME NEW o \in {"stop", "clear", "destroy"}, StopEarly(o)
      PROVE  ClientPhase'
  BY <1>9 DEF StopEarly, AfterStop
<1>10. ASSUME NEW o \in {"stop", "clear", "destroy"}, StopCall(o)
      PROVE  ClientPhase'
  BY <1>10 DEF StopCall
<1>11. CASE StopFlags BY <1>11 DEF StopFlags
<1>12. CASE WaitReady BY <1>12 DEF WaitReady, AfterStop
<1>13. CASE WaitTimeout BY <1>13 DEF WaitTimeout, AfterStop
<1>14. CASE WaitInvalid BY <1>14 DEF WaitInvalid
<1>15. QED
  BY <1>1, <1>2, <1>3, <1>4, <1>5, <1>6, <1>7, <1>8, <1>9, <1>10, <1>11,
     <1>12, <1>13, <1>14 DEF ClientStep

(* ClearStop erases the request of an earlier stop.                        *)
LEMMA RequestWorker ==
  ASSUME Careful, CarefulInv, NEW w \in Worker,
         WorkerStep(w) \/ CallbackSetStop(w)
  PROVE  RequestInv'
<1> USE DEF Careful, CarefulInv, TypeInv, TypeOK, NumbersOK, PlacesOK, Fresh,
          OthersGone, RequestInv, Looping, Starting, Closing
<1>1. CASE SetWatching(w) BY <1>1 DEF SetWatching, Move
<1>2. CASE ClearStop(w) BY <1>2 DEF ClearStop, Move
<1>3. CASE ClearPause(w) BY <1>3 DEF ClearPause, Move
<1>4. CASE Pass(w) BY <1>4 DEF Pass, Move
<1>5. CASE LoopTest(w) BY <1>5 DEF LoopTest, Move
<1>6. CASE Check(w) BY <1>6 DEF Check, Move
<1>7. CASE ClearWatching(w) BY <1>7 DEF ClearWatching, Move
<1>8. CASE KeepPromise(w) BY <1>8 DEF KeepPromise, Move
<1>9. CASE CallbackSetStop(w) BY <1>9 DEF CallbackSetStop
<1>10. QED
  BY <1>1, <1>2, <1>3, <1>4, <1>5, <1>6, <1>7, <1>8, <1>9 DEF WorkerStep

(* A request is made only for a wait, which ends with the worker.          *)
LEMMA RequestClient ==
  ASSUME Careful, CarefulInv, ClientStep
  PROVE  RequestInv'
<1> USE DEF Careful, CarefulInv, TypeInv, TypeOK, NumbersOK, PlacesOK, Fresh,
          OthersGone, KeptOwn, RequestInv, ClientPhase, Quiet, At, Idle,
          MayStart, NothingToStop, FutureReady, Worker, Starting, Looping,
          Closing
<1>1. CASE AddPath BY <1>1 DEF AddPath
<1>2. CASE ClientCheck BY <1>2 DEF ClientCheck
<1>3. CASE SetStop BY <1>3 DEF SetStop
<1>4. ASSUME NEW b \in BOOLEAN, Pause(b) PROVE RequestInv'
  BY <1>4 DEF Pause
<1>5. CASE StartCall BY <1>5 DEF StartCall
<1>6. CASE ResetPromise BY <1>6 DEF ResetPromise
<1>7. CASE LaunchThread BY <1>7 DEF LaunchThread
<1>8. CASE SeeStarted BY <1>8 DEF SeeStarted
<1>9. ASSUME NEW o \in {"stop", "clear", "destroy"}, StopEarly(o)
      PROVE  RequestInv'
  BY <1>9 DEF StopEarly, AfterStop
<1>10. ASSUME NEW o \in {"stop", "clear", "destroy"}, StopCall(o)
      PROVE  RequestInv'
  BY <1>10 DEF StopCall
<1>11. CASE StopFlags BY <1>11 DEF StopFlags
<1>12. CASE WaitReady BY <1>12 DEF WaitReady, AfterStop
<1>13. CASE WaitTimeout BY <1>13 DEF WaitTimeout, AfterStop
<1>14. CASE WaitInvalid BY <1>14 DEF WaitInvalid
<1>15. QED
  BY <1>1, <1>2, <1>3, <1>4, <1>5, <1>6, <1>7, <1>8, <1>9, <1>10, <1>11,
     <1>12, <1>13, <1>14 DEF ClientStep

(* ClearPause runs while the client still waits for WATCH_STARTED.         *)
LEMMA PausedWorker ==
  ASSUME Careful, CarefulInv, NEW w \in Worker,
         WorkerStep(w) \/ CallbackSetStop(w)
  PROVE  PauseInv'
<1> USE DEF Careful, CarefulInv, TypeInv, TypeOK, NumbersOK, PlacesOK, Fresh,
          FlagsOK, OthersGone, ClientPhase, PauseInv, Quiet, At, Worker,
          Starting, Looping, Closing
<1>1. CASE SetWatching(w) BY <1>1 DEF SetWatching, Move
<1>2. CASE ClearStop(w) BY <1>2 DEF ClearStop, Move
<1>3. CASE ClearPause(w) BY <1>3 DEF ClearPause, Move
<1>4. CASE Pass(w) BY <1>4 DEF Pass, Move
<1>5. CASE LoopTest(w) BY <1>5 DEF LoopTest, Move
<1>6. CASE Check(w) BY <1>6 DEF Check, Move
<1>7. CASE ClearWatching(w) BY <1>7 DEF ClearWatching, Move
<1>8. CASE KeepPromise(w) BY <1>8 DEF KeepPromise, Move
<1>9. CASE CallbackSetStop(w) BY <1>9 DEF CallbackSetStop
<1>10. QED
  BY <1>1, <1>2, <1>3, <1>4, <1>5, <1>6, <1>7, <1>8, <1>9 DEF WorkerStep

(* Pause is called when the worker has cleared Paused.                     *)
LEMMA PausedClient ==
  ASSUME Careful, CarefulInv, ClientStep
  PROVE  PauseInv'
<1> USE DEF Careful, CarefulInv, TypeInv, TypeOK, NumbersOK, PlacesOK, Fresh,
          FlagsOK, ClientPhase, PauseInv, At, Idle, Worker, Starting,
          Looping, Closing
<1>1. CASE AddPath BY <1>1 DEF AddPath
<1>2. CASE ClientCheck BY <1>2 DEF ClientCheck
<1>3. CASE SetStop BY <1>3 DEF SetStop
<1>4. ASSUME NEW b \in BOOLEAN, Pause(b) PROVE PauseInv'
  BY <1>4 DEF Pause
<1>5. CASE StartCall BY <1>5 DEF StartCall
<1>6. CASE ResetPromise BY <1>6 DEF ResetPromise
<1>7. CASE LaunchThread BY <1>7 DEF LaunchThread
<1>8. CASE SeeStarted BY <1>8 DEF SeeStarted
<1>9. ASSUME NEW o \in {"stop", "clear", "destroy"}, StopEarly(o)
      PROVE  PauseInv'
  BY <1>9 DEF StopEarly, AfterStop
<1>10. ASSUME NEW o \in {"stop", "clear", "destroy"}, StopCall(o)
      PROVE  PauseInv'
  BY <1>10 DEF StopCall
<1>11. CASE StopFlags BY <1>11 DEF StopFlags
<1>12. CASE WaitReady BY <1>12 DEF WaitReady, AfterStop
<1>13. CASE WaitTimeout BY <1>13 DEF WaitTimeout, AfterStop
<1>14. CASE WaitInvalid BY <1>14 DEF WaitInvalid
<1>15. QED
  BY <1>1, <1>2, <1>3, <1>4, <1>5, <1>6, <1>7, <1>8, <1>9, <1>10, <1>11,
     <1>12, <1>13, <1>14 DEF ClientStep

(* The last promise is empty when its worker keeps it.                     *)
LEMMA NoErrorWorker ==
  ASSUME Careful, CarefulInv, NEW w \in Worker,
         WorkerStep(w) \/ CallbackSetStop(w)
  PROVE  ~terminated'
<1> USE DEF Careful, CarefulInv, TypeInv, TypeOK, NumbersOK, PlacesOK, Fresh,
          OthersGone, KeptOwn, PromiseSet, Worker
<1>1. CASE SetWatching(w) BY <1>1 DEF SetWatching, Move
<1>2. CASE ClearStop(w) BY <1>2 DEF ClearStop, Move
<1>3. CASE ClearPause(w) BY <1>3 DEF ClearPause, Move
<1>4. CASE Pass(w) BY <1>4 DEF Pass, Move
<1>5. CASE LoopTest(w) BY <1>5 DEF LoopTest, Move
<1>6. CASE Check(w) BY <1>6 DEF Check, Move
<1>7. CASE ClearWatching(w) BY <1>7 DEF ClearWatching, Move
<1>8. CASE KeepPromise(w) BY <1>8 DEF KeepPromise, Move
<1>9. CASE CallbackSetStop(w) BY <1>9 DEF CallbackSetStop
<1>10. QED
  BY <1>1, <1>2, <1>3, <1>4, <1>5, <1>6, <1>7, <1>8, <1>9 DEF WorkerStep

(* The future the client waits on is valid.                                *)
LEMMA NoErrorClient ==
  ASSUME Careful, CarefulInv, ClientStep
  PROVE  ~terminated'
<1> USE DEF Careful, CarefulInv, TypeInv, TypeOK, NumbersOK, PlacesOK, Fresh,
          ClientPhase, At, Idle
<1>1. CASE AddPath BY <1>1 DEF AddPath
<1>2. CASE ClientCheck BY <1>2 DEF ClientCheck
<1>3. CASE SetStop BY <1>3 DEF SetStop
<1>4. ASSUME NEW b \in BOOLEAN, Pause(b) PROVE ~terminated'
  BY <1>4 DEF Pause
<1>5. CASE StartCall BY <1>5 DEF StartCall
<1>6. CASE ResetPromise BY <1>6 DEF ResetPromise
<1>7. CASE LaunchThread BY <1>7 DEF LaunchThread
<1>8. CASE SeeStarted BY <1>8 DEF SeeStarted
<1>9. ASSUME NEW o \in {"stop", "clear", "destroy"}, StopEarly(o)
      PROVE  ~terminated'
  BY <1>9 DEF StopEarly, AfterStop
<1>10. ASSUME NEW o \in {"stop", "clear", "destroy"}, StopCall(o)
      PROVE  ~terminated'
  BY <1>10 DEF StopCall
<1>11. CASE StopFlags BY <1>11 DEF StopFlags
<1>12. CASE WaitReady BY <1>12 DEF WaitReady, AfterStop
<1>13. CASE WaitTimeout BY <1>13 DEF WaitTimeout, AfterStop
<1>14. CASE WaitInvalid BY <1>14 DEF WaitInvalid
<1>15. QED
  BY <1>1, <1>2, <1>3, <1>4, <1>5, <1>6, <1>7, <1>8, <1>9, <1>10, <1>11,
     <1>12, <1>13, <1>14 DEF ClientStep

(* No worker writes Stopping.                                              *)
LEMMA WaitWorker ==
  ASSUME Careful, CarefulInv, NEW w \in Worker,
         WorkerStep(w) \/ CallbackSetStop(w)
  PROVE  (Stopping => cpc = "waiting")'
<1> USE DEF CarefulInv
<1>1. CASE SetWatching(w) BY <1>1 DEF SetWatching, Move
<1>2. CASE ClearStop(w) BY <1>2 DEF ClearStop, Move
<1>3. CASE ClearPause(w) BY <1>3 DEF ClearPause, Move
<1>4. CASE Pass(w) BY <1>4 DEF Pass, Move
<1>5. CASE LoopTest(w) BY <1>5 DEF LoopTest, Move
<1>6. CASE Check(w) BY <1>6 DEF Check, Move
<1>7. CASE ClearWatching(w) BY <1>7 DEF ClearWatching, Move
<1>8. CASE KeepPromise(w) BY <1>8 DEF KeepPromise, Move
<1>9. CASE CallbackSetStop(w) BY <1>9 DEF CallbackSetStop
<1>10. QED
  BY <1>1, <1>2, <1>3, <1>4, <1>5, <1>6, <1>7, <1>8, <1>9 DEF WorkerStep

(* Only the wait itself finds Stopping set.                                *)
LEMMA WaitClient ==
  ASSUME Careful, CarefulInv, ClientStep
  PROVE  (Stopping => cpc = "waiting")'
<1> USE DEF Careful, CarefulInv, Idle
<1>1. CASE AddPath BY <1>1 DEF AddPath
<1>2. CASE ClientCheck BY <1>2 DEF ClientCheck
<1>3. CASE SetStop BY <1>3 DEF SetStop
<1>4. ASSUME NEW b \in BOOLEAN, Pause(b) PROVE (Stopping => cpc = "waiting")'
  BY <1>4 DEF Pause
<1>5. CASE StartCall BY <1>5 DEF StartCall
<1>6. CASE ResetPromise BY <1>6 DEF ResetPromise
<1>7. CASE LaunchThread BY <1>7 DEF LaunchThread
<1>8. CASE SeeStarted BY <1>8 DEF SeeStarted
<1>9. ASSUME NEW o \in {"stop", "clear", "destroy"}, StopEarly(o)
      PROVE  (Stopping => cpc = "waiting")'
  BY <1>9 DEF StopEarly, AfterStop
<1>10. ASSUME NEW o \in {"stop", "clear", "destroy"}, StopCall(o)
      PROVE  (Stopping => cpc = "waiting")'
  BY <1>10 DEF StopCall
<1>11. CASE StopFlags BY <1>11 DEF StopFlags
<1>12. CASE WaitReady BY <1>12 DEF WaitReady, AfterStop
<1>13. CASE WaitTimeout BY <1>13 DEF WaitTimeout, AfterStop
<1>14. CASE WaitInvalid BY <1>14 DEF WaitInvalid
<1>15. QED
  BY <1>1, <1>2, <1>3, <1>4, <1>5, <1>6, <1>7, <1>8, <1>9, <1>10, <1>11,
     <1>12, <1>13, <1>14 DEF ClientStep

LEMMA CarefulStep == Careful /\ CarefulInv /\ [Next]_vars => CarefulInv'
<1> SUFFICES ASSUME Careful, CarefulInv, [Next]_vars PROVE CarefulInv'
  OBVIOUS
<1>1. TypeInv' BY TypeStep DEF CarefulInv
<1>2. CASE ClientStep
  <2>1. OthersGone' /\ KeptOwn' /\ WatchingInv'
    BY <1>2, OthersClient, KeptClient, WatchingClient
  <2>2. ClientPhase' /\ RequestInv' /\ PauseInv'
    BY <1>2, PhaseClient, RequestClient, PausedClient
  <2>3. ~terminated' /\ (Stopping' => cpc' = "waiting")
    BY <1>2, NoErrorClient, WaitClient
  <2>4. QED BY <1>1, <2>1, <2>2, <2>3 DEF CarefulInv
<1>3. ASSUME NEW w \in Worker, WorkerStep(w) \/ CallbackSetStop(w)
      PROVE  CarefulInv'
  <2>1. OthersGone' /\ KeptOwn' /\ WatchingInv'
    BY <1>3, OthersWorker, KeptWorker, WatchingWorker
  <2>2. ClientPhase' /\ RequestInv' /\ PauseInv'
    BY <1>3, PhaseWorker, RequestWorker, PausedWorker
  <2>3. ~terminated' /\ (Stopping' => cpc' = "waiting")
    BY <1>3, NoErrorWorker, WaitWorker
  <2>4. QED BY <1>1, <2>1, <2>2, <2>3 DEF CarefulInv
<1>4. CASE UNCHANGED vars
  <2> USE <1>4 DEF vars
  <2>1. OthersGone' /\ KeptOwn' BY DEF CarefulInv, OthersGone, KeptOwn
  <2>2. WatchingInv' BY DEF CarefulInv, WatchingInv
  <2>3. ClientPhase' BY DEF CarefulInv, ClientPhase, Quiet, At
  <2>4. RequestInv' BY DEF CarefulInv, RequestInv
  <2>5. PauseInv' BY DEF CarefulInv, PauseInv, At
  <2>6. ~terminated' /\ (Stopping' => cpc' = "waiting") BY DEF CarefulInv
  <2>7. QED BY <1>1, <2>1, <2>2, <2>3, <2>4, <2>5, <2>6 DEF CarefulInv
<1>5. QED BY <1>2, <1>3, <1>4 DEF Next, Finished

LEMMA CarefulInit == Careful /\ Init => CarefulInv
<1> SUFFICES ASSUME Careful, Init PROVE CarefulInv OBVIOUS
<1> USE DEF Init
<1>1. TypeInv BY TypeInit
<1>2. OthersGone /\ KeptOwn BY DEF OthersGone, KeptOwn
<1>3. WatchingInv BY DEF WatchingInv, Announced, Looping
<1>4. ClientPhase BY DEF ClientPhase, Quiet
<1>5. RequestInv BY DEF RequestInv
<1>6. PauseInv BY DEF PauseInv
<1>7. ~terminated /\ (Stopping => cpc = "waiting") OBVIOUS
<1>8. QED BY <1>1, <1>2, <1>3, <1>4, <1>5, <1>6, <1>7 DEF CarefulInv

LEMMA CarefulInvariant == ASSUME Careful PROVE Spec => []CarefulInv
<1>1. Init => CarefulInv BY CarefulInit
<1>2. CarefulInv /\ [Next]_vars => CarefulInv' BY CarefulStep
<1>3. QED BY <1>1, <1>2, PTL DEF Spec

(* SetStopAndWait returns without an error only when the thread is gone.   *)
THEOREM StopIsFinal == ASSUME Careful PROVE Spec => []StopMeansStopped
<1>1. CarefulInv => StopMeansStopped
  BY DEF CarefulInv, ClientPhase, Quiet, StopMeansStopped, Running, Live,
         Starting, Looping, Closing
<1>2. QED BY <1>1, CarefulInvariant, PTL

(* No thread outlives the object it works on.                              *)
THEOREM DestroyIsSafe == ASSUME Careful PROVE Spec => []NoUseAfterDestroy
<1>1. CarefulInv => NoUseAfterDestroy
  BY DEF CarefulInv, ClientPhase, Quiet, NoUseAfterDestroy, Live, Starting,
         Looping, Closing
<1>2. QED BY <1>1, CarefulInvariant, PTL

(* However often the watcher is started, one thread uses it at a time.     *)
THEOREM OneWorker == ASSUME Careful PROVE Spec => []SingleWorker
<1>1. CarefulInv => SingleWorker
  BY DEF CarefulInv, OthersGone, SingleWorker, Live, Starting, Looping, Closing
<1>2. QED BY <1>1, CarefulInvariant, PTL

(* No promise is satisfied twice and no empty future is waited on: each    *)
(* worker keeps the promise of its own Start, and a wait finds it valid.   *)
THEOREM PromisesKept == ASSUME Careful PROVE Spec => []NoFutureError
<1>1. CarefulInv => NoFutureError BY DEF CarefulInv, NoFutureError
<1>2. QED BY <1>1, CarefulInvariant, PTL

(* What the client last asked of Pause is what the worker reads.           *)
THEOREM PauseIsKept == ASSUME Careful PROVE Spec => []PauseKept
<1>1. CarefulInv => PauseKept BY DEF CarefulInv, PauseInv, PauseKept, Idle
<1>2. QED BY <1>1, CarefulInvariant, PTL

(* Between calls IsWatching tells whether the thread runs.                 *)
THEOREM IsWatchingIsTrue == ASSUME Careful PROVE Spec => []IsWatchingTruthful
<1>1. ASSUME CarefulInv PROVE IsWatchingTruthful
  <2>1. ASSUME NEW w \in Worker, pc[w] \in Announced PROVE Running(w)
    BY <2>1 DEF Announced, Running, Live, Starting, Looping, Closing
  <2>2. ASSUME Idle, NEW w \in Worker, Running(w)
        PROVE  pc[w] \in Announced
    BY <1>1, <2>2 DEF CarefulInv, OthersGone, ClientPhase, Quiet, At, Idle,
       Announced, Running, Live, Starting, Looping, Closing
  <2>3. QED
    BY <1>1, <2>1, <2>2 DEF CarefulInv, WatchingInv, IsWatchingTruthful
<1>2. QED BY <1>1, CarefulInvariant, PTL

-----------------------------------------------------------------------------
(* The refinement.                                                         *)

Serving == \E w \in Worker : Live(w)

(* When the last worker is gone, no worker serves.                         *)
LEMMA QuietServing == Quiet => ~Serving
  BY DEF Quiet, Serving, Live, Starting, Looping, Closing

(* Between calls of the careful client a watcher that is not Watching is   *)
(* quiet.                                                                  *)
LEMMA IdleQuiet == CarefulInv /\ Idle /\ NothingToStop => Quiet /\ ~Serving
<1> SUFFICES ASSUME CarefulInv, Idle, NothingToStop PROVE Quiet
  BY QuietServing
<1>1. ~Watching BY DEF CarefulInv, Idle, NothingToStop
<1>2. ~At(Looping) BY <1>1 DEF CarefulInv, WatchingInv, At, Announced
<1>3. QED BY <1>2 DEF CarefulInv, ClientPhase, Idle

(* The wait of SetStopAndWait ends when the last worker has returned.      *)
LEMMA ReadyQuiet == CarefulInv /\ FutureReady => Quiet
<1> SUFFICES ASSUME CarefulInv, FutureReady PROVE Quiet OBVIOUS
<1>1. PICK w \in Worker : kept[w] = promise /\ pc[w] = "done"
  BY DEF FutureReady
<1>2. w = promise BY <1>1 DEF CarefulInv, KeptOwn
<1>3. QED BY <1>1, <1>2 DEF CarefulInv, OthersGone, Quiet

SStep == [Service!SNext]_(Service!svars)

(* A step of the worker is a stutter until it has made its last callback.  *)
LEMMA ServiceWorker ==
  ASSUME Careful, CarefulInv, NEW w \in Worker,
         WorkerStep(w) \/ CallbackSetStop(w)
  PROVE  SStep
<1> USE DEF SStep, Service!SNext, Service!svars
<1>1. watches' = watches /\ destroyed' = destroyed
  BY DEF WorkerStep, CallbackSetStop, SetWatching, ClearStop, ClearPause,
     Pass, LoopTest, Check, ClearWatching, KeepPromise
<1>2. CASE pc[w] = "ended" /\ pc' = [pc EXCEPT ![w] = "exit"]
  <2>1. \A v \in Worker : v # w => pc[v] \in {"none", "done"}
    BY <1>2 DEF CarefulInv, OthersGone
  <2>2. Serving
    BY <1>2 DEF Serving, Live, Closing
  <2>3. ~Serving'
    BY <1>2, <2>1 DEF CarefulInv, TypeInv, TypeOK, PlacesOK, Serving, Live,
       Starting, Looping, Closing
  <2>4. QED
    BY <1>1, <2>2, <2>3 DEF Service!Finish, Serving
<1>3. CASE pc' = pc \/ (pc[w] = "exit" /\ pc' = [pc EXCEPT ![w] = "done"])
  <2>1. Serving' <=> Serving
    BY <1>3 DEF CarefulInv, TypeInv, TypeOK, PlacesOK, Serving, Live, Starting,
       Looping, Closing
  <2>2. QED BY <1>1, <2>1 DEF Serving
<1>4. CASE /\ pc[w] \in Starting \cup Looping \cup {"ending", "keep"}
           /\ \E to \in Starting \cup Looping \cup Closing :
                pc' = [pc EXCEPT ![w] = to]
  <2>1. Serving BY <1>4 DEF Serving, Live, Closing
  <2>2. pc'[w] \in Starting \cup Looping \cup Closing
    BY <1>4 DEF CarefulInv, TypeInv, TypeOK, PlacesOK
  <2>3. Serving' BY <2>2 DEF Serving, Live
  <2>4. QED BY <1>1, <2>1, <2>3 DEF Serving
<1>5. QED
  BY <1>2, <1>3, <1>4 DEF WorkerStep, CallbackSetStop, SetWatching, ClearStop,
     ClearPause, Pass, LoopTest, Check, ClearWatching, KeepPromise, Move,
     Starting, Looping, Closing

(* What follows a stop is an edit, the destruction or nothing.             *)
LEMMA AfterStopServes ==
  ASSUME NEW o \in {"stop", "clear", "destroy"}, AfterStop(o, TRUE),
         ~Serving, ~Serving', ~destroyed, destroyed \in BOOLEAN
  PROVE  SStep
<1> USE DEF SStep, Service!SNext, Service!svars, AfterStop, Serving
<1>1. CASE o = "stop"
  <2>1. watches' = watches /\ destroyed' = FALSE BY <1>1
  <2>2. destroyed' = destroyed BY <2>1
  <2>3. QED BY <2>1, <2>2
<1>2. CASE o = "clear"
  <2>1. watches' = 0 /\ destroyed' = FALSE BY <1>2
  <2>2. destroyed' = destroyed BY <2>1
  <2>3. QED BY <2>1, <2>2 DEF Service!Edit
<1>3. CASE o = "destroy"
  <2>1. watches' = watches /\ destroyed' = TRUE BY <1>3
  <2>2. QED BY <2>1 DEF Service!Destroy
<1>4. QED BY <1>1, <1>2, <1>3

(* A call of the client edits the list, destroys the object or launches a  *)
(* worker only while no worker serves.                                     *)
LEMMA ServiceClient ==
  ASSUME Careful, CarefulInv, ClientStep
  PROVE  SStep
<1> USE DEF SStep, Service!SNext, Service!svars
<1>1. CASE AddPath
  <2>1. Idle /\ NothingToStop /\ watches \in Nat
    BY <1>1 DEF AddPath, Careful, MayEdit, NothingToStop, CarefulInv, TypeInv,
       TypeOK, NumbersOK
  <2>2. ~Serving /\ pc' = pc BY <1>1, <2>1, IdleQuiet DEF AddPath
  <2>3. ~Serving' BY <2>2 DEF Serving, Live
  <2>4. QED
    BY <1>1, <2>2, <2>3 DEF AddPath, Idle, Service!Edit, Serving
<1>2. CASE LaunchThread
  <2>1. ~Serving /\ promise \in Worker /\ watches > 0
    BY <1>2, QuietServing DEF LaunchThread, CarefulInv, ClientPhase, At
  <2>2. Serving'
    BY <1>2, <2>1 DEF LaunchThread, CarefulInv, TypeInv, TypeOK, PlacesOK,
       Serving, Live, Starting
  <2>3. ~destroyed
    BY <1>2 DEF LaunchThread, CarefulInv, ClientPhase
  <2>4. QED
    BY <1>2, <2>1, <2>2, <2>3 DEF LaunchThread, Service!Launch, Serving
<1>3. ASSUME NEW o \in {"stop", "clear", "destroy"}, StopEarly(o) PROVE SStep
  <2>1. ~Serving /\ pc' = pc BY <1>3, IdleQuiet DEF StopEarly
  <2>2. ~Serving' BY <2>1 DEF Serving, Live
  <2>3. AfterStop(o, TRUE) /\ ~destroyed BY <1>3 DEF StopEarly, Idle
  <2>4. destroyed \in BOOLEAN BY DEF CarefulInv, TypeInv, TypeOK, FlagsOK
  <2>5. QED BY <2>1, <2>2, <2>3, <2>4, AfterStopServes
<1>4. CASE WaitReady
  <2>1. ~Serving /\ pc' = pc /\ op \in {"stop", "clear", "destroy"}
    BY <1>4, ReadyQuiet, QuietServing DEF WaitReady, CarefulInv, TypeInv,
       TypeOK, PlacesOK
  <2>2. ~Serving' BY <2>1 DEF Serving, Live
  <2>3. AfterStop(op, TRUE) /\ ~destroyed
    BY <1>4 DEF WaitReady, CarefulInv, ClientPhase
  <2>4. destroyed \in BOOLEAN BY DEF CarefulInv, TypeInv, TypeOK, FlagsOK
  <2>5. QED BY <2>1, <2>2, <2>3, <2>4, AfterStopServes
<1>5. CASE UNCHANGED <<pc, watches, destroyed>>
  <2>1. Serving' <=> Serving BY <1>5 DEF Serving, Live
  <2>2. QED BY <1>5, <2>1 DEF Serving
<1>6. ~WaitTimeout BY DEF WaitTimeout, Careful
<1>7. QED
  BY <1>1, <1>2, <1>3, <1>4, <1>5, <1>6 DEF ClientStep, ClientCheck, SetStop,
     Pause, StartCall, ResetPromise, SeeStarted, StopCall, StopFlags,
     WaitInvalid

(* Driven by the careful client, the flags, the promise and the detached   *)
(* threads implement a WatchService.                                       *)
THEOREM ImplementsService == ASSUME Careful PROVE Spec => ServiceSpec
<1>1. Init => Service!SInit
  BY DEF Init, Service!SInit, Live, Starting, Looping, Closing
<1>2. ASSUME CarefulInv, [Next]_vars PROVE SStep
  <2>1. CASE UNCHANGED vars
    <3>1. Serving' <=> Serving BY <2>1 DEF vars, Serving, Live
    <3>2. QED BY <2>1, <3>1 DEF vars, SStep, Service!svars, Serving
  <2>2. QED
    BY <1>2, <2>1, ServiceWorker, ServiceClient DEF Next, Finished
<1>3. QED
  BY <1>1, <1>2, CarefulInvariant, PTL
  DEF Spec, ServiceSpec, Service!SSpec, SStep
=============================================================================
