-------------------------- MODULE DSyncWatcherProofs --------------------------
(***************************************************************************)
(* Proofs about DSyncWatcher for every number of starts and of pairs: the  *)
(* types and the callbacks for every client, the life cycle for one that   *)
(* has kept its discipline so far.                                         *)
(***************************************************************************)
EXTENDS DSyncWatcher, TLAPS

Quiet == \A w \in Worker : pc[w] \in {"none", "done"}
At(S) == promise \in Worker /\ valid /\ pc[promise] \in S
Announced == {"clearQuit", "started"} \cup Looping \cup {"ending"}

(* A worker that has not been launched is still where Init put it, and no  *)
(* call is under way once the destructor is through.                       *)
Fresh ==
  /\ \A w \in Worker : w > promise => pc[w] = "none"
  /\ cpc = "launching" => promise \in Worker /\ pc[promise] = "none"
  /\ cpc = "starting" => promise < MaxStarts
  /\ destroyed => cpc = "idle"

TypeInv == TypeOK /\ Fresh

(* What the callbacks have told, whoever calls Check.                      *)
ToldInv == \A i \in DOMAIN SyncList : Agrees(SyncList[i], told[i])

(* What the discipline gives, part by part.                                *)
OthersGone == \A w \in Worker : w # promise => pc[w] \in {"none", "done"}

KeptOwn ==
  \A w \in Worker :
    kept[w] = IF pc[w] \in {"ended", "exit", "done"} THEN w ELSE 0

WatchingInv == Watching <=> \E w \in Worker : pc[w] \in Announced

ClientPhase ==
  /\ cpc \in {"checking", "starting", "launching"} \/ destroyed \/ stopped
       => Quiet
  /\ cpc = "idle" => Quiet \/ At(Looping)
  /\ cpc = "launching" => At({"none"})
  /\ cpc = "awaitStarted" => At(Starting \cup Looping)
  /\ cpc = "stopping" => At(Looping)
  /\ cpc = "waiting" => At(Looping \cup Closing \cup {"exit", "done"})
  /\ cpc # "stop"
  /\ destroyed => cpc = "idle"
  /\ stopped => cpc \in {"idle", "checking"}
  /\ cpc \in {"starting", "launching"} => Len(SyncList) > 0

(* Outside a wait no request to stop is pending past ClearQuit.            *)
RequestInv ==
  NeedToQuit /\ cpc # "waiting" =>
    \A w \in Worker : pc[w] \in {"none", "spawned", "clearQuit", "done"}

WaitInv == ~terminated /\ ~timed /\ (Stopping => cpc = "waiting")

Kept ==
  /\ OthersGone /\ KeptOwn /\ WatchingInv /\ ClientPhase /\ RequestInv
  /\ WaitInv

IInv == TypeInv /\ ToldInv /\ (disciplined => Kept)

-----------------------------------------------------------------------------
(* The tuples the actions leave unchanged are expanded in every leaf.      *)
USE DEF flags, future, thread, client, list, history

LEMMA TypeInit == Init => TypeInv
<1> SUFFICES ASSUME Init PROVE TypeInv
    OBVIOUS
<1> USE BoundsAssumption DEF Init
<1>1. FlagsOK BY DEF FlagsOK
<1>2. ListOK BY DEF ListOK
<1>3. PlacesOK BY DEF PlacesOK
<1>4. Fresh BY DEF Fresh, Worker
<1> QED BY <1>1, <1>2, <1>3, <1>4 DEF TypeInv, TypeOK

(* The Boolean members and histories stay Boolean.                         *)
LEMMA FlagsWorker ==
  ASSUME FlagsOK, NEW w \in Worker,
         WorkerStep(w) \/ CallbackStop(w)
  PROVE  FlagsOK'
<1> USE DEF FlagsOK
<1>1. CASE SetWatching(w) BY <1>1 DEF SetWatching, Move
<1>2. CASE ClearQuit(w) BY <1>2 DEF ClearQuit, Move
<1>3. CASE Pass(w) BY <1>3 DEF Pass, Move
<1>4. CASE Check(w) BY <1>4 DEF Check, Move, CheckPair, CheckEnd
<1>5. CASE ClearWatching(w) BY <1>5 DEF ClearWatching, Move
<1>6. CASE KeepPromise(w) BY <1>6 DEF KeepPromise, Move
<1>7. CASE CallbackStop(w) BY <1>7 DEF CallbackStop
<1> QED BY <1>1, <1>2, <1>3, <1>4, <1>5, <1>6, <1>7 DEF WorkerStep

(* The same for the steps of the client.                                   *)
LEMMA FlagsClient ==
  ASSUME FlagsOK, ClientStep
  PROVE  FlagsOK'
<1> USE DEF FlagsOK, NothingToStop
<1>1. CASE AddSync BY <1>1 DEF AddSync
<1>2. CASE ClientCheck BY <1>2 DEF ClientCheck, CheckPair, CheckEnd
<1>3. CASE Stop BY <1>3 DEF Stop
<1>4. CASE StartCall BY <1>4 DEF StartCall
<1>5. CASE ResetPromise BY <1>5 DEF ResetPromise
<1>6. CASE LaunchThread BY <1>6 DEF LaunchThread
<1>7. CASE SeeStarted BY <1>7 DEF SeeStarted
<1>8. CASE StopFlags BY <1>8 DEF StopFlags
<1>9. CASE WaitReady BY <1>9 DEF WaitReady, AfterStop
<1>10. CASE WaitTimeout BY <1>10 DEF WaitTimeout, AfterStop
<1>11. CASE WaitInvalid BY <1>11 DEF WaitInvalid
<1>12. ASSUME NEW o \in {"stop", "clear", "destroy"}, StopEarly(o)
      PROVE  FlagsOK'
    BY <1>12 DEF StopEarly, AfterStop
<1>13. ASSUME NEW o \in {"stop", "clear", "destroy"}, NEW b \in BOOLEAN, StopCall(o, b)
      PROVE  FlagsOK'
    BY <1>13 DEF StopCall
<1> QED BY <1>1, <1>2, <1>3, <1>4, <1>5, <1>6, <1>7, <1>8, <1>9, <1>10,
       <1>11, <1>12, <1>13 DEF ClientStep

(* A pair stays a pair; its callback, or its silence, fits what it becomes *)
(* if what was told before fitted what it was.                             *)
LEMMA OutcomeOf ==
  ASSUME NEW p \in PairType, NEW a \in Outcomes(p)
  PROVE  /\ a.pair \in PairType
         /\ Notified(a.ret) \in Word /\ Agrees(a.pair, Notified(a.ret))
         /\ \A w \in Word :
              /\ Told(w, a.ret) \in Word
              /\ Agrees(p, w) => Agrees(a.pair, Told(w, a.ret))
<1>1. ASSUME NEW r \in BOOLEAN, NEW last, NEW status,
             a = Answer(p, r, last, status)
      PROVE  a.pair \in PairType /\ a.pair.ready = r /\ a.ret = status
    <2>1. PICK e \in BOOLEAN : e = (last \in Errors)
        <3>1. (last \in Errors) \in BOOLEAN
            OBVIOUS
        <3> QED BY <3>1, Zenon
    <2>2. a = [pair |-> [ready |-> r, same |-> p.same, erred |-> e], ret |-> status]
        BY <1>1, <2>1, Zenon DEF Answer
    <2> QED BY <2>2 DEF PairType
<1> DEFINE Fine ==
      /\ Notified(a.ret) \in Word /\ Agrees(a.pair, Notified(a.ret))
      /\ \A w \in Word : /\ Told(w, a.ret) \in Word
                         /\ Agrees(p, w) => Agrees(a.pair, Told(w, a.ret))
<1>2. CASE a = MissingAnswer(p)
    <2> DEFINE s == IF p.ready THEN "SYNC_ERR_FILE_NOT_FOUND"
                               ELSE "SYNC_NOT_READY"
    <2>1. a = Answer(p, FALSE, s, s) BY <1>2, Zenon DEF MissingAnswer, Plain
    <2>2. a.pair \in PairType /\ a.pair.ready = FALSE /\ a.ret = s
        BY <1>1, <2>1
    <2>3. CASE p.ready
        <3>1. a.ret = "SYNC_ERR_FILE_NOT_FOUND" BY <2>2, <2>3
        <3>2. Fine BY <2>2, <2>3, <3>1 DEF Told, Notified, Agrees, Word
        <3> QED BY <2>2, <3>2
    <2>4. CASE ~p.ready
        <3>1. a.ret = "SYNC_NOT_READY" BY <2>2, <2>4
        <3>2. Fine BY <2>2, <2>4, <3>1 DEF Told, Notified, Agrees, Word
        <3> QED BY <2>2, <3>2
    <2> QED BY <2>3, <2>4
<1>3. CASE a = Plain(p, FALSE, "SYNC_ERR_SAME_AS_DEST")
    <2>1. /\ a.pair \in PairType /\ a.pair.ready = FALSE
          /\ a.ret = "SYNC_ERR_SAME_AS_DEST"
        BY <1>1, <1>3, Zenon DEF Plain
    <2>2. Fine BY <2>1 DEF Told, Notified, Agrees, Word
    <2> QED BY <2>1, <2>2
<1>4. CASE a = Plain(p, TRUE, "SYNC_RESTORED")
    <2>1. /\ a.pair \in PairType /\ a.pair.ready = TRUE
          /\ a.ret = "SYNC_RESTORED"
        BY <1>1, <1>4, Zenon DEF Plain
    <2>2. Fine BY <2>1 DEF Told, Notified, Agrees, Word
    <2> QED BY <2>1, <2>2
<1>5. CASE a = CopyAnswer(p)
    <2>1. PICK s \in {"SYNC_RESTORED", "SYNC_DONE"} :
            a = Answer(p, TRUE, "SYNC_DONE", s)
        BY <1>5, Zenon DEF CopyAnswer
    <2>2. /\ a.pair \in PairType /\ a.pair.ready = TRUE
          /\ a.ret \in {"SYNC_RESTORED", "SYNC_DONE"}
        BY <1>1, <2>1
    <2>3. Fine BY <2>2 DEF Told, Notified, Agrees, Word
    <2> QED BY <2>2, <2>3
<1>6. ASSUME p.ready, NEW s \in {"SYNC_NO_NEEDED", "SYNC_ERR_COPY", "SYNC_ERR_BHO"},
             a = Plain(p, TRUE, s)
      PROVE  a.pair \in PairType /\ Fine
    <2>1. /\ a.pair \in PairType /\ a.pair.ready = TRUE
          /\ a.ret \in {"SYNC_NO_NEEDED", "SYNC_ERR_COPY", "SYNC_ERR_BHO"}
        BY <1>1, <1>6, Zenon DEF Plain
    <2>2. Fine BY <1>6, <2>1 DEF Told, Notified, Agrees, Word
    <2> QED BY <2>1, <2>2
<1> QED BY <1>2, <1>3, <1>4, <1>5, <1>6 DEF Outcomes, PresentAnswers

(* One call of DoSync by a thread or by the client.                        *)
LEMMA ListCheck ==
  ASSUME ListOK, ToldInv, NEW t \in {0} \cup Worker, CheckPair(t) \/ CheckEnd(t)
  PROVE  ListOK' /\ ToldInv' /\ Len(SyncList') = Len(SyncList)
<1>1. CASE CheckPair(t)
    <2>1. PICK i : i = next[t]
        OBVIOUS
    <2>2. /\ i \in DOMAIN SyncList /\ SyncList[i] \in PairType /\ i \in Nat
          /\ SyncList \in Seq(PairType) /\ Len(SyncList) <= MaxSyncs
          /\ told \in Seq(Word) /\ Len(told) = Len(SyncList)
          /\ DOMAIN told = DOMAIN SyncList /\ told[i] \in Word
        BY <1>1, <2>1 DEF CheckPair, ListOK
    <2>3. PICK a \in Outcomes(SyncList[i]) :
            /\ SyncList' = [SyncList EXCEPT ![i] = a.pair]
            /\ told' = [told EXCEPT ![i] = Told(@, a.ret)]
        BY <1>1, <2>1 DEF CheckPair
    <2>4. PICK q, u : q = a.pair /\ u = Told(told[i], a.ret)
        OBVIOUS
    <2>5. /\ q \in PairType /\ u \in Word
          /\ Agrees(SyncList[i], told[i]) => Agrees(q, u)
        BY <2>2, <2>4, OutcomeOf
    <2>6. SyncList' \in Seq(PairType) /\ Len(SyncList') = Len(SyncList)
          /\ DOMAIN SyncList' = DOMAIN SyncList /\ SyncList'[i] = q
          /\ \A j \in DOMAIN SyncList : j # i => SyncList'[j] = SyncList[j]
        BY <2>2, <2>3, <2>4, <2>5
    <2>7. told' = [told EXCEPT ![i] = u] BY <2>3, <2>4
    <2>8. /\ told' \in Seq(Word) /\ Len(told') = Len(told) /\ told'[i] = u
          /\ \A j \in DOMAIN SyncList : j # i => told'[j] = told[j]
        BY <2>2, <2>5, <2>7
    <2>9. next' \in [{0} \cup Worker -> 1..(MaxSyncs + 1)]
        <3>1. i + 1 \in 1..(MaxSyncs + 1) BY <2>2, BoundsAssumption
        <3> QED BY <1>1, <2>1, <3>1 DEF CheckPair, ListOK
    <2>10. ListOK' BY <2>2, <2>6, <2>8, <2>9 DEF ListOK
    <2>11. \A j \in DOMAIN SyncList' : Agrees(SyncList'[j], told'[j])
        BY <2>2, <2>5, <2>6, <2>8 DEF ToldInv
    <2> QED BY <2>6, <2>10, <2>11 DEF ToldInv, Agrees
<1>2. CASE CheckEnd(t)
    BY <1>2, BoundsAssumption DEF CheckEnd, ListOK, ToldInv, Agrees
<1> QED BY <1>1, <1>2

(* AddSync with SyncNow reports what it did; without, nothing.             *)
LEMMA ListAdd ==
  ASSUME ListOK, ToldInv, AddSync
  PROVE  ListOK' /\ ToldInv'
<1>1. PICK p \in PairType, u \in Word :
        /\ SyncList' = Append(SyncList, p) /\ told' = Append(told, u)
        /\ Agrees(p, u)
    <2>1. PICK new \in PairType :
            \/ SyncList' = Append(SyncList, new) /\ told' = Append(told, "silent")
            \/ \E o \in Outcomes(new) :
                 /\ SyncList' = Append(SyncList, o.pair)
                 /\ told' = Append(told, Notified(o.ret))
        BY DEF AddSync, PairType
    <2>2. CASE SyncList' = Append(SyncList, new) /\ told' = Append(told, "silent")
        BY <2>2 DEF Agrees, Word
    <2> QED BY <2>1, <2>2, OutcomeOf
<1>2. PICK n : n = Len(SyncList) + 1
    OBVIOUS
<1>3. /\ SyncList \in Seq(PairType) /\ Len(SyncList) < MaxSyncs
      /\ told \in Seq(Word) /\ Len(told) = Len(SyncList)
    BY DEF ListOK, AddSync
<1>4. /\ SyncList' \in Seq(PairType) /\ Len(SyncList') = n /\ SyncList'[n] = p
      /\ DOMAIN SyncList' = DOMAIN SyncList \cup {n} /\ n \notin DOMAIN SyncList
      /\ \A i \in DOMAIN SyncList : SyncList'[i] = SyncList[i]
    BY <1>1, <1>2, <1>3
<1>5. /\ told' \in Seq(Word) /\ Len(told') = n /\ told'[n] = u
      /\ \A i \in DOMAIN SyncList : told'[i] = told[i]
    BY <1>1, <1>2, <1>3
<1>6. \A i \in DOMAIN SyncList' : Agrees(SyncList'[i], told'[i])
    BY <1>1, <1>4, <1>5 DEF ToldInv
<1>7. n <= MaxSyncs BY <1>2, <1>3, BoundsAssumption
<1>8. next' = next BY DEF AddSync
<1>9. ListOK' BY <1>3, <1>4, <1>5, <1>7, <1>8 DEF ListOK
<1> QED BY <1>6, <1>9 DEF ToldInv, Agrees

(* Only Check changes the pairs.                                           *)
LEMMA ListWorker ==
  ASSUME ListOK, ToldInv, NEW w \in Worker,
         WorkerStep(w) \/ CallbackStop(w)
  PROVE  ListOK' /\ ToldInv'
<1> USE DEF ListOK, ToldInv, Agrees
<1>1. CASE SetWatching(w) BY <1>1 DEF SetWatching, Move
<1>2. CASE ClearQuit(w) BY <1>2 DEF ClearQuit, Move
<1>3. CASE Pass(w) BY <1>3 DEF Pass, Move
<1>4. CASE Check(w)
    BY <1>4, ListCheck DEF Check
<1>5. CASE ClearWatching(w) BY <1>5 DEF ClearWatching, Move
<1>6. CASE KeepPromise(w) BY <1>6 DEF KeepPromise, Move
<1>7. CASE CallbackStop(w) BY <1>7 DEF CallbackStop
<1> QED BY <1>1, <1>2, <1>3, <1>4, <1>5, <1>6, <1>7 DEF WorkerStep

(* And AddSync and Clear.                                                  *)
LEMMA ListClient ==
  ASSUME ListOK, ToldInv, ClientStep
  PROVE  ListOK' /\ ToldInv'
<1> USE DEF ListOK, ToldInv, Agrees
<1>1. CASE AddSync
    BY <1>1, ListAdd
<1>2. CASE ClientCheck
    <2>1. CASE UNCHANGED <<list, next>> BY <2>1
    <2> QED BY <1>2, <2>1, ListCheck DEF ClientCheck
<1>3. CASE Stop BY <1>3 DEF Stop
<1>4. CASE StartCall BY <1>4 DEF StartCall
<1>5. CASE ResetPromise BY <1>5 DEF ResetPromise
<1>6. CASE LaunchThread BY <1>6 DEF LaunchThread
<1>7. CASE SeeStarted BY <1>7 DEF SeeStarted
<1>8. CASE StopFlags BY <1>8 DEF StopFlags
<1>9. CASE WaitReady
    <2>1. (SyncList' = <<>> /\ told' = <<>>) \/ UNCHANGED list
        BY <1>9 DEF WaitReady, AfterStop
    <2>2. CASE UNCHANGED list BY <2>2, <1>9 DEF WaitReady, AfterStop
    <2>3. CASE SyncList' = <<>> /\ told' = <<>>
        BY <2>3, <1>9, BoundsAssumption DEF WaitReady
    <2> QED BY <2>1, <2>2, <2>3
<1>10. CASE WaitTimeout
    <2>1. (SyncList' = <<>> /\ told' = <<>>) \/ UNCHANGED list
        BY <1>10 DEF WaitTimeout, AfterStop
    <2>2. CASE UNCHANGED list BY <2>2, <1>10 DEF WaitTimeout, AfterStop
    <2>3. CASE SyncList' = <<>> /\ told' = <<>>
        BY <2>3, <1>10, BoundsAssumption DEF WaitTimeout
    <2> QED BY <2>1, <2>2, <2>3
<1>11. CASE WaitInvalid BY <1>11 DEF WaitInvalid
<1>12. ASSUME NEW o \in {"stop", "clear", "destroy"}, StopEarly(o)
      PROVE  ListOK' /\ ToldInv'
    <2>1. (SyncList' = <<>> /\ told' = <<>>) \/ UNCHANGED list
        BY <1>12 DEF StopEarly, AfterStop
    <2>2. CASE UNCHANGED list BY <2>2, <1>12 DEF StopEarly, AfterStop
    <2>3. CASE SyncList' = <<>> /\ told' = <<>>
        BY <2>3, <1>12, BoundsAssumption DEF StopEarly
    <2> QED BY <2>1, <2>2, <2>3
<1>13. ASSUME NEW o \in {"stop", "clear", "destroy"}, NEW b \in BOOLEAN, StopCall(o, b)
      PROVE  ListOK' /\ ToldInv'
    BY <1>13 DEF StopCall
<1> QED BY <1>1, <1>2, <1>3, <1>4, <1>5, <1>6, <1>7, <1>8, <1>9, <1>10,
       <1>11, <1>12, <1>13 DEF ClientStep

(* Program counters stay in their sets.                                    *)
LEMMA PlacesWorker ==
  ASSUME PlacesOK, NEW w \in Worker,
         WorkerStep(w) \/ CallbackStop(w)
  PROVE  PlacesOK'
<1> USE DEF PlacesOK, Starting, Looping, Closing
<1>1. CASE SetWatching(w) BY <1>1 DEF SetWatching, Move
<1>2. CASE ClearQuit(w) BY <1>2 DEF ClearQuit, Move
<1>3. CASE Pass(w) BY <1>3 DEF Pass, Move
<1>4. CASE Check(w) BY <1>4 DEF Check, Move, CheckPair, CheckEnd
<1>5. CASE ClearWatching(w) BY <1>5 DEF ClearWatching, Move
<1>6. CASE KeepPromise(w) BY <1>6 DEF KeepPromise, Move
<1>7. CASE CallbackStop(w) BY <1>7 DEF CallbackStop
<1> QED BY <1>1, <1>2, <1>3, <1>4, <1>5, <1>6, <1>7 DEF WorkerStep

(* The same for the client.                                                *)
LEMMA PlacesClient ==
  ASSUME PlacesOK, Fresh, ClientStep
  PROVE  PlacesOK'
<1> USE BoundsAssumption DEF PlacesOK, Starting, Looping, Closing, Fresh
<1>1. CASE AddSync BY <1>1 DEF AddSync
<1>2. CASE ClientCheck BY <1>2 DEF ClientCheck, CheckPair, CheckEnd
<1>3. CASE Stop BY <1>3 DEF Stop
<1>4. CASE StartCall BY <1>4 DEF StartCall
<1>5. CASE ResetPromise BY <1>5 DEF ResetPromise
<1>6. CASE LaunchThread BY <1>6 DEF LaunchThread
<1>7. CASE SeeStarted BY <1>7 DEF SeeStarted
<1>8. CASE StopFlags BY <1>8 DEF StopFlags
<1>9. CASE WaitReady BY <1>9 DEF WaitReady, AfterStop
<1>10. CASE WaitTimeout BY <1>10 DEF WaitTimeout, AfterStop
<1>11. CASE WaitInvalid BY <1>11 DEF WaitInvalid
<1>12. ASSUME NEW o \in {"stop", "clear", "destroy"}, StopEarly(o)
      PROVE  PlacesOK'
    BY <1>12 DEF StopEarly, AfterStop
<1>13. ASSUME NEW o \in {"stop", "clear", "destroy"}, NEW b \in BOOLEAN, StopCall(o, b)
      PROVE  PlacesOK'
    BY <1>13 DEF StopCall
<1> QED BY <1>1, <1>2, <1>3, <1>4, <1>5, <1>6, <1>7, <1>8, <1>9, <1>10,
       <1>11, <1>12, <1>13 DEF ClientStep

(* A worker that moves was launched before.                                *)
LEMMA FreshWorker ==
  ASSUME PlacesOK, Fresh, NEW w \in Worker,
         WorkerStep(w) \/ CallbackStop(w)
  PROVE  Fresh'
<1> USE DEF PlacesOK, Fresh
<1>1. CASE SetWatching(w) BY <1>1 DEF SetWatching, Move
<1>2. CASE ClearQuit(w) BY <1>2 DEF ClearQuit, Move
<1>3. CASE Pass(w) BY <1>3 DEF Pass, Move
<1>4. CASE Check(w) BY <1>4 DEF Check, Move, CheckPair, CheckEnd
<1>5. CASE ClearWatching(w) BY <1>5 DEF ClearWatching, Move
<1>6. CASE KeepPromise(w) BY <1>6 DEF KeepPromise, Move
<1>7. CASE CallbackStop(w) BY <1>7 DEF CallbackStop
<1> QED BY <1>1, <1>2, <1>3, <1>4, <1>5, <1>6, <1>7 DEF WorkerStep

(* ResetPromise names the next worker and LaunchThread launches it.        *)
LEMMA FreshClient ==
  ASSUME FlagsOK, PlacesOK, Fresh, ClientStep
  PROVE  Fresh'
<1> USE BoundsAssumption DEF FlagsOK, PlacesOK, Fresh, Worker, Idle
<1>1. CASE AddSync BY <1>1 DEF AddSync
<1>2. CASE ClientCheck BY <1>2 DEF ClientCheck, CheckPair, CheckEnd
<1>3. CASE Stop BY <1>3 DEF Stop
<1>4. CASE StartCall BY <1>4 DEF StartCall
<1>5. CASE ResetPromise BY <1>5 DEF ResetPromise
<1>6. CASE LaunchThread BY <1>6 DEF LaunchThread
<1>7. CASE SeeStarted BY <1>7 DEF SeeStarted
<1>8. CASE StopFlags BY <1>8 DEF StopFlags
<1>9. CASE WaitReady BY <1>9 DEF WaitReady, AfterStop
<1>10. CASE WaitTimeout BY <1>10 DEF WaitTimeout, AfterStop
<1>11. CASE WaitInvalid BY <1>11 DEF WaitInvalid
<1>12. ASSUME NEW o \in {"stop", "clear", "destroy"}, StopEarly(o)
      PROVE  Fresh'
    BY <1>12 DEF StopEarly, AfterStop
<1>13. ASSUME NEW o \in {"stop", "clear", "destroy"}, NEW b \in BOOLEAN, StopCall(o, b)
      PROVE  Fresh'
    BY <1>13 DEF StopCall
<1> QED BY <1>1, <1>2, <1>3, <1>4, <1>5, <1>6, <1>7, <1>8, <1>9, <1>10,
       <1>11, <1>12, <1>13 DEF ClientStep

LEMMA TypeStep == TypeInv /\ ToldInv /\ [Next]_vars => TypeInv' /\ ToldInv'
<1> SUFFICES ASSUME TypeInv, ToldInv, [Next]_vars PROVE TypeInv' /\ ToldInv'
    OBVIOUS
<1>1. FlagsOK /\ ListOK /\ PlacesOK /\ Fresh BY DEF TypeInv, TypeOK
<1>2. CASE ClientStep
    BY <1>1, <1>2, FlagsClient, ListClient, PlacesClient, FreshClient
    DEF TypeInv, TypeOK
<1>3. ASSUME NEW w \in Worker, WorkerStep(w) \/ CallbackStop(w)
      PROVE  TypeInv' /\ ToldInv'
    BY <1>1, <1>3, FlagsWorker, ListWorker, PlacesWorker, FreshWorker
    DEF TypeInv, TypeOK
<1>4. CASE UNCHANGED vars
    <2>1. FlagsOK' BY <1>1, <1>4 DEF vars, FlagsOK
    <2>2. ListOK' /\ ToldInv' BY <1>1, <1>4 DEF vars, ListOK, ToldInv, Agrees
    <2>3. PlacesOK' BY <1>1, <1>4 DEF vars, PlacesOK
    <2>4. Fresh' BY <1>1, <1>4 DEF vars, Fresh
    <2> QED BY <2>1, <2>2, <2>3, <2>4 DEF TypeInv, TypeOK
<1> QED BY <1>2, <1>3, <1>4 DEF Next, Finished

-----------------------------------------------------------------------------
(* The disciplined client.                                                 *)

(* Discipline that is lost does not come back.                             *)
LEMMA DisciplineOnce == [Next]_vars /\ disciplined' => disciplined
<1> SUFFICES ASSUME [Next]_vars, disciplined' PROVE disciplined
    OBVIOUS
<1>1. CASE ClientStep
    BY <1>1 DEF ClientStep, AddSync, ClientCheck, Stop, StartCall, ResetPromise,
       LaunchThread, SeeStarted, StopEarly, StopCall, StopFlags, WaitReady,
       WaitTimeout, WaitInvalid
<1>2. ASSUME NEW w \in Worker, WorkerStep(w) \/ CallbackStop(w)
      PROVE  disciplined
    BY <1>2 DEF WorkerStep, SetWatching, ClearQuit, Pass, Check, ClearWatching,
       KeepPromise, CallbackStop
<1>3. CASE UNCHANGED vars BY <1>3 DEF vars
<1> QED BY <1>1, <1>2, <1>3 DEF Next, Finished

(* No worker but the last one moves.                                       *)
LEMMA OthersWorker ==
  ASSUME TypeInv, Kept, disciplined, disciplined', NEW w \in Worker,
         WorkerStep(w) \/ CallbackStop(w)
  PROVE  OthersGone'
<1> USE DEF TypeInv, TypeOK, FlagsOK, PlacesOK, Fresh, Kept, OthersGone
<1>1. CASE SetWatching(w) BY <1>1 DEF SetWatching, Move
<1>2. CASE ClearQuit(w) BY <1>2 DEF ClearQuit, Move
<1>3. CASE Pass(w) BY <1>3 DEF Pass, Move
<1>4. CASE Check(w) BY <1>4 DEF Check, Move, CheckPair, CheckEnd
<1>5. CASE ClearWatching(w) BY <1>5 DEF ClearWatching, Move
<1>6. CASE KeepPromise(w) BY <1>6 DEF KeepPromise, Move
<1>7. CASE CallbackStop(w) BY <1>7 DEF CallbackStop
<1> QED BY <1>1, <1>2, <1>3, <1>4, <1>5, <1>6, <1>7 DEF WorkerStep

(* A Start finds every worker gone.                                        *)
LEMMA OthersClient ==
  ASSUME TypeInv, Kept, disciplined, disciplined', ClientStep
  PROVE  OthersGone'
<1> USE DEF TypeInv, TypeOK, FlagsOK, PlacesOK, Fresh, Kept, OthersGone,
       ClientPhase, Quiet, Idle, MayStart, Worker, Starting, Looping, Closing
<1>1. CASE AddSync BY <1>1 DEF AddSync
<1>2. CASE ClientCheck BY <1>2 DEF ClientCheck, CheckPair, CheckEnd
<1>3. CASE Stop BY <1>3 DEF Stop
<1>4. CASE StartCall BY <1>4 DEF StartCall
<1>5. CASE ResetPromise BY <1>5 DEF ResetPromise
<1>6. CASE LaunchThread BY <1>6 DEF LaunchThread
<1>7. CASE SeeStarted BY <1>7 DEF SeeStarted
<1>8. CASE StopFlags BY <1>8 DEF StopFlags
<1>9. CASE WaitReady BY <1>9 DEF WaitReady, AfterStop
<1>10. CASE WaitTimeout BY <1>10 DEF WaitTimeout, AfterStop
<1>11. CASE WaitInvalid BY <1>11 DEF WaitInvalid
<1>12. ASSUME NEW o \in {"stop", "clear", "destroy"}, StopEarly(o)
      PROVE  OthersGone'
    BY <1>12 DEF StopEarly, AfterStop
<1>13. ASSUME NEW o \in {"stop", "clear", "destroy"}, NEW b \in BOOLEAN, StopCall(o, b)
      PROVE  OthersGone'
    BY <1>13 DEF StopCall
<1> QED BY <1>1, <1>2, <1>3, <1>4, <1>5, <1>6, <1>7, <1>8, <1>9, <1>10,
       <1>11, <1>12, <1>13 DEF ClientStep

(* The last worker keeps the last promise.                                 *)
LEMMA KeptWorker ==
  ASSUME TypeInv, Kept, disciplined, disciplined', NEW w \in Worker,
         WorkerStep(w) \/ CallbackStop(w)
  PROVE  KeptOwn'
<1> USE DEF TypeInv, TypeOK, FlagsOK, PlacesOK, Fresh, Kept, OthersGone,
       KeptOwn, PromiseSet
<1>1. CASE SetWatching(w) BY <1>1 DEF SetWatching, Move
<1>2. CASE ClearQuit(w) BY <1>2 DEF ClearQuit, Move
<1>3. CASE Pass(w) BY <1>3 DEF Pass, Move
<1>4. CASE Check(w) BY <1>4 DEF Check, Move, CheckPair, CheckEnd
<1>5. CASE ClearWatching(w) BY <1>5 DEF ClearWatching, Move
<1>6. CASE KeepPromise(w) BY <1>6 DEF KeepPromise, Move
<1>7. CASE CallbackStop(w) BY <1>7 DEF CallbackStop
<1> QED BY <1>1, <1>2, <1>3, <1>4, <1>5, <1>6, <1>7 DEF WorkerStep

(* The client moves only a worker that has kept nothing.                   *)
LEMMA KeptClient ==
  ASSUME TypeInv, Kept, disciplined, disciplined', ClientStep
  PROVE  KeptOwn'
<1> USE DEF TypeInv, TypeOK, FlagsOK, PlacesOK, Fresh, Kept, KeptOwn
<1>1. CASE AddSync BY <1>1 DEF AddSync
<1>2. CASE ClientCheck BY <1>2 DEF ClientCheck, CheckPair, CheckEnd
<1>3. CASE Stop BY <1>3 DEF Stop
<1>4. CASE StartCall BY <1>4 DEF StartCall
<1>5. CASE ResetPromise BY <1>5 DEF ResetPromise
<1>6. CASE LaunchThread BY <1>6 DEF LaunchThread
<1>7. CASE SeeStarted BY <1>7 DEF SeeStarted
<1>8. CASE StopFlags BY <1>8 DEF StopFlags
<1>9. CASE WaitReady BY <1>9 DEF WaitReady, AfterStop
<1>10. CASE WaitTimeout BY <1>10 DEF WaitTimeout, AfterStop
<1>11. CASE WaitInvalid BY <1>11 DEF WaitInvalid
<1>12. ASSUME NEW o \in {"stop", "clear", "destroy"}, StopEarly(o)
      PROVE  KeptOwn'
    BY <1>12 DEF StopEarly, AfterStop
<1>13. ASSUME NEW o \in {"stop", "clear", "destroy"}, NEW b \in BOOLEAN, StopCall(o, b)
      PROVE  KeptOwn'
    BY <1>13 DEF StopCall
<1> QED BY <1>1, <1>2, <1>3, <1>4, <1>5, <1>6, <1>7, <1>8, <1>9, <1>10,
       <1>11, <1>12, <1>13 DEF ClientStep

(* Watching follows the last worker.                                       *)
LEMMA WatchingWorker ==
  ASSUME TypeInv, Kept, disciplined, disciplined', NEW w \in Worker,
         WorkerStep(w) \/ CallbackStop(w)
  PROVE  WatchingInv'
<1> USE DEF TypeInv, TypeOK, FlagsOK, PlacesOK, Fresh, Kept, OthersGone,
       WatchingInv, Announced, Looping
<1>1. CASE SetWatching(w) BY <1>1 DEF SetWatching, Move
<1>2. CASE ClearQuit(w) BY <1>2 DEF ClearQuit, Move
<1>3. CASE Pass(w) BY <1>3 DEF Pass, Move
<1>4. CASE Check(w) BY <1>4 DEF Check, Move, CheckPair, CheckEnd
<1>5. CASE ClearWatching(w) BY <1>5 DEF ClearWatching, Move
<1>6. CASE KeepPromise(w) BY <1>6 DEF KeepPromise, Move
<1>7. CASE CallbackStop(w) BY <1>7 DEF CallbackStop
<1> QED BY <1>1, <1>2, <1>3, <1>4, <1>5, <1>6, <1>7 DEF WorkerStep

(* The client does not write Watching.                                     *)
LEMMA WatchingClient ==
  ASSUME TypeInv, Kept, disciplined, disciplined', ClientStep
  PROVE  WatchingInv'
<1> USE DEF TypeInv, TypeOK, FlagsOK, PlacesOK, Fresh, Kept, WatchingInv,
       Announced, Looping
<1>1. CASE AddSync BY <1>1 DEF AddSync
<1>2. CASE ClientCheck BY <1>2 DEF ClientCheck, CheckPair, CheckEnd
<1>3. CASE Stop BY <1>3 DEF Stop
<1>4. CASE StartCall BY <1>4 DEF StartCall
<1>5. CASE ResetPromise BY <1>5 DEF ResetPromise
<1>6. CASE LaunchThread BY <1>6 DEF LaunchThread
<1>7. CASE SeeStarted BY <1>7 DEF SeeStarted
<1>8. CASE StopFlags BY <1>8 DEF StopFlags
<1>9. CASE WaitReady BY <1>9 DEF WaitReady, AfterStop
<1>10. CASE WaitTimeout BY <1>10 DEF WaitTimeout, AfterStop
<1>11. CASE WaitInvalid BY <1>11 DEF WaitInvalid
<1>12. ASSUME NEW o \in {"stop", "clear", "destroy"}, StopEarly(o)
      PROVE  WatchingInv'
    BY <1>12 DEF StopEarly, AfterStop
<1>13. ASSUME NEW o \in {"stop", "clear", "destroy"}, NEW b \in BOOLEAN, StopCall(o, b)
      PROVE  WatchingInv'
    BY <1>13 DEF StopCall
<1> QED BY <1>1, <1>2, <1>3, <1>4, <1>5, <1>6, <1>7, <1>8, <1>9, <1>10,
       <1>11, <1>12, <1>13 DEF ClientStep

(* Between calls a watcher that is not Watching is quiet.                  *)
LEMMA IdleQuiet == Kept /\ Idle /\ NothingToStop => Quiet
<1> SUFFICES ASSUME Kept, Idle, NothingToStop PROVE Quiet
    OBVIOUS
<1>1. ~Watching BY DEF Kept, WaitInv, Idle, NothingToStop
<1>2. ~At(Looping) BY <1>1 DEF Kept, WatchingInv, At, Announced
<1> QED BY <1>2 DEF Kept, ClientPhase, Idle

(* One that is Watching is in its loop.                                    *)
LEMMA IdleLooping == Kept /\ Idle /\ ~NothingToStop => At(Looping)
<1> SUFFICES ASSUME Kept, Idle, Watching PROVE At(Looping)
    BY DEF NothingToStop
<1>1. ~Quiet
    BY DEF Kept, WatchingInv, Quiet, Announced, Looping
<1> QED BY <1>1 DEF Kept, ClientPhase, Idle

(* The wait of StopAndWait ends when the last worker has returned.         *)
LEMMA ReadyQuiet == Kept /\ FutureReady => Quiet
<1> SUFFICES ASSUME Kept, FutureReady PROVE Quiet
    OBVIOUS
<1>1. PICK w \in Worker : kept[w] = promise /\ pc[w] = "done"
    BY DEF FutureReady
<1>2. w = promise BY <1>1 DEF Kept, KeptOwn
<1> QED BY <1>1, <1>2 DEF Kept, OthersGone, Quiet

(* A step of the worker keeps the client's view of it.                     *)
LEMMA PhaseWorker ==
  ASSUME TypeInv, Kept, disciplined, disciplined', NEW w \in Worker,
         WorkerStep(w) \/ CallbackStop(w)
  PROVE  ClientPhase'
<1> USE DEF TypeInv, TypeOK, FlagsOK, PlacesOK, Fresh, Kept, ClientPhase,
       Quiet, At, Worker, Starting, Looping, Closing, OthersGone, RequestInv
<1>1. CASE SetWatching(w) BY <1>1 DEF SetWatching, Move
<1>2. CASE ClearQuit(w) BY <1>2 DEF ClearQuit, Move
<1>3. CASE Pass(w) BY <1>3 DEF Pass, Move
<1>4. CASE Check(w)
    BY <1>4 DEF Check, Move
<1>5. CASE ClearWatching(w) BY <1>5 DEF ClearWatching, Move
<1>6. CASE KeepPromise(w) BY <1>6 DEF KeepPromise, Move
<1>7. CASE CallbackStop(w) BY <1>7 DEF CallbackStop
<1> QED BY <1>1, <1>2, <1>3, <1>4, <1>5, <1>6, <1>7 DEF WorkerStep

(* A step of the client keeps its view of the worker.                      *)
LEMMA PhaseClient ==
  ASSUME TypeInv, Kept, disciplined, disciplined', ClientStep
  PROVE  ClientPhase'
<1> USE DEF TypeInv, TypeOK, FlagsOK, PlacesOK, Fresh, Kept, ClientPhase,
       Quiet, At, Worker, Starting, Looping, Closing, Idle, WaitInv
<1>1. CASE AddSync BY <1>1 DEF AddSync
<1>2. CASE ClientCheck
    <2>1. CASE cpc = "checking" BY <1>2, <2>1 DEF ClientCheck, CheckPair, CheckEnd
    <2>2. CASE Idle /\ ~Watching
        <3>1. Quiet BY <2>2, IdleQuiet DEF NothingToStop
        <3> QED BY <1>2, <2>2, <3>1 DEF ClientCheck
    <2> QED BY <1>2, <2>1, <2>2 DEF ClientCheck
<1>3. CASE Stop BY <1>3 DEF Stop
<1>4. CASE StartCall
    <2>1. Quiet BY <1>4, IdleQuiet DEF StartCall, MayStart, NothingToStop
    <2>2. Len(SyncList) > 0 BY <1>4 DEF StartCall, MayStart, ListOK
    <2> QED BY <1>4, <2>1, <2>2 DEF StartCall
<1>5. CASE ResetPromise
    <2>1. promise' = promise + 1 /\ promise < MaxStarts /\ promise \in Nat
          /\ MaxStarts \in Nat /\ valid' = TRUE /\ pc' = pc /\ Quiet
        BY <1>5, BoundsAssumption DEF ResetPromise
    <2>2. promise' \in Worker /\ promise' > promise BY <2>1
    <2>3. At({"none"})' BY <2>1, <2>2
    <2> QED BY <1>5, <2>1, <2>3 DEF ResetPromise
<1>6. CASE LaunchThread BY <1>6 DEF LaunchThread
<1>7. CASE SeeStarted BY <1>7 DEF SeeStarted
<1>8. CASE StopFlags BY <1>8 DEF StopFlags
<1>9. CASE WaitReady
    <2>1. Quiet BY <1>9, ReadyQuiet DEF WaitReady
    <2> QED BY <1>9, <2>1 DEF WaitReady, AfterStop
<1>10. CASE WaitTimeout BY <1>10 DEF WaitTimeout, AfterStop
<1>11. CASE WaitInvalid BY <1>11 DEF WaitInvalid
<1>12. ASSUME NEW o \in {"stop", "clear", "destroy"}, StopEarly(o)
      PROVE  ClientPhase'
    <2>1. Quiet BY <1>12, IdleQuiet DEF StopEarly
    <2> QED BY <1>12, <2>1 DEF StopEarly, AfterStop
<1>13. ASSUME NEW o \in {"stop", "clear", "destroy"}, NEW b \in BOOLEAN, StopCall(o, b)
      PROVE  ClientPhase'
    <2>1. At(Looping) BY <1>13, IdleLooping DEF StopCall
    <2> QED BY <1>13, <2>1 DEF StopCall
<1> QED BY <1>1, <1>2, <1>3, <1>4, <1>5, <1>6, <1>7, <1>8, <1>9, <1>10,
       <1>11, <1>12, <1>13 DEF ClientStep

(* A request is cleared by the thread it does not mean.                    *)
LEMMA RequestWorker ==
  ASSUME TypeInv, Kept, disciplined, disciplined', NEW w \in Worker,
         WorkerStep(w) \/ CallbackStop(w)
  PROVE  RequestInv'
<1> USE DEF TypeInv, TypeOK, FlagsOK, PlacesOK, Fresh, Kept, OthersGone,
       RequestInv, ClientPhase, Quiet, At, Starting, Looping, Closing
<1>1. CASE SetWatching(w) BY <1>1 DEF SetWatching, Move
<1>2. CASE ClearQuit(w) BY <1>2 DEF ClearQuit, Move
<1>3. CASE Pass(w) BY <1>3 DEF Pass, Move
<1>4. CASE Check(w) BY <1>4 DEF Check, Move, CheckPair, CheckEnd
<1>5. CASE ClearWatching(w) BY <1>5 DEF ClearWatching, Move
<1>6. CASE KeepPromise(w) BY <1>6 DEF KeepPromise, Move
<1>7. CASE CallbackStop(w) BY <1>7 DEF CallbackStop
<1> QED BY <1>1, <1>2, <1>3, <1>4, <1>5, <1>6, <1>7 DEF WorkerStep

(* Only StopAndWait asks, and it waits until the thread is gone.           *)
LEMMA RequestClient ==
  ASSUME TypeInv, Kept, disciplined, disciplined', ClientStep
  PROVE  RequestInv'
<1> USE DEF TypeInv, TypeOK, FlagsOK, PlacesOK, Fresh, Kept, RequestInv,
       ClientPhase, Quiet, At, WaitInv, Idle
<1>1. CASE AddSync BY <1>1 DEF AddSync
<1>2. CASE ClientCheck BY <1>2 DEF ClientCheck, CheckPair, CheckEnd
<1>3. CASE Stop BY <1>3 DEF Stop
<1>4. CASE StartCall BY <1>4 DEF StartCall
<1>5. CASE ResetPromise BY <1>5 DEF ResetPromise
<1>6. CASE LaunchThread BY <1>6 DEF LaunchThread
<1>7. CASE SeeStarted BY <1>7 DEF SeeStarted
<1>8. CASE StopFlags BY <1>8 DEF StopFlags
<1>9. CASE WaitReady
    <2>1. Quiet BY <1>9, ReadyQuiet DEF WaitReady
    <2> QED BY <1>9, <2>1 DEF WaitReady, AfterStop
<1>10. CASE WaitTimeout BY <1>10 DEF WaitTimeout, AfterStop
<1>11. CASE WaitInvalid BY <1>11 DEF WaitInvalid
<1>12. ASSUME NEW o \in {"stop", "clear", "destroy"}, StopEarly(o)
      PROVE  RequestInv'
    BY <1>12 DEF StopEarly, AfterStop
<1>13. ASSUME NEW o \in {"stop", "clear", "destroy"}, NEW b \in BOOLEAN, StopCall(o, b)
      PROVE  RequestInv'
    BY <1>13 DEF StopCall
<1> QED BY <1>1, <1>2, <1>3, <1>4, <1>5, <1>6, <1>7, <1>8, <1>9, <1>10,
       <1>11, <1>12, <1>13 DEF ClientStep

(* The last promise has not been kept before its worker keeps it.          *)
LEMMA WaitWorker ==
  ASSUME TypeInv, Kept, disciplined, disciplined', NEW w \in Worker,
         WorkerStep(w) \/ CallbackStop(w)
  PROVE  WaitInv'
<1> USE DEF TypeInv, TypeOK, FlagsOK, PlacesOK, Fresh, Kept, OthersGone,
       KeptOwn, PromiseSet, WaitInv
<1>1. CASE SetWatching(w) BY <1>1 DEF SetWatching, Move
<1>2. CASE ClearQuit(w) BY <1>2 DEF ClearQuit, Move
<1>3. CASE Pass(w) BY <1>3 DEF Pass, Move
<1>4. CASE Check(w) BY <1>4 DEF Check, Move, CheckPair, CheckEnd
<1>5. CASE ClearWatching(w) BY <1>5 DEF ClearWatching, Move
<1>6. CASE KeepPromise(w)
    <2>1. w = promise /\ pc[w] = "keep" /\ w # 0
        BY <1>6 DEF KeepPromise, Move, Worker
    <2>2. ~PromiseSet BY <2>1
    <2> QED BY <1>6, <2>2 DEF KeepPromise
<1>7. CASE CallbackStop(w) BY <1>7 DEF CallbackStop
<1> QED BY <1>1, <1>2, <1>3, <1>4, <1>5, <1>6, <1>7 DEF WorkerStep

(* The future the client waits on is valid.                                *)
LEMMA WaitClient ==
  ASSUME TypeInv, Kept, disciplined, disciplined', ClientStep
  PROVE  WaitInv'
<1> USE DEF TypeInv, TypeOK, FlagsOK, PlacesOK, Fresh, Kept, ClientPhase, At,
       WaitInv, Idle
<1>1. CASE AddSync BY <1>1 DEF AddSync
<1>2. CASE ClientCheck BY <1>2 DEF ClientCheck, CheckPair, CheckEnd
<1>3. CASE Stop BY <1>3 DEF Stop
<1>4. CASE StartCall BY <1>4 DEF StartCall
<1>5. CASE ResetPromise BY <1>5 DEF ResetPromise
<1>6. CASE LaunchThread BY <1>6 DEF LaunchThread
<1>7. CASE SeeStarted BY <1>7 DEF SeeStarted
<1>8. CASE StopFlags BY <1>8 DEF StopFlags
<1>9. CASE WaitReady BY <1>9 DEF WaitReady, AfterStop
<1>10. CASE WaitTimeout BY <1>10 DEF WaitTimeout, AfterStop
<1>11. CASE WaitInvalid BY <1>11 DEF WaitInvalid
<1>12. ASSUME NEW o \in {"stop", "clear", "destroy"}, StopEarly(o)
      PROVE  WaitInv'
    BY <1>12 DEF StopEarly, AfterStop
<1>13. ASSUME NEW o \in {"stop", "clear", "destroy"}, NEW b \in BOOLEAN, StopCall(o, b)
      PROVE  WaitInv'
    BY <1>13 DEF StopCall
<1> QED BY <1>1, <1>2, <1>3, <1>4, <1>5, <1>6, <1>7, <1>8, <1>9, <1>10,
       <1>11, <1>12, <1>13 DEF ClientStep

LEMMA KeptStep ==
  ASSUME TypeInv, Kept, disciplined, disciplined', [Next]_vars
  PROVE  Kept'
<1>1. CASE ClientStep
    <2>1. OthersGone' /\ KeptOwn' /\ WatchingInv'
        BY <1>1, OthersClient, KeptClient, WatchingClient
    <2>2. ClientPhase' /\ RequestInv' /\ WaitInv'
        BY <1>1, PhaseClient, RequestClient, WaitClient
    <2> QED BY <2>1, <2>2 DEF Kept
<1>2. ASSUME NEW w \in Worker, WorkerStep(w) \/ CallbackStop(w)
      PROVE  Kept'
    <2>1. OthersGone' /\ KeptOwn' /\ WatchingInv'
        BY <1>2, OthersWorker, KeptWorker, WatchingWorker
    <2>2. ClientPhase' /\ RequestInv' /\ WaitInv'
        BY <1>2, PhaseWorker, RequestWorker, WaitWorker
    <2> QED BY <2>1, <2>2 DEF Kept
<1>3. CASE UNCHANGED vars
    <2> USE <1>3 DEF vars, Kept
    <2>1. OthersGone' /\ KeptOwn' BY DEF OthersGone, KeptOwn
    <2>2. WatchingInv' BY DEF WatchingInv
    <2>3. ClientPhase' BY DEF ClientPhase, Quiet, At
    <2>4. RequestInv' /\ WaitInv' BY DEF RequestInv, WaitInv
    <2> QED BY <2>1, <2>2, <2>3, <2>4
<1> QED BY <1>1, <1>2, <1>3 DEF Next, Finished

LEMMA KeptInit == Init => Kept
<1> SUFFICES ASSUME Init PROVE Kept
    OBVIOUS
<1> USE DEF Init
<1>1. OthersGone /\ KeptOwn BY DEF OthersGone, KeptOwn
<1>2. WatchingInv BY DEF WatchingInv, Announced, Looping
<1>3. ClientPhase BY DEF ClientPhase, Quiet
<1>4. RequestInv /\ WaitInv BY DEF RequestInv, WaitInv
<1> QED BY <1>1, <1>2, <1>3, <1>4 DEF Kept

LEMMA Invariant == Spec => []IInv
<1>1. Init => IInv
    <2>1. Init => ToldInv BY DEF Init, ToldInv
    <2> QED BY <2>1, TypeInit, KeptInit DEF IInv
<1>2. IInv /\ [Next]_vars => IInv'
    <2> SUFFICES ASSUME IInv, [Next]_vars PROVE IInv'
        OBVIOUS
    <2>1. TypeInv' /\ ToldInv' BY TypeStep DEF IInv
    <2>2. ASSUME disciplined' PROVE Kept'
        <3>1. disciplined BY <2>2, DisciplineOnce
        <3> QED BY <2>2, <3>1, KeptStep DEF IInv
    <2> QED BY <2>1, <2>2 DEF IInv
<1> QED BY <1>1, <1>2, PTL DEF Spec

(* Every variable keeps to its type, for every client and every bound.     *)
THEOREM TypeCorrect == Spec => []TypeOK
<1>1. IInv => TypeOK BY DEF IInv, TypeInv
<1> QED BY <1>1, Invariant, PTL

(* Over any number of threads, one-shot checks and AddSync, the callbacks  *)
(* agree with what GetSyncErrors counts, and tell no missing Source twice. *)
THEOREM CallbacksTell == Spec => []CallbacksAgree
<1>1. IInv => CallbacksAgree BY DEF IInv, ToldInv, CallbacksAgree
<1> QED BY <1>1, Invariant, PTL

(* StopAndWait returns true only when the thread is gone, and no thread    *)
(* outlives the object.                                                    *)
THEOREM StopIsFinal == Spec => []StopMeansStopped
<1>1. IInv => StopMeansStopped
    BY DEF IInv, Kept, ClientPhase, Quiet, StopMeansStopped, Running, Live,
       Starting, Looping, Closing
<1> QED BY <1>1, Invariant, PTL

(* No promise is satisfied twice and no empty future is waited on.         *)
THEOREM ProgramGoesOn == Spec => []NoFutureError
<1>1. IInv => NoFutureError BY DEF IInv, Kept, WaitInv, NoFutureError
<1> QED BY <1>1, Invariant, PTL

-----------------------------------------------------------------------------
(* The refinement.                                                         *)

Serving == disciplined /\ \E w \in Worker : Live(w)

SStep == [Service!SNext]_(Service!svars)

(* When the last worker is gone, no worker serves.                         *)
LEMMA QuietServing == Quiet => ~Serving
  BY DEF Quiet, Serving, Live, Starting, Looping, Closing

(* A step that leaves these alone is a stutter.                            *)
LEMMA Stutters ==
  ASSUME pc' = pc, disciplined' = disciplined, destroyed' = destroyed,
         Len(SyncList') = Len(SyncList)
  PROVE  SStep
<1>1. Serving' <=> Serving BY DEF Serving, Live
<1> QED BY <1>1 DEF SStep, Service!svars, Serving

(* Discipline that is lost ends the service, if there is one.              *)
LEMMA Gives ==
  ASSUME ~disciplined', destroyed' = destroyed, Len(SyncList') = Len(SyncList)
  PROVE  SStep
<1>1. ~Serving' BY DEF Serving
<1>2. CASE Serving
    BY <1>1, <1>2 DEF SStep, Service!SNext, Service!Finish, Serving
<1>3. CASE ~Serving
    BY <1>1, <1>3 DEF SStep, Service!svars, Serving
<1> QED BY <1>2, <1>3

(* A step of the worker is a stutter until it has made its last callback.  *)
LEMMA ServiceWorker ==
  ASSUME IInv, NEW w \in Worker, WorkerStep(w) \/ CallbackStop(w)
  PROVE  SStep
<1>1. ListOK /\ ToldInv /\ PlacesOK BY DEF IInv, TypeInv, TypeOK
<1>2. destroyed' = destroyed /\ Len(SyncList') = Len(SyncList)
    <2>1. CASE Check(w) BY <1>1, <2>1, ListCheck DEF Check
    <2>2. CASE UNCHANGED <<list, destroyed>> BY <2>2
    <2> QED
      BY <2>1, <2>2 DEF WorkerStep, CallbackStop, SetWatching, ClearQuit, Pass,
         ClearWatching, KeepPromise
<1>3. CASE ~disciplined' BY <1>2, <1>3, Gives
<1>4. CASE disciplined'
    <2>1. disciplined /\ Kept /\ WorkerStep(w)
        BY <1>4 DEF IInv, WorkerStep, SetWatching, ClearQuit, Pass, Check,
           ClearWatching, KeepPromise, CallbackStop
    <2>2. CASE pc[w] = "ended" /\ pc' = [pc EXCEPT ![w] = "exit"]
        <3>1. \A v \in Worker : v # w => pc[v] \in {"none", "done"}
            BY <2>1, <2>2 DEF Kept, OthersGone
        <3>2. Serving BY <2>1, <2>2 DEF Serving, Live, Closing
        <3>3. ~Serving'
            BY <1>1, <2>2, <3>1 DEF PlacesOK, Serving, Live, Starting, Looping, Closing
        <3> QED
          BY <1>2, <3>2, <3>3 DEF SStep, Service!SNext, Service!Finish, Serving
    <2>3. CASE pc' = pc \/ (pc[w] = "exit" /\ pc' = [pc EXCEPT ![w] = "done"])
        <3>1. Serving' <=> Serving
            BY <1>1, <1>4, <2>1, <2>3 DEF PlacesOK, Serving, Live, Starting, Looping,
               Closing
        <3> QED BY <1>2, <3>1 DEF SStep, Service!svars, Serving
    <2>4. CASE /\ pc[w] \in Starting \cup Looping \cup {"ending", "keep"}
               /\ \E to \in Starting \cup Looping \cup Closing :
                    pc' = [pc EXCEPT ![w] = to]
        <3>1. Serving BY <2>1, <2>4 DEF Serving, Live, Closing
        <3>2. pc'[w] \in Starting \cup Looping \cup Closing
            BY <1>1, <2>4 DEF PlacesOK
        <3>3. Serving' BY <1>4, <3>2 DEF Serving, Live
        <3> QED BY <1>2, <3>1, <3>3 DEF SStep, Service!svars, Serving
    <2> QED
      BY <2>1, <2>2, <2>3, <2>4 DEF WorkerStep, SetWatching, ClearQuit, Pass,
         Check, ClearWatching, KeepPromise, Move, Starting, Looping, Closing
<1> QED BY <1>3, <1>4

(* What follows a stop is an edit, the destruction or nothing.             *)
LEMMA AfterStopServes ==
  ASSUME NEW o, NEW ok, AfterStop(o, ok), ~Serving, ~Serving', ~destroyed,
         destroyed \in BOOLEAN
  PROVE  SStep
<1> USE DEF SStep, Service!SNext, Service!svars, Serving
<1>1. \/ Len(SyncList') = Len(SyncList)
      \/ Len(SyncList') = 0
    BY DEF AfterStop
<1>2. CASE o = "destroy"
    <2>1. destroyed' = TRUE BY <1>2 DEF AfterStop
    <2> QED BY <1>1, <2>1 DEF Service!Destroy
<1>3. CASE o # "destroy"
    <2>1. destroyed' = destroyed BY <1>3 DEF AfterStop
    <2>2. CASE Len(SyncList') = Len(SyncList) BY <2>1, <2>2
    <2>3. CASE Len(SyncList') = 0 BY <2>1, <2>3 DEF Service!Edit
    <2> QED BY <1>1, <2>2, <2>3
<1> QED BY <1>2, <1>3

(* Where the client finds no thread, none serves.                          *)
LEMMA NoneServes ==
  ASSUME IInv, (Idle /\ NothingToStop) \/ FutureReady, pc' = pc,
         disciplined' = disciplined
  PROVE  ~Serving /\ ~Serving'
<1>1. CASE disciplined
    <2>1. Quiet BY <1>1, IdleQuiet, ReadyQuiet DEF IInv
    <2>2. ~Serving BY <2>1, QuietServing
    <2> QED BY <2>2 DEF Serving, Live
<1>2. CASE ~disciplined BY <1>2 DEF Serving
<1> QED BY <1>1, <1>2

(* A call of the client edits the list, destroys the object or launches a  *)
(* worker only while no worker serves.                                     *)
LEMMA ServiceClient ==
  ASSUME IInv, ClientStep
  PROVE  SStep
<1>1. FlagsOK /\ ListOK /\ PlacesOK /\ Fresh /\ ToldInv
    BY DEF IInv, TypeInv, TypeOK
<1>2. CASE AddSync
    <2>1. pc' = pc /\ disciplined' = disciplined /\ destroyed' = destroyed
          /\ ~destroyed /\ Idle /\ NothingToStop
        BY <1>2 DEF AddSync, Idle, NothingToStop
    <2>2. ~Serving /\ ~Serving' BY <2>1, NoneServes
    <2>3. Len(SyncList') = Len(SyncList) + 1
        <3>1. PICK p : SyncList' = Append(SyncList, p)
            BY <1>2 DEF AddSync
        <3> QED BY <1>1, <3>1 DEF ListOK
    <2> QED BY <2>1, <2>2, <2>3 DEF SStep, Service!SNext, Service!Edit, Serving
<1>3. CASE ClientCheck
    <2>1. Len(SyncList') = Len(SyncList)
        <3>1. CASE UNCHANGED list BY <3>1
        <3> QED BY <1>1, <1>3, <3>1, ListCheck DEF ClientCheck
    <2> QED BY <1>3, <2>1, Stutters DEF ClientCheck
<1>4. CASE LaunchThread
    <2>1. CASE ~disciplined' BY <1>4, <2>1, Gives DEF LaunchThread
    <2>2. CASE disciplined'
        <3>1. disciplined /\ Kept
            BY <1>4, <2>2 DEF LaunchThread, IInv
        <3>2. ~Serving /\ promise \in Worker /\ Len(SyncList) > 0 /\ ~destroyed
            BY <1>4, <3>1, QuietServing DEF LaunchThread, Kept, ClientPhase, At
        <3>3. Serving'
            BY <1>1, <1>4, <2>2, <3>2 DEF LaunchThread, PlacesOK, Serving, Live,
               Starting
        <3> QED
          BY <1>4, <3>2, <3>3 DEF LaunchThread, SStep, Service!SNext,
             Service!Launch, Serving
    <2> QED BY <2>1, <2>2
<1>5. ASSUME NEW o \in {"stop", "clear", "destroy"}, StopEarly(o) PROVE SStep
    <2>1. ~Serving /\ ~Serving' BY <1>5, NoneServes DEF StopEarly
    <2>2. AfterStop(o, TRUE) /\ ~destroyed /\ destroyed \in BOOLEAN
        BY <1>1, <1>5 DEF StopEarly, Idle, FlagsOK
    <2> QED BY <2>1, <2>2, AfterStopServes
<1>6. CASE WaitReady
    <2>1. ~Serving /\ ~Serving' BY <1>6, NoneServes DEF WaitReady
    <2>2. AfterStop(op, TRUE) /\ ~destroyed /\ destroyed \in BOOLEAN
        BY <1>1, <1>6 DEF WaitReady, Fresh, FlagsOK
    <2> QED BY <2>1, <2>2, AfterStopServes
<1>7. CASE WaitTimeout
    <2>1. ~disciplined /\ ~disciplined'
        BY <1>7 DEF WaitTimeout, IInv, Kept, WaitInv
    <2>2. ~Serving /\ ~Serving' BY <2>1 DEF Serving
    <2>3. AfterStop(op, FALSE) /\ ~destroyed /\ destroyed \in BOOLEAN
        BY <1>1, <1>7 DEF WaitTimeout, Fresh, FlagsOK
    <2> QED BY <2>2, <2>3, AfterStopServes
<1>8. CASE Stop BY <1>8, Gives DEF Stop
<1>9. ASSUME NEW o \in {"stop", "clear", "destroy"}, NEW b \in BOOLEAN, StopCall(o, b)
      PROVE  SStep
    <2>1. pc' = pc /\ destroyed' = destroyed /\ SyncList' = SyncList
          /\ disciplined' = (disciplined /\ ~b)
        BY <1>9 DEF StopCall
    <2>2. CASE ~disciplined' BY <2>1, <2>2, Gives
    <2>3. CASE disciplined'
        <3>1. disciplined' = disciplined BY <1>1, <2>1, <2>3 DEF FlagsOK
        <3> QED BY <2>1, <3>1, Stutters
    <2> QED BY <2>2, <2>3
<1>10. CASE UNCHANGED <<pc, disciplined, destroyed, list>>
    BY <1>10, Stutters
<1> QED
  BY <1>2, <1>3, <1>4, <1>5, <1>6, <1>7, <1>8, <1>9, <1>10 DEF ClientStep,
     StartCall, ResetPromise, SeeStarted, StopFlags, WaitInvalid

(* As long as the client keeps its discipline, the flags, the promises and *)
(* the detached threads implement a WatchService.                          *)
THEOREM ImplementsService == Spec => ServiceSpec
<1>1. Init => Service!SInit
    BY DEF Init, Service!SInit, Live, Starting, Looping, Closing
<1>2. ASSUME IInv, [Next]_vars PROVE SStep
    <2>1. CASE UNCHANGED vars BY <2>1, Stutters DEF vars
    <2> QED BY <1>2, <2>1, ServiceWorker, ServiceClient DEF Next, Finished
<1> QED
  BY <1>1, <1>2, Invariant, PTL DEF Spec, ServiceSpec, Service!SSpec, SStep
=============================================================================
