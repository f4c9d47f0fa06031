------------------------------- MODULE DFormLog -------------------------------
(***************************************************************************)
(* The window that shows a log (lib/qt/DFormLog.cpp).  Every message that  *)
(* DLog::Write handles is added to the list by a signal, and then written  *)
(* to the file; LoadFile empties the list, has another thread read the     *)
(* file, and replaces the list by what was read.  A signal from another    *)
(* thread is an event in the queue of the window's thread.                 *)
(*                                                                         *)
(* One thread logs: the window's own or another.  A message is its number, *)
(* the file is 1..written, and it is not rotated here (see DLog).  The     *)
(* window is not destroyed while this goes on: its destructor removes the  *)
(* callback without a lock, and a thread that reads keeps a bare this.     *)
(***************************************************************************)
EXTENDS Integers, FiniteSets, SequencesExt

CONSTANTS
  MaxMessages,   \* bound: messages logged
  MaxLoads,      \* bound: calls of LoadFile
  MaxConnects    \* bound: connections of SignalAdd

ASSUME LoadsAssumption == MaxLoads \in Nat

VARIABLES
  onUI,          \* the window's own thread is the one that logs
  step,          \* "told" between the callback and the write to the file
  logged, written,
  links,         \* how often SignalAdd is connected to Add
  events,        \* the queue of the window's thread
  depth,         \* calls of LoadFile that are in processEvents
  emptied,       \* the last of them has seen an empty queue
  loader,        \* the reading of each LoadFile
  timers,        \* the single shots that have not fired
  waiting,       \* the reading whose result the window's thread waits for
  spinning,
  view,          \* ModelStringList
  excused        \* history: see below

log == <<onUI, step, logged, written>>
window == <<events, depth, emptied, timers, waiting, spinning>>
fvars == <<log, links, window, loader, view, excused>>

Loads == 1..MaxLoads
Lines(n) == [i \in 1..n |-> i]

(* The thread of the window handles events, in its loop or processEvents.  *)
Loaded == Cardinality({l \in Loads : loader[l].pc # "none"})
Handling == waiting = 0 /\ ~emptied /\ ~(onUI /\ step = "told")

FormInit ==
  /\ onUI \in BOOLEAN /\ step = "idle" /\ written \in {0, 1} /\ logged = written
  /\ links = 1 /\ events = <<>> /\ depth = 0 /\ emptied = FALSE
  /\ loader = [l \in Loads |-> [pc |-> "none", lines |-> 0]]
  /\ timers = {} /\ waiting = 0 /\ spinning = FALSE /\ view = <<>>
  /\ excused = FALSE

(* SetDLog connects SignalAdd once more.                                   *)
SetDLog ==
  /\ Handling /\ links < MaxConnects /\ links' = links + 1
  /\ UNCHANGED <<log, window, loader, view, excused>>

-----------------------------------------------------------------------------
(* DLog::Write calls back before it writes.  A message that is told after  *)
(* the end of a reading and before its result is posted, or on the         *)
(* window's own thread before it is shown, is replaced by lines without it.*)
Add(n) == [i \in 1..links |-> n]

TooLate ==
  \/ \E l \in Loads : loader[l].pc = "read"
  \/ onUI /\ \E i \in DOMAIN events : events[i].do = "setStringList"

Tell ==
  /\ step = "idle" /\ logged < MaxMessages /\ (onUI => Handling)
  /\ step' = "told" /\ logged' = logged + 1
  /\ IF onUI THEN view' = view \o Add(logged') /\ UNCHANGED events
     ELSE events' = events \o [i \in 1..links |-> [do |-> "Add", n |-> logged']]
          /\ UNCHANGED view
  /\ excused' = (excused \/ TooLate)
  /\ UNCHANGED <<onUI, written, links, depth, emptied, timers, waiting,
                 spinning, loader>>

WriteFile ==
  /\ step = "told" /\ step' = "idle" /\ written' = logged
  /\ UNCHANGED <<onUI, logged, links, window, loader, view, excused>>

(* Fault: the message is written before the callback.                      *)
LogSteps_WriteFirst ==
  \/ /\ step = "idle" /\ written < MaxMessages /\ (onUI => Handling)
     /\ step' = "told" /\ written' = written + 1
     /\ UNCHANGED <<onUI, logged, links, window, loader, view, excused>>
  \/ /\ step = "told" /\ step' = "idle" /\ logged' = written
     /\ IF onUI THEN view' = view \o Add(logged') /\ UNCHANGED events
        ELSE events' = events \o [i \in 1..links |-> [do |-> "Add", n |-> logged']]
             /\ UNCHANGED view
     /\ excused' = (excused \/ TooLate)
     /\ UNCHANGED <<onUI, written, links, depth, emptied, timers, waiting,
                    spinning, loader>>

LogSteps == Tell \/ WriteFile

-----------------------------------------------------------------------------
(* LoadFile starts the spinner and handles the events that there are: the  *)
(* Reload button may be one of them.                                       *)
LoadFile ==
  /\ Handling
  /\ depth + Loaded < MaxLoads
  /\ depth' = depth + 1 /\ spinning' = TRUE
  /\ UNCHANGED <<log, links, events, emptied, timers, waiting, loader, view,
                 excused>>

ProcessEvents ==
  /\ Handling /\ depth > 0 /\ events = <<>> /\ emptied' = TRUE
  /\ UNCHANGED <<log, links, events, depth, timers, waiting, spinning, loader,
                 view, excused>>

(* The list is emptied, the reading handed to the pool of threads, and the *)
(* single shot started that waits for it.                                  *)
StartLoad ==
  /\ emptied /\ emptied' = FALSE /\ depth' = depth - 1
  /\ loader' = [loader EXCEPT ![Loaded + 1].pc = "queued"]
  /\ view' = <<>> /\ timers' = timers \cup {Loaded + 1}
  /\ UNCHANGED <<log, links, events, waiting, spinning, excused>>

(* A thread of the pool opens the file; nothing is shown if it cannot.     *)
OpenFile(l) ==
  /\ loader[l].pc = "queued"
  /\ \/ loader' = [loader EXCEPT ![l].pc = "reading"] /\ UNCHANGED excused
     \/ loader' = [loader EXCEPT ![l].pc = "done"] /\ excused' = TRUE
  /\ UNCHANGED <<log, links, window, view>>

(* The end of the file.  A message that is told and not written yet will   *)
(* be replaced by lines without it.                                        *)
AtEnd(l) ==
  /\ loader[l].pc = "reading"
  /\ loader' = [loader EXCEPT ![l] = [pc |-> "read", lines |-> written]]
  /\ excused' = (excused \/ step = "told")
  /\ UNCHANGED <<log, links, window, view>>

EmitStringList(l) ==
  /\ loader[l].pc = "read" /\ loader' = [loader EXCEPT ![l].pc = "done"]
  /\ events' = Append(events, [do |-> "setStringList", n |-> loader[l].lines])
  /\ UNCHANGED <<log, links, depth, emptied, timers, waiting, spinning, view,
                 excused>>

(* An event of the queue.                                                  *)
Deliver ==
  /\ Handling /\ events # <<>> /\ events' = Tail(events)
  /\ view' = IF Head(events).do = "Add" THEN Append(view, Head(events).n)
             ELSE Lines(Head(events).n)
  /\ UNCHANGED <<log, links, depth, emptied, timers, waiting, spinning, loader,
                 excused>>

(* The single shot waits for the result.  If no thread of the pool has     *)
(* taken the reading, QFuture::result runs it here, and the list is set at *)
(* once: that is right if just what the file lacks waits in the queue.     *)
Waiting == {events[i].n : i \in {i \in DOMAIN events : events[i].do = "Add"}}

Timeout(l) ==
  /\ Handling /\ l \in timers /\ timers' = timers \ {l} /\ waiting' = l
  /\ UNCHANGED <<log, links, events, depth, emptied, spinning, loader, view,
                 excused>>

RunHere(l) ==
  /\ waiting = l /\ loader[l].pc = "queued"
  /\ loader' = [loader EXCEPT ![l] = [pc |-> "done", lines |-> written]]
  /\ view' = Lines(written)
  /\ excused' = (excused \/ Waiting # written + 1..logged)
  /\ UNCHANGED <<log, links, window>>

Result(l) ==
  /\ waiting = l /\ loader[l].pc = "done" /\ waiting' = 0 /\ spinning' = FALSE
  /\ UNCHANGED <<log, links, events, depth, emptied, timers, loader, view,
                 excused>>

FormNext ==
  \/ SetDLog \/ LogSteps \/ LoadFile \/ ProcessEvents \/ StartLoad \/ Deliver
  \/ \E l \in Loads :
       OpenFile(l) \/ AtEnd(l) \/ EmitStringList(l) \/ Timeout(l) \/ RunHere(l)
         \/ Result(l)

FormSpec == FormInit /\ [][FormNext]_fvars

-----------------------------------------------------------------------------
Quiet ==
  /\ step = "idle" /\ events = <<>> /\ depth = 0 /\ ~emptied /\ timers = {}
  /\ waiting = 0 /\ \A l \in Loads : loader[l].pc \in {"none", "done"}

(* Though messages come while the file is read, and the file may be read   *)
(* twice at a time: the list shows no message twice and none out of order, *)
(* and once the file has been loaded the list ends up as all of it, with   *)
(* the spinner stopped.  Unless SetDLog was called twice, the file could   *)
(* not be opened, a message came between the end of a reading and its      *)
(* result, or the window's thread read the file with other messages in its *)
(* queue than the file lacked.                                             *)
ListRight ==
  links = 1 /\ ~excused =>
    /\ \A i \in 1..Len(view) - 1 : view[i] < view[i + 1]
    /\ Quiet => /\ (\E l \in Loads : loader[l].pc = "done") => view = Lines(written)
                /\ ~spinning
=============================================================================
