------------------------------ MODULE EventLog -------------------------------
(***************************************************************************)
(* event_log.c: a ring of the latest events.  Any task appends; each       *)
(* function is one critical section, so a call is a step.  Static memory   *)
(* is zero, which is what the first use would initialise the log to.       *)
(* web_server_start initialises it once more, when the tasks of app_main   *)
(* that are already running may have appended: those events are gone, from *)
(* the ring and from the counters.                                         *)
(***************************************************************************)
EXTENDS Naturals, Sequences

CONSTANTS
  LogCapacity,   \* EVENT_LOG_DEFAULT_CAPACITY
  LogWord,       \* 2^32, where next_sequence, written and dropped_oldest wrap
  Messages,      \* what an event may say
  MaxEvents      \* bound of the model: events since the log was initialised

ASSUME LogAssumption ==
  /\ LogCapacity \in Nat \ {0} /\ LogWord \in Nat \ {0}
  /\ MaxEvents \in Nat

VARIABLES
  log,         \* s_log
  logHistory,  \* history: all messages since the last initialisation, in order
  webLog       \* web_server_start has initialised the log

logVars == <<log, logHistory, webLog>>

Slots == 0 .. LogCapacity - 1
Numbers == 0 .. LogWord - 1
Wrapped(n) == n % LogWord
Slot(i) == i % LogCapacity

EmptyLog == [entries |-> [i \in Slots |-> <<>>], start |-> 0, count |-> 0,
             sequence |-> 0, written |-> 0, droppedOldest |-> 0]
-----------------------------------------------------------------------------
LogInit == log = EmptyLog /\ logHistory = <<>> /\ webLog = FALSE

\* Variant: the ring does not move on when it overwrites.
NextOldestStays(i) == i

NextOldest(i) == Slot(i + 1)

(* event_log_append: into a free place, or over the oldest entry.          *)
Placed(entry) ==
  IF log.count < LogCapacity
    THEN [log EXCEPT !.entries[Slot(log.start + log.count)] = entry,
                     !.count = @ + 1]
    ELSE [log EXCEPT !.entries[log.start] = entry,
                     !.start = NextOldest(@),
                     !.droppedOldest = Wrapped(@ + 1)]

AppendEvent(message) ==
  /\ Len(logHistory) < MaxEvents
  /\ LET sequence == Wrapped(log.sequence + 1)
     IN  log' = [Placed(<<sequence, message>>) EXCEPT !.sequence = sequence,
                                                      !.written = Wrapped(@ + 1)]
  /\ logHistory' = Append(logHistory, message)
  /\ UNCHANGED webLog

(* event_log_init from web_server_start.                                   *)
InitLogAgain ==
  /\ ~webLog
  /\ webLog' = TRUE
  /\ log' = EmptyLog /\ logHistory' = <<>>

LogNext == InitLogAgain \/ \E message \in Messages : AppendEvent(message)

LogSpec == LogInit /\ [][LogNext]_logVars
-----------------------------------------------------------------------------
(* event_log_snapshot: the latest max entries, the oldest of them first.   *)
LogSnapshot(max) ==
  LET n == IF log.count < max THEN log.count ELSE max
  IN  [i \in 1 .. n |-> log.entries[Slot(log.start + log.count - n + i - 1)]]

(* The types of the variables: the ring's indices stay inside it.          *)
LogTypeOK ==
  /\ log \in [entries : [Slots -> (Numbers \X Messages) \union {<<>>}],
              start : Slots, count : 0 .. LogCapacity,
              sequence : Numbers, written : Numbers, droppedOldest : Numbers]
  /\ logHistory \in Seq(Messages)
  /\ webLog \in BOOLEAN

(* However many entries the diagnostics page asks for, it gets the latest  *)
(* events in the order in which they were appended, each with its number,  *)
(* and the counters of event_log_get_status account for the rest: also     *)
(* after the ring and after the numbers have wrapped.                      *)
LogKeepsLatest ==
  LET total == Len(logHistory)
  IN  /\ \A max \in 1 .. LogCapacity :
           LET n == IF total < max THEN total ELSE max
           IN  LogSnapshot(max) =
                 [i \in 1 .. n |-> <<Wrapped(total - n + i), logHistory[total - n + i]>>]
      /\ log.written = Wrapped(total)
      /\ Wrapped(log.droppedOldest + log.count) = log.written
=============================================================================
