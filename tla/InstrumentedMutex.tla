-------------------------- MODULE InstrumentedMutex --------------------------
(***************************************************************************)
(* InstrumentedMutex (monitoring/instrumented_mutex.cc): a wrapper of     *)
(* port::Mutex that times Lock with a StopWatch and records the wait as a  *)
(* tick of stats_code_ when ShouldReportToStats holds.  The wait time      *)
(* itself is abstracted to one tick per timed call.  InstrumentedCondVar  *)
(* of the same file has no caller in this repository and is not modelled. *)
(*                                                                         *)
(* port::Mutex and the inline Unlock of the header are not under src/;    *)
(* they are modelled from pthread semantics: a non-recursive mutex.        *)
(*                                                                         *)
(* The operators are action fragments of thread t; a composing module     *)
(* gives the threads their programs.                                       *)
(***************************************************************************)
EXTENDS Naturals

CONSTANTS
  Threads,          \* the threads that share the mutex
  NoThread,         \* no owner
  EnvAndStats,      \* env_ != nullptr /\ stats_ != nullptr
  StatsLevelChoices   \* the stats_level_ values a user may configure

VARIABLES
  owner,   \* the thread holding mutex_, or NoThread
  ticks,   \* RecordTick(stats_, stats_code_, ...) calls
  statsLevel,  \* stats_->stats_level_, set before the DB is opened
  acquired \* history: Lock calls that returned

mutexVars == <<owner, ticks, statsLevel, acquired>>

\* enum StatsLevel, in declaration order.
StatsLevels == <<"kExceptDetailedTimers", "kExceptTimeForMutex", "kAll">>
LevelOrder(l) == CHOOSE i \in DOMAIN StatsLevels : StatsLevels[i] = l

\* Mutant: the level compared with >= instead of >.
ShouldReportToStatsGe ==
  EnvAndStats /\ LevelOrder(statsLevel) >= LevelOrder("kExceptTimeForMutex")

ShouldReportToStats ==
  EnvAndStats /\ LevelOrder(statsLevel) > LevelOrder("kExceptTimeForMutex")

\* The StopWatch around a blocking call and the RecordTick after it.
Timed ==
  /\ ticks' = ticks + IF ShouldReportToStats THEN 1 ELSE 0
  /\ acquired' = acquired + 1

MutexInit ==
  /\ owner = NoThread
  /\ ticks = 0
  /\ statsLevel \in StatsLevelChoices
  /\ acquired = 0

\* InstrumentedMutex::Lock -> LockInternal -> mutex_.Lock(): the call
\* returns once the mutex is free.  The mutex is not recursive: a thread
\* that already holds it never returns (a hang, or an abort of the process
\* with an error-checking mutex).
Lock(t) ==
  /\ owner = NoThread
  /\ owner' = t
  /\ Timed
  /\ UNCHANGED statsLevel

Unlock(t) ==
  /\ owner = t
  /\ owner' = NoThread
  /\ UNCHANGED <<ticks, statsLevel, acquired>>

=============================================================================
