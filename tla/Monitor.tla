------------------------------- MODULE Monitor -------------------------------
(***************************************************************************)
(* The log of monitoring/monitor.c, a ring of entries, its table of        *)
(* metrics, and the figures of current_stats.                              *)
(*                                                                         *)
(* A log entry keeps its level and a number of its own, which stands for   *)
(* the message.  Times and the number of processes are only shown, and     *)
(* left out.  Two observers keep every message and every last value.       *)
(***************************************************************************)
EXTENDS Integers, Sequences, FiniteSets, SequencesExt

CONSTANTS
    MAX_LOG_ENTRIES,    \* length of the ring (1000)
    Levels,             \* the levels others log, as numbers
    WARNING,            \* the level of an alert
    MaxLogged,          \* bound: at most this many messages are logged
    MAX_METRICS,        \* length of the table of metrics (50)
    NAME_LENGTH,        \* characters of a metric's name, with the final 0 (64)
    Names,              \* the names under which others record metrics
    Values,             \* what they record
    WORD                \* 2^32

ASSUME MonitorAssumption ==
    /\ MAX_LOG_ENTRIES \in Nat \ {0}
    /\ Levels \subseteq Nat /\ WARNING \in Nat
    /\ MaxLogged \in Nat
    /\ MAX_METRICS \in Nat
    /\ NAME_LENGTH \in Nat \ {0, 1, 2}
    /\ \A name \in Names : name \in Seq(STRING)
    /\ Values \subseteq Nat
    /\ WORD \in Nat \ {0}

VARIABLES
    log,                \* log_buffer, log_head and log_count
    logged,             \* every message so far, for the properties
    metrics,            \* the first metric_count entries of metrics
    recorded,           \* by name the last value recorded, for the properties
    stats               \* current_stats

monitor_vars == <<log, logged, metrics, recorded, stats>>

LogEntry == [level : Levels \cup {WARNING}, no : 1 .. MaxLogged]

Empty == [level |-> 1, no |-> 0]    \* LOG_INFO and no text

Places == 0 .. MAX_LOG_ENTRIES - 1

\* What memory and disk there is, and what is in use of it.
Resources == {"memory", "disk"}

\* The names of update_system_stats, letter by letter as far as they differ.
\* None begins another, but the last two begin alike.
cpu_usage == <<"c">>
memory_usage == <<"m">>
disk_usage == <<"d">>
network_rx == <<"n", "r">>
network_tx == <<"n", "t">>

MetricNames == Names \cup {cpu_usage, memory_usage, disk_usage, network_rx, network_tx}

Never == -1

MonitorTypeOK ==
    /\ log \in [buffer : [Places -> LogEntry \cup {Empty}],
                head : Places, count : 0 .. MAX_LOG_ENTRIES]
    /\ logged \in Seq(LogEntry)
    /\ Len(logged) <= MaxLogged
    /\ Len(metrics) <= MAX_METRICS
    /\ \A i \in DOMAIN metrics :
          Len(metrics[i].name) < NAME_LENGTH /\ metrics[i].value \in Nat
    /\ recorded \in [MetricNames -> Nat \cup {Never}]
    /\ stats \in [used : [Resources -> Nat], active_connections : Nat,
                  network_rx : 0 .. WORD - 1, network_tx : 0 .. WORD - 1]

EmptyLog == [buffer |-> [i \in Places |-> Empty], head |-> 0, count |-> 0]
NothingRecorded == [name \in MetricNames |-> Never]
ZeroStats ==
    [used |-> [r \in Resources |-> 0], active_connections |-> 0,
     network_rx |-> 0, network_tx |-> 0]

\* The state after the first monitoring_init.
MonitorInit ==
    /\ log = EmptyLog
    /\ logged = << >>
    /\ metrics = << >>
    /\ recorded = NothingRecorded
    /\ stats = ZeroStats

monitoring_init ==
    /\ log' = EmptyLog
    /\ logged' = << >>
    /\ metrics' = << >>
    /\ recorded' = NothingRecorded
    /\ stats' = ZeroStats

-----------------------------------------------------------------------------
\* Mutant: the count goes on when the ring is full.
CountedPastEnd(count) == count + 1

CountedUpTo(count) == IF count < MAX_LOG_ENTRIES THEN count + 1 ELSE count

Put(ring, entry) ==
    [buffer |-> [ring.buffer EXCEPT ![ring.head] = entry],
     head |-> (ring.head + 1) % MAX_LOG_ENTRIES,
     count |-> CountedUpTo(ring.count)]

\* A log and all its messages, after one more.
Logged(l, level) ==
    LET entry == [level |-> level, no |-> Len(l.messages) + 1]
    IN  [ring |-> Put(l.ring, entry), messages |-> Append(l.messages, entry)]

Logs == [ring |-> log, messages |-> logged]

Log(l) ==
    /\ Len(l.messages) <= MaxLogged
    /\ log' = l.ring
    /\ logged' = l.messages
    /\ UNCHANGED <<metrics, recorded, stats>>

log_message(level) == Log(Logged(Logs, level))

-----------------------------------------------------------------------------
\* Mutant: a name loses one letter more than it must.
KeptShort(name) == SubSeq(name, 1, NAME_LENGTH - 2)

\* A name is cut off to leave room for the final 0.
Kept(name) == IF Len(name) < NAME_LENGTH THEN name ELSE SubSeq(name, 1, NAME_LENGTH - 1)

\* An entry is found by any beginning of its name; a name that was cut off is not.
Found(table, name) == {i \in DOMAIN table : IsPrefix(name, table[i].name)}

First(places) == CHOOSE i \in places : \A j \in places : i <= j

\* record_metric: a metric that is not found in a full table is dropped.
Record(table, name, value) ==
    LET found == Found(table, name) IN
    IF found # {} THEN [table EXCEPT ![First(found)].value = value]
    ELSE IF Len(table) < MAX_METRICS
    THEN Append(table, [name |-> Kept(name), value |-> value])
    ELSE table

\* The table and the last values, after one more.
Recorded(m, name, value) ==
    [table |-> Record(m.table, name, value), last |-> [m.last EXCEPT ![name] = value]]

Records == [table |-> metrics, last |-> recorded]

RecordAs(m) == metrics' = m.table /\ recorded' = m.last

record_metric(name, value) ==
    /\ RecordAs(Recorded(Records, name, value))
    /\ UNCHANGED <<log, logged, stats>>

get_metric(name) ==
    LET found == Found(metrics, name)
    IN  IF found = {} THEN 0 ELSE metrics[First(found)].value

-----------------------------------------------------------------------------
CPU == 15   \* a placeholder

\* update_system_stats, with what the allocator, the file system and the network
\* answer.
update_system_stats(used, active) ==
    LET rx == (stats.network_rx + 1024) % WORD
        tx == (stats.network_tx + 512) % WORD
        cpu == Recorded(Records, cpu_usage, CPU)
        memory == Recorded(cpu, memory_usage, used["memory"])
        disk == Recorded(memory, disk_usage, used["disk"])
    IN  /\ stats' = [used |-> used, active_connections |-> active,
                     network_rx |-> rx, network_tx |-> tx]
        /\ RecordAs(Recorded(Recorded(disk, network_rx, rx), network_tx, tx))
        /\ UNCHANGED <<log, logged>>

\* The tests of check_alerts: the use at the last update against what is free now.
Low(free) == {r \in Resources : 10 * stats.used[r] > 9 * free[r]}

Warned(l, resource, free) ==
    IF resource \in Low(free) THEN Logged(l, WARNING) ELSE l

\* A warning for each; none about the placeholder, which is never above 90.
check_alerts(free) == Log(Warned(Warned(Logs, "memory", free), "disk", free))

\* Mutant: the reader starts at the head of a ring that is not full.
StartAtHead == log.head

Start == (log.head - log.count + MAX_LOG_ENTRIES) % MAX_LOG_ENTRIES

FirstOf(entries, max) ==
    IF Len(entries) <= max THEN entries ELSE SubSeq(entries, 1, max)

AtLeast(entries, min) == SelectSeq(entries, LAMBDA e : e.level >= min)

\* What get_logs copies: of the entries in the ring, from the oldest on, the
\* first max whose level is at least min.
get_logs(max, min) ==
    FirstOf(AtLeast([i \in 1 .. log.count |->
                        log.buffer[(Start + i - 1) % MAX_LOG_ENTRIES]], min), max)

-----------------------------------------------------------------------------
\* The log holds the last MAX_LOG_ENTRIES messages and get_logs reads them in
\* the order in which they were logged, before and after the ring wraps around.
LogKeepsLatest ==
    LET kept == IF Len(logged) <= MAX_LOG_ENTRIES THEN logged
                ELSE SubSeq(logged, Len(logged) - MAX_LOG_ENTRIES + 1, Len(logged))
    IN  \A max \in 0 .. MAX_LOG_ENTRIES, min \in Levels \cup {WARNING} :
            get_logs(max, min) = FirstOf(AtLeast(kept, min), max)

\* A name that neither begins another recorded name nor is begun by one, and that
\* was not cut off, keeps its value to itself whatever is recorded under the others:
\* get_metric returns the last value, or 0 where the table was full before it came.
MetricsKeepApart ==
    \A name \in MetricNames :
        /\ recorded[name] # Never
        /\ Len(name) < NAME_LENGTH
        /\ \A other \in MetricNames \ {name} :
              recorded[other] # Never =>
                  ~IsPrefix(name, Kept(other)) /\ ~IsPrefix(other, name)
        => \/ get_metric(name) = recorded[name]
           \/ get_metric(name) = 0 /\ Len(metrics) = MAX_METRICS
=============================================================================
