---------------------------- MODULE ContainerStats ----------------------------
(***************************************************************************)
(* The statistics of one Monitor (monitor/container.go): InitDataHistory   *)
(* fetches samples of the machine and of the containers, collect turns the *)
(* last two of each container into the figures that GetContainerStat hands *)
(* out.  The two goroutines share                                          *)
(*                                                                         *)
(*   - the list of containers and the machine's samples, behind            *)
(*     currentContainersLock;                                              *)
(*   - the history, which is written with csLock held, tested with it held *)
(*     and then read without it;                                           *)
(*   - the figures, which are written without any lock and read with       *)
(*     currentContainersLock held.                                         *)
(*                                                                         *)
(* The Go runtime may stop the process when a map is written while it is   *)
(* read or written by another.                                             *)
(***************************************************************************)
EXTENDS Naturals, Sequences

CONSTANTS
  Containers,  \* ids of the containers on the node
  Readers,     \* concurrent calls of GetContainerStat
  None,        \* no container, no figures
  MaxTime      \* bound on the time stamps of samples

ASSUME NoneAssumption == None \notin Containers
ASSUME MaxTimeAssumption == MaxTime \in Nat

VARIABLES
  clock,    \* clock[c]: the time stamp of cAdvisor's last sample of c, 0 for none
  minfo,    \* the machine's description has been fetched
  machine,  \* what is known of machinestats: "few" than two samples, two that are the
            \* "same", or two that are "apart"
  listed,   \* currentContainers
  history,  \* containerStatHistory: the time stamps of c's last samples, newest first
  figures,  \* containerstats: figures[c] is the pair of samples they come from, or None
  upc,      \* where InitDataHistory is
  utodo,    \* the containers its loop has yet to fetch
  cpc,      \* where collect is
  ctodo,    \* the containers its loop has yet to work out
  cat,      \* the container it is at, or None
  pair,     \* the history of that container as it was read
  reading,  \* the readers in the middle of a read of containerstats
  dead      \* why the process has stopped, or "no"

updaterVars == <<minfo, machine, listed, history, upc, utodo>>
collectorVars == <<figures, cpc, ctodo, cat, pair>>
vars == <<clock, updaterVars, collectorVars, reading, dead>>

HistoryCount == 2  \* containerHistoryCount

\* Whether csLock is held, by the loop of UpdateContainerStat.
csLocked == upc = "fetch"

\* cAdvisor takes a sample of c.
Sample(c) ==
  /\ clock[c] < MaxTime
  /\ clock' = [clock EXCEPT ![c] = @ + 1]
  /\ UNCHANGED <<updaterVars, collectorVars, reading, dead>>

----------------------------------------------------------------------------
(* InitDataHistory *)

\* MachineInfo is asked for once.  When the request fails minfo stays nil.
FetchInfo ==
  /\ upc = "start"
  /\ minfo' \in BOOLEAN
  /\ upc' = "select"
  /\ UNCHANGED <<clock, machine, listed, history, utodo, collectorVars, reading, dead>>

\* UpdateMachineStats, at a tick.  A request that fails changes nothing.
FetchMachine ==
  /\ upc = "select"
  /\ machine' \in {machine, "few", "same", "apart"}
  /\ upc' = "list"
  /\ UNCHANGED <<clock, minfo, listed, history, utodo, collectorVars, reading, dead>>

\* UpdateCurrentContainers lists the containers, or leaves the list as it was;
\* UpdateContainerStat takes csLock.
FetchList ==
  /\ upc = "list"
  /\ listed' \in {listed} \cup SUBSET Containers
  /\ utodo' = listed'
  /\ upc' = "fetch"
  /\ UNCHANGED <<clock, minfo, machine, history, collectorVars, reading, dead>>

\* Seeded fault: the oldest sample is not shifted out.
ShiftGrowing(h, sample) == <<sample>> \o h

\* The samples of a container when a new one comes in.
Shift(h, sample) == IF h = <<>> THEN <<sample>> ELSE <<sample, Head(h)>>

\* Seeded fault: the history of a container that cannot be fetched is dropped.
FetchDropping ==
  /\ upc = "fetch"
  /\ \E c \in utodo :
       /\ utodo' = utodo \ {c}
       /\ history' \in {[history EXCEPT ![c] = Shift(@, clock[c])],
                       [history EXCEPT ![c] = <<>>]}
  /\ UNCHANGED <<clock, minfo, machine, listed, upc, collectorVars, reading, dead>>

\* The last sample of the next container is fetched.  It may be the one the history has
\* already, and a new container may have none.  A request that fails leaves the history
\* alone.
Fetch ==
  /\ upc = "fetch"
  /\ \E c \in utodo :
       /\ utodo' = utodo \ {c}
       /\ history' \in {[history EXCEPT ![c] = Shift(@, clock[c])], history}
  /\ UNCHANGED <<clock, minfo, machine, listed, upc, collectorVars, reading, dead>>

\* csLock is released.
EndFetch ==
  /\ upc = "fetch" /\ utodo = {}
  /\ upc' = "select"
  /\ UNCHANGED <<clock, minfo, machine, listed, history, utodo, collectorVars, reading,
                 dead>>

----------------------------------------------------------------------------
(* collect: ContainerMetrics *)

\* A tick without two samples of the machine does nothing.  With them the list is read.
Begin ==
  /\ cpc = "select" /\ minfo /\ machine = "apart"
  /\ ctodo' = listed
  /\ cpc' = "loop"
  /\ UNCHANGED <<clock, updaterVars, figures, cat, pair, reading, dead>>

\* A description that is missing is dereferenced, two samples that are the same divide by
\* zero.
BeginPanic ==
  /\ cpc = "select" /\ machine # "few"
  /\ \/ ~minfo /\ dead' = "nil minfo"
     \/ minfo /\ machine = "same" /\ dead' = "zero total"
  /\ UNCHANGED <<clock, updaterVars, collectorVars, reading>>

Prepared(c) == Len(history[c]) = HistoryCount

\* ContainerPrepared, with csLock held, for the next container: without two samples it
\* is passed over.
Test ==
  /\ cpc = "loop" /\ ~csLocked
  /\ \E c \in ctodo :
       /\ ctodo' = ctodo \ {c}
       /\ IF Prepared(c)
          THEN cat' = c /\ cpc' = "read"
          ELSE UNCHANGED <<cat, cpc>>
  /\ UNCHANGED <<clock, updaterVars, figures, pair, reading, dead>>

\* The history is read without csLock.
ReadHistory ==
  /\ cpc = "read"
  /\ pair' = history[cat]
  /\ cpc' = "publish"
  /\ UNCHANGED <<clock, updaterVars, figures, ctodo, cat, reading, dead>>

\* A sample that is missing is dereferenced; one without any statistics is indexed.
PublishPanic ==
  /\ cpc = "publish"
  /\ \/ Len(pair) < HistoryCount /\ dead' = "nil sample"
     \/ Len(pair) = HistoryCount /\ 0 \in {pair[1], pair[2]} /\ dead' = "no statistics"
  /\ UNCHANGED <<clock, updaterVars, collectorVars, reading>>

Published ==
  /\ cpc' = "loop"
  /\ cat' = None
  /\ pair' = <<>>
  /\ UNCHANGED <<clock, updaterVars, ctodo, reading, dead>>

\* Seeded fault: the time between the samples is not looked at.
PublishAlways ==
  /\ cpc = "publish" /\ Len(pair) = HistoryCount /\ 0 \notin {pair[1], pair[2]}
  /\ figures' = [figures EXCEPT ![cat] = pair]
  /\ Published

\* Figures are published, unless no time passed between the samples.
Publish ==
  /\ cpc = "publish" /\ Len(pair) = HistoryCount /\ 0 \notin {pair[1], pair[2]}
  /\ figures' = IF pair[1] > pair[2] THEN [figures EXCEPT ![cat] = pair] ELSE figures
  /\ Published

EndLoop ==
  /\ cpc = "loop" /\ ctodo = {}
  /\ cpc' = "select"
  /\ UNCHANGED <<clock, updaterVars, figures, ctodo, cat, pair, reading, dead>>

\* GetContainerStat reads a figure.
BeginRead(r) ==
  /\ r \notin reading
  /\ reading' = reading \cup {r}
  /\ UNCHANGED <<clock, updaterVars, collectorVars, dead>>

EndRead(r) ==
  /\ r \in reading
  /\ reading' = reading \ {r}
  /\ UNCHANGED <<clock, updaterVars, collectorVars, dead>>

\* The runtime finds a map written while it is used elsewhere: the history, which the
\* loop of UpdateContainerStat writes while collect reads it, or the figures, which
\* collect writes while GetContainerStat reads them.
Race ==
  /\ \/ csLocked /\ utodo # {} /\ cpc = "read"
     \/ cpc = "publish" /\ reading # {}
  /\ dead' = "race"
  /\ UNCHANGED <<clock, updaterVars, collectorVars, reading>>

----------------------------------------------------------------------------
(* Specification *)

Init ==
  /\ clock = [c \in Containers |-> 0]
  /\ minfo = FALSE
  /\ machine = "few"
  /\ listed = {}
  /\ history = [c \in Containers |-> <<>>]
  /\ figures = [c \in Containers |-> None]
  /\ upc = "start"
  /\ utodo = {}
  /\ cpc = "select"
  /\ ctodo = {}
  /\ cat = None
  /\ pair = <<>>
  /\ reading = {}
  /\ dead = "no"

\* The process starts again, with nothing left of what it knew.
Restart ==
  /\ dead # "no"
  /\ minfo' = FALSE
  /\ machine' = "few"
  /\ listed' = {}
  /\ history' = [c \in Containers |-> <<>>]
  /\ figures' = [c \in Containers |-> None]
  /\ upc' = "start"
  /\ utodo' = {}
  /\ cpc' = "select"
  /\ ctodo' = {}
  /\ cat' = None
  /\ pair' = <<>>
  /\ reading' = {}
  /\ dead' = "no"
  /\ UNCHANGED clock

Updater == FetchInfo \/ FetchMachine \/ FetchList \/ Fetch \/ EndFetch

Collector ==
  Begin \/ BeginPanic \/ Test \/ ReadHistory \/ PublishPanic \/ Publish \/ EndLoop

Next ==
  \/ \E c \in Containers : Sample(c)
  \/ dead = "no" /\ (Updater \/ Collector \/ Race)
  \/ dead = "no" /\ \E r \in Readers : BeginRead(r) \/ EndRead(r)
  \/ Restart

Spec == Init /\ [][Next]_vars

----------------------------------------------------------------------------
(* Properties *)

Times == 0..MaxTime

\* The types of the variables: a history has two samples at most, and collect has a
\* container and its samples exactly while it works on one.
TypeOK ==
  /\ clock \in [Containers -> Times]
  /\ minfo \in BOOLEAN
  /\ machine \in {"few", "same", "apart"}
  /\ listed \subseteq Containers
  /\ history \in [Containers -> Seq(Times)]
  /\ \A c \in Containers : Len(history[c]) <= HistoryCount
  /\ DOMAIN figures = Containers
  /\ \A c \in Containers : \/ figures[c] = None
                           \/ figures[c] \in Seq(Times) /\ Len(figures[c]) = HistoryCount
  /\ upc \in {"start", "select", "list", "fetch"}
  /\ utodo \subseteq Containers
  /\ cpc \in {"select", "loop", "read", "publish"}
  /\ ctodo \subseteq Containers
  /\ cat \in Containers \cup {None}
  /\ cat = None <=> cpc \in {"select", "loop"}
  /\ pair \in Seq(Times) /\ Len(pair) <= HistoryCount
  /\ reading \subseteq Readers
  /\ dead \in {"no", "nil minfo", "zero total", "nil sample", "no statistics", "race"}

\* A container that has passed ContainerPrepared never shows fewer than two samples
\* afterwards, although csLock is released before its history is read: no update of the
\* history, between the test and the use, takes a sample away.
TestHolds == dead # "nil sample"

\* The figures of a container never go back to older samples and always span some time,
\* however the two goroutines interleave and whichever requests fail.
FiguresForward ==
  [][\A c \in Containers :
       figures'[c] \notin {None, figures[c]} =>
         /\ figures'[c][1] > figures'[c][2]
         /\ figures[c] # None =>
              figures'[c][1] >= figures[c][1] /\ figures'[c][2] >= figures[c][2]]_vars
==============================================================================
