------------------------- MODULE ContainerStatsProofs -------------------------
(* Theorems about ContainerStats, for any containers, readers and time stamps.   *)
EXTENDS ContainerStats, TLAPS

\* The samples of a history are in order of time and none is of the future.
InTime(h, now) ==
  /\ \A i \in 1..Len(h) : h[i] <= now
  /\ Len(h) = HistoryCount => h[2] <= h[1]

\* The pair p was a history h at some moment before or now.
Behind(p, h) ==
  /\ Len(p) = HistoryCount /\ Len(h) = HistoryCount
  /\ p[1] <= h[1] /\ p[2] <= h[2]

\* What collect works with: the history it tested is still long enough when it reads it,
\* and what it has read lies between the published figures and the present history.
Collecting ==
  /\ cpc = "read" => Len(history[cat]) = HistoryCount
  /\ cpc = "publish" => /\ Behind(pair, history[cat])
                        /\ figures[cat] # None => Behind(figures[cat], pair)

StatsInv ==
  /\ TypeOK
  /\ \A c \in Containers : InTime(history[c], clock[c])
  /\ \A c \in Containers : figures[c] # None => Behind(figures[c], history[c])
  /\ Collecting
  /\ TestHolds

----------------------------------------------------------------------------
(* Samples *)

\* What Shift returns.
LEMMA ShiftResult ==
  ASSUME NEW h \in Seq(Times), Len(h) <= HistoryCount, NEW t \in Times
  PROVE  /\ Shift(h, t) \in Seq(Times)
         /\ Len(Shift(h, t)) = IF Len(h) = 0 THEN 1 ELSE 2
         /\ Shift(h, t)[1] = t
         /\ Len(h) # 0 => Shift(h, t)[2] = h[1]
<1>1. CASE h = <<>>
  BY <1>1 DEF Shift
<1>2. CASE h # <<>>
  <2>1. Len(h) # 0 /\ Len(h) \in Nat
    BY <1>2
  <2>2. Head(h) = h[1] /\ h[1] \in Times
    BY <2>1
  <2> QED
    BY <1>2, <2>1, <2>2 DEF Shift
<1> QED
  BY <1>1, <1>2

\* A history without samples.
LEMMA NoSamples ==
  /\ <<>> \in Seq(Times) /\ Len(<<>>) = 0
  /\ \A now : InTime(<<>>, now)
<1>1. <<>> \in Seq(Times) /\ Len(<<>>) = 0
  OBVIOUS
<1>2. ASSUME NEW now PROVE InTime(<<>>, now)
  BY <1>1 DEF InTime, HistoryCount
<1> QED
  BY <1>1, <1>2

\* The two samples of a full history are numbers.
LEMMA SampleNumbers ==
  ASSUME NEW h \in Seq(Times), Len(h) = HistoryCount
  PROVE  h[1] \in Nat /\ h[2] \in Nat
<1>1. 1 \in 1..Len(h) /\ 2 \in 1..Len(h)
  BY DEF HistoryCount
<1>2. h[1] \in Times /\ h[2] \in Times
  BY <1>1
<1> QED
  BY <1>2 DEF Times

\* A sample taken now keeps a history in order, and ahead of whatever it was ahead of.
LEMMA ShiftAhead ==
  ASSUME NEW h \in Seq(Times), Len(h) <= HistoryCount, NEW now \in Times, InTime(h, now)
  PROVE  /\ InTime(Shift(h, now), now)
         /\ Len(h) = HistoryCount => Len(Shift(h, now)) = HistoryCount
         /\ \A p \in Seq(Times) : Behind(p, h) => Behind(p, Shift(h, now))
<1> DEFINE s == Shift(h, now)
<1>1. /\ Len(s) = IF Len(h) = 0 THEN 1 ELSE 2
      /\ s[1] = now
      /\ Len(h) # 0 => s[2] = h[1]
      /\ Len(h) \in Nat
  BY ShiftResult
<1>2. ASSUME Len(h) # 0 PROVE h[1] <= now /\ h[1] \in Nat
  <2>1. 1 \in 1..Len(h)
    BY <1>1, <1>2
  <2>2. h[1] \in Times
    BY <2>1
  <2> QED
    BY <2>1, <2>2 DEF InTime, Times
<1>3. now \in Nat
  BY DEF Times
<1>4. InTime(s, now)
  BY <1>1, <1>2, <1>3 DEF InTime, HistoryCount
<1>5. ASSUME NEW p \in Seq(Times), Behind(p, h) PROVE Behind(p, s)
  <2>1. Len(p) = 2 /\ Len(h) = 2 /\ p[1] <= h[1] /\ p[2] <= h[2] /\ h[2] <= h[1]
    BY <1>5 DEF Behind, InTime, HistoryCount
  <2>2. p[1] \in Nat /\ p[2] \in Nat /\ h[1] \in Nat /\ h[2] \in Nat
    BY <2>1, SampleNumbers DEF HistoryCount
  <2> QED
    BY <1>1, <1>2, <1>3, <2>1, <2>2 DEF Behind, HistoryCount
<1> QED
  BY <1>1, <1>4, <1>5 DEF HistoryCount

----------------------------------------------------------------------------
(* The steps *)

LEMMA InitInv == Init => StatsInv
<1> SUFFICES ASSUME Init PROVE StatsInv
  OBVIOUS
<1>1. 0 \in Times
  BY MaxTimeAssumption DEF Times
<1>2. TypeOK
  <2>1. clock \in [Containers -> Times]
    BY <1>1 DEF Init
  <2>2. history \in [Containers -> Seq(Times)]
    BY NoSamples DEF Init
  <2>3. ASSUME NEW c \in Containers PROVE Len(history[c]) <= HistoryCount
    <3>1. history[c] = <<>>
      BY DEF Init
    <3> QED
      BY <3>1, NoSamples DEF HistoryCount
  <2>4. DOMAIN figures = Containers /\ \A c \in Containers : figures[c] = None
    BY DEF Init
  <2>5. pair \in Seq(Times) /\ Len(pair) <= HistoryCount
    BY NoSamples DEF Init, HistoryCount
  <2> QED
    BY <2>1, <2>2, <2>3, <2>4, <2>5 DEF Init, TypeOK
<1>3. \A c \in Containers : InTime(history[c], clock[c])
  BY NoSamples DEF Init
<1> QED
  BY <1>2, <1>3 DEF Init, StatsInv, Collecting, TestHolds

\* A step that leaves the samples, the figures and the work of collect alone.
LEMMA SameSamples ==
  ASSUME StatsInv, TypeOK', TestHolds',
         UNCHANGED <<clock, history, figures>>,
         cpc' \in {"select", "loop"} \/ UNCHANGED <<cpc, cat, pair>>
  PROVE  StatsInv'
BY DEF StatsInv, Collecting

\* A new sample does not make an old one of the future.
LEMMA SampleInv == ASSUME StatsInv, NEW c \in Containers, Sample(c) PROVE StatsInv'
<1>0. /\ clock[c] < MaxTime /\ clock' = [clock EXCEPT ![c] = clock[c] + 1]
      /\ clock \in [Containers -> Times]
      /\ UNCHANGED <<updaterVars, collectorVars, reading, dead>>
  BY DEF StatsInv, Sample, TypeOK
<1>1. TypeOK'
  <2>1. clock[c] + 1 \in Times
    BY <1>0, MaxTimeAssumption DEF Times
  <2>2. clock' \in [Containers -> Times]
    BY <1>0, <2>1
  <2> QED
    BY <1>0, <2>2 DEF StatsInv, TypeOK, updaterVars, collectorVars
<1>2. ASSUME NEW d \in Containers PROVE InTime(history'[d], clock'[d])
  <2>1. /\ history'[d] = history[d]
        /\ clock[d] \in Nat /\ clock'[d] \in Nat /\ clock[d] <= clock'[d]
        /\ history[d] \in Seq(Times)
    <3>1. clock[d] \in Nat
      BY <1>0 DEF Times
    <3>2. clock'[d] = IF d = c THEN clock[d] + 1 ELSE clock[d]
      BY <1>0
    <3>3. history[d] \in Seq(Times) /\ history'[d] = history[d]
      BY <1>0 DEF StatsInv, TypeOK, updaterVars
    <3> QED
      BY <3>1, <3>2, <3>3
  <2>2. ASSUME NEW i \in 1..Len(history[d]) PROVE history[d][i] <= clock'[d]
    <3>1. history[d][i] \in Times
      BY <2>1
    <3>2. history[d][i] <= clock[d]
      BY DEF StatsInv, InTime
    <3> QED
      BY <2>1, <3>1, <3>2 DEF Times
  <2> QED
    BY <2>1, <2>2 DEF StatsInv, InTime
<1>3. UNCHANGED <<history, figures, cpc, cat, pair, dead>>
  BY DEF Sample, updaterVars, collectorVars
<1> QED
  BY <1>1, <1>2, <1>3 DEF StatsInv, Collecting, TestHolds

\* The sample that Fetch adds to a history keeps every pair behind it.
LEMMA FetchInv == ASSUME StatsInv, Fetch PROVE StatsInv'
<1>1. PICK c \in utodo :
        /\ utodo' = utodo \ {c}
        /\ history' \in {[history EXCEPT ![c] = Shift(@, clock[c])], history}
  BY DEF Fetch
<1>2. UNCHANGED <<clock, minfo, machine, listed, upc, figures, cpc, ctodo, cat, pair,
                  reading, dead>>
  BY DEF Fetch, collectorVars
<1>3. CASE history' = history
  <2>1. TypeOK'
    BY <1>1, <1>2, <1>3 DEF StatsInv, TypeOK
  <2> QED
    BY <1>2, <1>3, <2>1, SameSamples DEF StatsInv, TestHolds
<1>4. CASE history' = [history EXCEPT ![c] = Shift(@, clock[c])]
  <2>1. /\ c \in Containers
        /\ history[c] \in Seq(Times) /\ Len(history[c]) <= HistoryCount
        /\ clock[c] \in Times
        /\ InTime(history[c], clock[c])
        /\ DOMAIN history = Containers
    BY DEF StatsInv, TypeOK
  <2>2. /\ history'[c] = Shift(history[c], clock[c])
        /\ \A d \in Containers \ {c} : history'[d] = history[d]
    BY <1>4, <2>1
  <2>3. /\ Shift(history[c], clock[c]) \in Seq(Times)
        /\ Len(Shift(history[c], clock[c])) <= HistoryCount
        /\ InTime(Shift(history[c], clock[c]), clock[c])
        /\ Len(history[c]) = HistoryCount => Len(history'[c]) = HistoryCount
    <3>1. /\ Shift(history[c], clock[c]) \in Seq(Times)
          /\ Len(Shift(history[c], clock[c])) = IF Len(history[c]) = 0 THEN 1 ELSE 2
      BY <2>1, ShiftResult
    <3>2. /\ InTime(Shift(history[c], clock[c]), clock[c])
          /\ Len(history[c]) = HistoryCount => Len(history'[c]) = HistoryCount
      BY <2>1, <2>2, ShiftAhead
    <3> QED
      BY <3>1, <3>2 DEF HistoryCount
  <2>4. \A q \in Seq(Times), d \in Containers :
          Behind(q, history[d]) => Behind(q, history'[d])
    BY <2>1, <2>2, ShiftAhead
  <2>5. TypeOK'
    <3>1. history' \in [Containers -> Seq(Times)]
      BY <1>4, <2>1, <2>3 DEF StatsInv, TypeOK
    <3>2. \A d \in Containers : Len(history'[d]) <= HistoryCount
      BY <2>2, <2>3 DEF StatsInv, TypeOK
    <3> QED
      BY <1>1, <1>2, <3>1, <3>2 DEF StatsInv, TypeOK
  <2>6. \A d \in Containers : InTime(history'[d], clock'[d])
    BY <1>2, <2>2, <2>3 DEF StatsInv
  <2>7. \A d \in Containers : figures'[d] # None => Behind(figures'[d], history'[d])
    BY <1>2, <2>4 DEF StatsInv, TypeOK
  <2>8. Collecting'
    <3>1. cpc = "read" => cat \in Containers /\ Len(history'[cat]) = HistoryCount
      BY <2>2, <2>3 DEF StatsInv, TypeOK, Collecting
    <3>2. cpc = "publish" => cat \in Containers /\ Behind(pair, history'[cat])
      BY <2>4 DEF StatsInv, TypeOK, Collecting
    <3> QED
      BY <1>2, <3>1, <3>2 DEF StatsInv, Collecting
  <2> QED
    BY <1>2, <2>5, <2>6, <2>7, <2>8 DEF StatsInv, TestHolds
<1> QED
  BY <1>1, <1>3, <1>4

\* The other steps of InitDataHistory change no sample.
LEMMA UpdaterInv == ASSUME StatsInv, Updater PROVE StatsInv'
<1>1. CASE FetchInfo \/ FetchMachine \/ FetchList \/ EndFetch
  <2>1. TypeOK'
    BY <1>1 DEF FetchInfo, FetchMachine, FetchList, EndFetch, StatsInv, TypeOK, collectorVars
  <2>2. UNCHANGED <<clock, history, figures, cpc, cat, pair, dead>>
    BY <1>1 DEF FetchInfo, FetchMachine, FetchList, EndFetch, collectorVars
  <2> QED
    BY <2>1, <2>2, SameSamples DEF StatsInv, TestHolds
<1>2. CASE Fetch
  BY <1>2, FetchInv
<1> QED
  BY <1>1, <1>2 DEF Updater

\* collect passes from the test to the read to the use without losing a sample.
LEMMA CollectorInv == ASSUME StatsInv, Collector PROVE StatsInv'
<1>1. CASE Begin \/ EndLoop \/ BeginPanic
  <2>1. TypeOK'
    BY <1>1 DEF Begin, EndLoop, BeginPanic, StatsInv, TypeOK, updaterVars, collectorVars
  <2>2. /\ UNCHANGED <<clock, history, figures>>
        /\ cpc' \in {"select", "loop"}
        /\ TestHolds'
    BY <1>1 DEF Begin, EndLoop, BeginPanic, updaterVars, collectorVars, StatsInv, TestHolds
  <2> QED
    BY <2>1, <2>2, SameSamples
<1>2. CASE Test
  <2>1. PICK c \in ctodo :
          /\ ctodo' = ctodo \ {c}
          /\ IF Prepared(c) THEN cat' = c /\ cpc' = "read" ELSE UNCHANGED <<cat, cpc>>
    BY <1>2 DEF Test
  <2>2. cpc = "loop" /\ UNCHANGED <<clock, updaterVars, figures, pair, reading, dead>>
    BY <1>2 DEF Test
  <2>3. TypeOK'
    BY <2>1, <2>2, NoneAssumption DEF StatsInv, TypeOK, updaterVars
  <2>4. Collecting'
    BY <2>1, <2>2 DEF Collecting, Prepared, updaterVars
  <2> QED
    BY <2>2, <2>3, <2>4 DEF StatsInv, TestHolds, updaterVars
<1>3. CASE ReadHistory
  <2>1. /\ cpc = "read" /\ pair' = history[cat] /\ cpc' = "publish"
        /\ UNCHANGED <<clock, updaterVars, figures, ctodo, cat, reading, dead>>
    BY <1>3 DEF ReadHistory
  <2>2. /\ cat \in Containers
        /\ history[cat] \in Seq(Times) /\ Len(history[cat]) = HistoryCount
    BY <2>1 DEF StatsInv, TypeOK, Collecting
  <2>3. TypeOK'
    BY <2>1, <2>2 DEF StatsInv, TypeOK, updaterVars
  <2>4. Behind(history[cat], history[cat])
    BY <2>2, SampleNumbers DEF Behind
  <2>5. Collecting'
    BY <2>1, <2>2, <2>4 DEF StatsInv, Collecting, updaterVars
  <2> QED
    BY <2>1, <2>3, <2>5 DEF StatsInv, TestHolds, updaterVars
<1>4. CASE Publish
  <2>1. /\ cpc = "publish" /\ Len(pair) = HistoryCount
        /\ figures' = IF pair[1] > pair[2] THEN [figures EXCEPT ![cat] = pair] ELSE figures
        /\ cpc' = "loop" /\ cat' = None /\ pair' = <<>>
        /\ UNCHANGED <<clock, updaterVars, ctodo, reading, dead>>
    BY <1>4 DEF Publish, Published
  <2>2. cat \in Containers /\ Behind(pair, history[cat]) /\ pair \in Seq(Times)
    BY <2>1 DEF StatsInv, TypeOK, Collecting
  <2>3. TypeOK'
    <3>1. /\ DOMAIN figures' = Containers
          /\ \A c \in Containers :
               \/ figures'[c] = None
               \/ figures'[c] \in Seq(Times) /\ Len(figures'[c]) = HistoryCount
      BY <2>1, <2>2 DEF StatsInv, TypeOK
    <3>2. pair' \in Seq(Times) /\ Len(pair') <= HistoryCount
      BY <2>1, NoSamples DEF HistoryCount
    <3> QED
      BY <2>1, <3>1, <3>2, NoneAssumption DEF StatsInv, TypeOK, updaterVars
  <2>4. \A c \in Containers : figures'[c] # None => Behind(figures'[c], history[c])
    BY <2>1, <2>2 DEF StatsInv, TypeOK
  <2> QED
    BY <2>1, <2>3, <2>4 DEF StatsInv, Collecting, TestHolds, updaterVars
<1>5. CASE PublishPanic
  <2>1. /\ cpc = "publish"
        /\ \/ Len(pair) < HistoryCount /\ dead' = "nil sample"
           \/ dead' = "no statistics"
        /\ UNCHANGED <<clock, updaterVars, collectorVars, reading>>
    BY <1>5 DEF PublishPanic
  <2>2. dead' = "no statistics"
    <3>1. Len(pair) = 2
      BY <2>1 DEF StatsInv, Collecting, Behind, HistoryCount
    <3>2. ~(Len(pair) < HistoryCount)
      BY <3>1 DEF HistoryCount
    <3> QED
      BY <2>1, <3>2
  <2>3. TypeOK'
    BY <2>1, <2>2 DEF StatsInv, TypeOK, updaterVars, collectorVars
  <2> QED
    BY <2>1, <2>2, <2>3, SameSamples DEF TestHolds, updaterVars, collectorVars
<1> QED
  BY <1>1, <1>2, <1>3, <1>4, <1>5 DEF Collector

LEMMA StepInv == ASSUME StatsInv, [Next]_vars PROVE StatsInv'
<1>1. ASSUME NEW c \in Containers, Sample(c) PROVE StatsInv'
  BY <1>1, SampleInv
<1>2. CASE Updater
  BY <1>2, UpdaterInv
<1>3. CASE Collector
  BY <1>3, CollectorInv
<1>4. CASE Race
  <2>1. UNCHANGED <<clock, minfo, machine, listed, history, upc, utodo, figures, cpc, ctodo,
                    cat, pair, reading>> /\ dead' = "race"
    BY <1>4 DEF Race, updaterVars, collectorVars
  <2>2. TypeOK' /\ TestHolds'
    BY <2>1 DEF StatsInv, TypeOK, TestHolds
  <2> QED
    BY <2>1, <2>2, SameSamples
<1>5. ASSUME NEW r \in Readers, BeginRead(r) \/ EndRead(r) PROVE StatsInv'
  <2>1. UNCHANGED <<clock, minfo, machine, listed, history, upc, utodo, figures, cpc, ctodo,
                    cat, pair, dead>> /\ reading' \subseteq reading \cup {r}
    BY <1>5 DEF BeginRead, EndRead, updaterVars, collectorVars
  <2>2. TypeOK' /\ TestHolds'
    BY <2>1 DEF StatsInv, TypeOK, TestHolds
  <2> QED
    BY <2>1, <2>2, SameSamples
<1>6. CASE Restart
  <2>1. TypeOK'
    <3>1. clock' \in [Containers -> Times]
      BY <1>6 DEF Restart, StatsInv, TypeOK
    <3>2. history' \in [Containers -> Seq(Times)]
      BY <1>6, NoSamples DEF Restart
    <3>3. \A c \in Containers : Len(history'[c]) <= HistoryCount
      BY <1>6, NoSamples DEF Restart, HistoryCount
    <3>4. DOMAIN figures' = Containers /\ \A c \in Containers : figures'[c] = None
      BY <1>6 DEF Restart
    <3>5. pair' \in Seq(Times) /\ Len(pair') <= HistoryCount
      BY <1>6, NoSamples DEF Restart, HistoryCount
    <3> QED
      BY <1>6, <3>1, <3>2, <3>3, <3>4, <3>5 DEF Restart, TypeOK
  <2>2. \A c \in Containers : InTime(history'[c], clock'[c])
    BY <1>6, NoSamples DEF Restart
  <2> QED
    BY <1>6, <2>1, <2>2 DEF Restart, StatsInv, Collecting, TestHolds
<1>7. CASE UNCHANGED vars
  <2>1. UNCHANGED <<clock, minfo, machine, listed, history, upc, utodo, figures, cpc, ctodo,
                    cat, pair, reading, dead>>
    BY <1>7 DEF vars, updaterVars, collectorVars
  <2>2. TypeOK' /\ TestHolds'
    BY <2>1 DEF StatsInv, TypeOK, TestHolds
  <2> QED
    BY <2>1, <2>2, SameSamples
<1> QED
  BY <1>1, <1>2, <1>3, <1>4, <1>5, <1>6, <1>7 DEF Next

----------------------------------------------------------------------------
(* Theorems *)

\* The invariant of the two goroutines.
THEOREM Invariance == Spec => []StatsInv
BY InitInv, StepInv, PTL DEF Spec

\* The variables keep their types: a history never has more than two samples, and
\* collect has a container exactly while it works on one (container.go:148-188).
THEOREM TypeCorrect == Spec => []TypeOK
<1>1. StatsInv => TypeOK
  BY DEF StatsInv
<1> QED
  BY <1>1, Invariance, PTL

\* No sample is missing when collect uses a history after it has let go of csLock
\* (container.go:164-168), for any number of containers.
THEOREM TestStillHolds == Spec => []TestHolds
<1>1. StatsInv => TestHolds
  BY DEF StatsInv
<1> QED
  BY <1>1, Invariance, PTL

\* Figures change only where collect publishes a pair of samples that lies ahead of the
\* pair published before (container.go:167-185).
LEMMA StepForward ==
  ASSUME StatsInv, [Next]_vars
  PROVE  \A c \in Containers :
           figures'[c] \notin {None, figures[c]} =>
             /\ figures'[c][1] > figures'[c][2]
             /\ figures[c] # None =>
                  figures'[c][1] >= figures[c][1] /\ figures'[c][2] >= figures[c][2]
<1> SUFFICES ASSUME NEW c \in Containers, figures'[c] \notin {None, figures[c]}
             PROVE  /\ figures'[c][1] > figures'[c][2]
                    /\ figures[c] # None =>
                         /\ figures'[c][1] >= figures[c][1]
                         /\ figures'[c][2] >= figures[c][2]
  OBVIOUS
<1>1. Publish
  BY DEF Next, Sample, Updater, FetchInfo, FetchMachine, FetchList, Fetch, EndFetch,
         Collector, Begin, BeginPanic, Test, ReadHistory, PublishPanic, EndLoop, Race,
         BeginRead, EndRead, Restart, vars, updaterVars, collectorVars
<1>2. /\ cpc = "publish" /\ Len(pair) = HistoryCount
      /\ pair[1] > pair[2] /\ figures' = [figures EXCEPT ![cat] = pair]
  BY <1>1 DEF Publish
<1>3. c = cat /\ figures'[c] = pair
  BY <1>2 DEF StatsInv, TypeOK
<1>4. figures[c] # None => Behind(figures[c], pair)
  BY <1>2, <1>3 DEF StatsInv, Collecting
<1>5. figures[c] # None => figures[c] \in Seq(Times)
  BY DEF StatsInv, TypeOK
<1>6. pair \in Seq(Times)
  BY DEF StatsInv, TypeOK
<1> QED
  BY <1>2, <1>3, <1>4, <1>5, <1>6, SampleNumbers DEF Behind

\* The figures of a container never go back in time, with any number of containers.
THEOREM Forward == Spec => FiguresForward
<1>1. StatsInv /\ [Next]_vars =>
        [\A c \in Containers :
           figures'[c] \notin {None, figures[c]} =>
             /\ figures'[c][1] > figures'[c][2]
             /\ figures[c] # None =>
                  figures'[c][1] >= figures[c][1] /\ figures'[c][2] >= figures[c][2]]_vars
  BY StepForward
<1> QED
  BY <1>1, Invariance, PTL DEF Spec, FiguresForward
==============================================================================
