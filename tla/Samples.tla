------------------------------- MODULE Samples -------------------------------
(***************************************************************************)
(* What DM_ENG_StatisticsModule.c computes from the readings of a          *)
(* statistics object: the totals since the last reset, the current sample  *)
(* (of the period under way, or of a sliding window) and the report, the   *)
(* lists of the samples of the past periods between StartTime and EndTime. *)
(* The object is a record of its parameters, for one statistical variable; *)
(* a list separated by commas is a sequence.                               *)
(***************************************************************************)
EXTENDS Integers, FiniteSets, SequencesExt, FiniteSetsExt

CONSTANTS
  SampleInterval,    \* the length of a period
  TimeReference,     \* a period begins at this time
  ReportSamples,     \* how many samples the report keeps
  FetchSamples,      \* the ACS is told every so many samples
  CsvValues,         \* how many values !Csv keeps
  Intervals,         \* the upper bounds of the histograms
  Word               \* the number of values of an unsigned int

ASSUME SamplesAssumption ==
  /\ {SampleInterval, ReportSamples, FetchSamples, CsvValues, Word} \subseteq Nat \ {0}
  /\ TimeReference \in Nat
  /\ Intervals \in Seq(Nat)

\* A parameter without value, and an element of a list that is the empty text.
Empty == -1

\* DM_ENG_stringToUint leaves 0 when there is nothing to read.
Number(x) == IF x = Empty THEN 0 ELSE x

\* A list without value is <<>>; the empty text is a list of one empty element.
NoList == <<>>

Zeros == [i \in DOMAIN Intervals |-> 0]

\* The aggregates of the variable under Total or CurrentSample, and those of the node.
NoStats ==
  [last |-> Empty, sum |-> Empty, min |-> Empty, minTime |-> Empty, max |-> Empty, maxTime |-> Empty,
   count |-> Empty, average |-> Empty, csv |-> NoList, histogram |-> Zeros, delays |-> Zeros,
   duration |-> Empty, suspect |-> FALSE, times |-> NoList, durations |-> NoList, suspects |-> NoList]

NoReport == [start |-> Empty, end |-> Empty, sums |-> NoList, spans |-> NoList]

\* The ghosts: history is what was counted, since the place in it of the last reset,
\* from that of the last start of the samples; aside is the sum of the samples the report
\* no longer has; forced tells that the last sample of the report was forced, and that one
\* was kept beside the one that counts it again; newest is the time of the last reading, and
\* backwards tells that a reading came after a later one.
NewObject(cumulative, sliding) ==
  [cumulative |-> cumulative, sliding |-> sliding, enable |-> TRUE, status |-> "none",
   sampleEnable |-> TRUE, sampleStatus |-> "none", lastTime |-> Empty, reading |-> Empty, stamp |-> Empty,
   total |-> NoStats, current |-> NoStats, report |-> NoReport,
   history |-> <<>>, since |-> 1, from |-> 1, aside |-> 0, forced |-> "no", newest |-> 0,
   backwards |-> FALSE]

-----------------------------------------------------------------------------
(* The aggregates *)

\* A value above every bound is in no interval.
_computeHisto(histogram, value) ==
  LET fits == {i \in DOMAIN Intervals : value <= Intervals[i]} IN
  IF fits = {} THEN histogram ELSE [histogram EXCEPT ![Min(fits)] = @ + 1]

\* !Csv keeps the last values.
_lastValues(csv, value) ==
  IF csv = NoList \/ CsvValues = 1 THEN <<value>>
  ELSE SubSeq(csv, Max({1, Len(csv) - CsvValues + 2}), Len(csv)) \o <<value>>

_computeStats(s, value, time) ==
  LET count == Number(s.count) + 1
      lower == s.min = Empty \/ value < s.min
      higher == value > Number(s.max)
  IN [s EXCEPT !.last = value,
               !.sum = IF value > 0 THEN (Number(@) + value) % Word ELSE @,
               !.min = IF lower THEN value ELSE @, !.minTime = IF lower THEN time ELSE @,
               !.max = IF higher THEN value ELSE @, !.maxTime = IF higher THEN time ELSE @,
               !.count = count,
               !.average = ((count - 1) * Number(@) + value) \div count,
               !.csv = _lastValues(@, value),
               !.histogram = _computeHisto(@, value)]

\* Mutant of _addSlidingValue: one value too many is kept.
_addSlidingValueLate(csv, value, valuesToSave) ==
  IF csv = NoList THEN <<value>> ELSE Append(SubSeq(csv, Max({1, Len(csv) - valuesToSave}), Len(csv)), value)

\* The search for the start of what is kept goes from the end and does not look at the
\* first character: a comma there does not count. Nothing is kept of the empty text.
_addSlidingValue(csv, value, valuesToSave) ==
  LET n == Len(csv)
      cuts == n > valuesToSave /\ ~(n = valuesToSave + 1 /\ csv[1] = Empty)
      kept == IF valuesToSave = 0 THEN NoList
              ELSE IF cuts THEN SubSeq(csv, n - valuesToSave + 1, n) ELSE csv
  IN IF kept \in {NoList, <<Empty>>} THEN <<value>> ELSE Append(kept, value)

_sumCsv(csv) == FoldLeft(LAMBDA sum, x : (sum + Number(x)) % Word, 0, csv)
_values(csv) == {i \in DOMAIN csv : csv[i] # Empty}
_countCsv(csv) == Cardinality(_values(csv))
_minCsv(csv) == Min({Word - 1} \cup {csv[i] : i \in _values(csv)})
_maxCsv(csv) == Max({0} \cup {csv[i] : i \in _values(csv)})

\* The place of the least, or greatest, value; the first when there is none below
\* UINT_MAX, or above 0.
_indexOf(csv, value, none) ==
  IF value = none THEN 1 ELSE Min({i \in _values(csv) : csv[i] = value})
_getCsvItem(csv, index) == IF index \in DOMAIN csv THEN csv[index] ELSE Empty

\* The list of the values can be shorter than that of the times, where its first values
\* were empty: the times of the least and the greatest are then those of another reading.
_computeSlidingStats(s, value, valuesToSave) ==
  LET csv == _addSlidingValue(s.csv, value, valuesToSave)
      sum == _sumCsv(csv)
      count == _countCsv(csv)
      min == _minCsv(csv)
      max == _maxCsv(csv)
  IN [s EXCEPT !.last = IF value = Empty THEN @ ELSE value,
               !.csv = csv, !.sum = sum, !.count = count,
               !.min = min, !.minTime = _getCsvItem(s.times, _indexOf(csv, min, Word - 1)),
               !.max = max, !.maxTime = _getCsvItem(s.times, _indexOf(csv, max, 0)),
               !.average = IF count = 0 THEN Empty ELSE sum \div count]

-----------------------------------------------------------------------------
(* The report *)

\* The start of the interval of the grid a time is in. Before the reference, a time on the
\* grid is put in the interval that ends there.
_boundTime(time, interval) ==
  IF time >= TimeReference
  THEN interval * ((time - TimeReference) \div interval) + TimeReference
  ELSE TimeReference - interval * ((TimeReference - time) \div interval + 1)

_intervals(duration) == (duration + SampleInterval - 1) \div SampleInterval

\* How many elements of a list go, and how many are added, for the list to have
\* samplesExpected of them. A list without value counts as the empty text.
_stored(list) == IF list = NoList THEN <<Empty>> ELSE list
_toDrop(stored, samplesExpected, samplesToDrop) ==
  Max({Min({stored, samplesToDrop}), stored - samplesExpected})
_toAdd(stored, samplesExpected, samplesToDrop) ==
  IF stored < samplesToDrop THEN samplesExpected ELSE Max({0, samplesToDrop + samplesExpected - stored})

\* Mutant of _appended: the samples that are missing are not made up for.
_appendedOnly(list, value, samplesExpected, samplesToDrop) ==
  LET stored == IF list = NoList THEN <<>> ELSE list IN
  SubSeq(stored, Min({Len(stored), samplesToDrop}) + 1, Len(stored)) \o <<value>>

\* The missing samples are empty elements; when no element is added, the last is replaced.
_appended(list, value, samplesExpected, samplesToDrop) ==
  LET stored == _stored(list)
      toAdd == _toAdd(Len(stored), samplesExpected, samplesToDrop)
      old == SubSeq(stored, _toDrop(Len(stored), samplesExpected, samplesToDrop) + 1, Len(stored))
  IN IF toAdd = 0 THEN Append(Front(old), value)
     ELSE old \o [i \in 1..(toAdd - 1) |-> Empty] \o <<value>>

\* What is emptied has the empty text as value.
Emptied == [NoStats EXCEPT !.csv = <<Empty>>]

\* The end of a period is also when the ACS has to fetch the report.
_toBeFetched(boundTime, endTime) ==
  LET fetchTime == _boundTime(boundTime, FetchSamples * SampleInterval) IN
  FetchSamples <= ReportSamples /\ endTime < fetchTime /\ fetchTime <= boundTime

_report(o, pushCase, boundTime, endTime) ==
  LET startTime == Number(o.report.start)
      startReport == boundTime - ReportSamples * SampleInterval
      moves == startReport > startTime
      samplesExpected ==
        IF ~moves THEN _intervals(boundTime - startTime) ELSE IF startTime = 0 THEN 1 ELSE ReportSamples
      samplesToDrop == IF moves /\ startTime # 0 THEN _intervals(startReport - startTime) ELSE 0
      stored == _stored(o.report.sums)
      dropped == SubSeq(stored, 1, _toDrop(Len(stored), samplesExpected, samplesToDrop))
      replaces == _toAdd(Len(stored), samplesExpected, samplesToDrop) = 0
      emptied == pushCase # "force" /\ ~o.sliding
  IN [o EXCEPT
       !.report = [start |-> IF ~moves THEN startTime
                             ELSE IF startTime = 0 THEN boundTime - SampleInterval ELSE startReport,
                   end |-> o.lastTime,
                   sums |-> _appended(o.report.sums, o.current.sum, samplesExpected, samplesToDrop),
                   spans |-> _appended(o.report.spans, o.current.duration, samplesExpected, samplesToDrop)],
       !.current = IF emptied THEN Emptied ELSE @,
       !.sampleStatus = IF pushCase = "after" /\ _toBeFetched(boundTime, endTime) THEN "Trigger" ELSE @,
       !.aside = @ + _sumCsv(dropped),
       !.forced = IF @ = "twice" \/ (@ = "yes" /\ ~replaces) THEN "twice"
                  ELSE IF pushCase = "force" THEN "yes" ELSE "no"]

\* Before a reading is counted (argTime is its time): the sample of a period that is over
\* since more than a whole one. After it (argTime is the time of the reading before): that of
\* the period that has ended. Or at once, when the ACS asks for it.
_pushSample(o, pushCase, argTime) ==
  LET boundTime == _boundTime(o.lastTime, SampleInterval)
      endTime == IF o.report.end = Empty THEN argTime ELSE o.report.end
  IN IF \/ o.lastTime = Empty
        \/ pushCase = "before" /\ argTime < boundTime + 2 * SampleInterval
     THEN o
     ELSE IF pushCase = "after" /\ endTime = 0 /\ o.lastTime > boundTime
     THEN [o EXCEPT !.report.end = boundTime]
     ELSE IF (pushCase = "after" /\ boundTime <= endTime) \/ o.lastTime <= endTime
     THEN o
     ELSE _report(o, pushCase, IF pushCase = "after" THEN boundTime ELSE boundTime + SampleInterval, endTime)

-----------------------------------------------------------------------------
(* A reading *)

Sample(object, time, value, continued, suspect) ==
  [object |-> object, time |-> time, value |-> value, continued |-> continued, suspect |-> suspect]

\* Mutant of _delta: the difference is taken as it is, as an unsigned int.
_deltaAnyway(o, sd) ==
  IF sd.value = Empty THEN Empty
  ELSE IF ~o.cumulative THEN sd.value ELSE (sd.value - Number(o.reading)) % Word

\* What a reading adds: the difference with the reading before when the variable is
\* cumulative, provided that it goes on from it.
_delta(o, sd) ==
  IF sd.value = Empty THEN Empty
  ELSE IF ~o.cumulative THEN sd.value
  ELSE IF sd.continued /\ o.reading # Empty /\ sd.value >= o.reading THEN sd.value - o.reading
  ELSE Empty

_withDelay(s, distance) == [s EXCEPT !.delays = _computeHisto(@, distance)]

_processOneData(o, sd, valuesToSave) ==
  LET value == _delta(o, sd)
      counted == value # Empty
      continued == sd.continued /\ o.reading # Empty
      delayed == sd.value # Empty /\ continued /\ o.stamp # Empty /\ sd.time >= o.stamp
      Delayed(s) == IF delayed THEN _withDelay(s, sd.time - o.stamp) ELSE s
      current == IF o.sliding THEN _computeSlidingStats(o.current, value, valuesToSave)
                 ELSE IF counted THEN _computeStats(o.current, value, sd.time) ELSE o.current
  IN [o EXCEPT !.reading = IF sd.value = Empty THEN @ ELSE sd.value,
               !.stamp = IF sd.value = Empty THEN @ ELSE sd.time,
               !.total = Delayed(IF counted THEN _computeStats(@, value, sd.time) ELSE @),
               !.current = IF o.sampleEnable THEN Delayed(current) ELSE @,
               !.history = IF counted
                           THEN Append(@, [time |-> sd.time, value |-> value, sampled |-> o.sampleEnable])
                           ELSE @]

\* How many of the values of the window stay: from the first time that is recent enough.
_valuesToSave(times, time) ==
  LET recent == {i \in DOMAIN times : Number(times[i]) + SampleInterval > time} IN
  IF recent = {} THEN 0 ELSE Len(times) - Min(recent) + 1

_withSpan(o, sd, seconds, valuesToSave) ==
  LET c == o.current
      Slid(list, value) == IF o.sliding THEN _addSlidingValue(list, value, valuesToSave) ELSE list
      durations == Slid(c.durations, seconds)
      suspects == Slid(c.suspects, IF sd.suspect THEN 1 ELSE 0)
      anySuspect == \E i \in DOMAIN suspects : suspects[i] = 1
  IN [o EXCEPT
       !.current = [c EXCEPT
         !.times = Slid(@, sd.time), !.durations = durations, !.suspects = suspects,
         !.duration = IF o.sliding THEN _sumCsv(durations) ELSE Number(@) + seconds,
         !.suspect = IF ~o.sliding THEN @ \/ sd.suspect
                     ELSE IF anySuspect # @ THEN sd.suspect ELSE @]]

_counted(o, sd) ==
  LET pushed == IF o.sampleEnable THEN _pushSample(o, "before", sd.time) ELSE o
      seconds == IF o.lastTime # Empty /\ sd.continued /\ sd.time > o.lastTime THEN sd.time - o.lastTime ELSE 0
      valuesToSave == _valuesToSave(pushed.current.times, sd.time)
      timed == [pushed EXCEPT
                 !.status = "Enabled", !.lastTime = sd.time,
                 !.total.duration = IF seconds > 0 THEN Number(@) + seconds ELSE @,
                 !.total.suspect = @ \/ sd.suspect,
                 !.newest = Max({@, sd.time}), !.backwards = @ \/ sd.time < o.newest]
      spanned == IF o.sampleEnable THEN _withSpan(timed, sd, seconds, valuesToSave) ELSE timed
      processed == _processOneData(spanned, sd, valuesToSave)
  IN IF o.sampleEnable THEN _pushSample(processed, "after", Number(o.lastTime)) ELSE processed

\* Mutant of processSampleData: a reading of an object that was disabled is counted.
processSampleDataAnyway(o, sd) == _counted(o, sd)

\* DM_ENG_StatisticsModule_processSampleData
processSampleData(o, sd) == IF o.enable THEN _counted(o, sd) ELSE o
=============================================================================
