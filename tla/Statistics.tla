----------------------------- MODULE Statistics -----------------------------
(***************************************************************************)
(* The statistics module (DM_ENG_StatisticsModule.c): its polling thread,  *)
(* the settings and the restart that the sessions of the ACS ask for under *)
(* the lock of the data model, the readings the device gives by itself     *)
(* (DM_ENG_ParameterManager_sampleData) and the end of the agent.  The     *)
(* polling thread gives up both locks to wait and to read the device, and  *)
(* takes them again in their order; it keeps meanwhile a pointer to the    *)
(* node of the object it is at.                                            *)
(***************************************************************************)
EXTENDS Samples

CONSTANTS
  Objects,             \* the statistics objects
  Kinds,               \* their initial states
  SubSampleInterval,   \* how often an object is polled
  RetryDelay,          \* _INITIAL_RETRY_DELAY
  Growths,             \* how the variable of the device may grow, at each time
  StartTime, EndTime,  \* the bounds of the clock
  MaxSettings,         \* how many settings, restarts of the samplings and mishaps
  MaxMishaps,          \* failures and restarts of the device, and readings it gives by itself
  MaxSessions          \* sessions of the ACS

ASSUME StatisticsAssumption ==
  /\ IsFiniteSet(Objects)
  /\ Kinds \subseteq {NewObject(cumulative, sliding) : cumulative, sliding \in BOOLEAN}
  /\ {StartTime, EndTime} \subseteq Nat
  /\ {SubSampleInterval, RetryDelay} \subseteq Nat \ {0}
  /\ Growths \subseteq [StartTime..EndTime -> Nat]
  /\ StartTime > (ReportSamples + 1) * SampleInterval   \* long after time 0

VARIABLES
  objects,     \* the parameters of each object
  dm,          \* the thread that has the lock of the data model
  released,    \* DM_ENG_ParameterManager_release: _dataMutex is gone
  pending,     \* the readings in pendingChanges
  mutex,       \* the thread that has _pollingMutex
  status,      \* _samplingStatus
  list,        \* statsToPoll
  nodes,       \* how many nodes were allocated
  poll,        \* the polling thread: where it is, the node and the reading it has
  leaving,     \* a polling thread is at its end, past its last use of the mutex
  session,     \* the thread of the sessions: is one open
  source,      \* the readings the device has taken and not yet notified
  now, counter, growth,   \* the clock, the counter of the device and how it grows
  restarted,   \* the counter went back to 0 since the last reading
  ready,       \* the device is ready for statistics
  traffic,     \* ghost: all that the counter counted
  excused,     \* ghost: the objects that were enabled while the samplings were starting, the
               \* node whose object was disabled while it was polled, and whether the polling
               \* thread went on without the lock of the data model
  budget       \* counters of settings and sessions

device == <<now, counter, growth, restarted, ready, traffic>>
vars == <<objects, dm, released, pending, mutex, status, list, nodes, poll, leaving, session, source, device,
          excused, budget>>

NoOne == "none"
Poller == "poller"
Acs == "acs"

Node(object, type, id) == [object |-> object, type |-> type, time |-> 0, id |-> id]
NoNode == Node("none", 0, 0)
NoSample == Sample("none", 0, Empty, FALSE, FALSE)
Off == [at |-> "off", node |-> NoNode, time |-> 0, last |-> Empty, sample |-> NoSample]

Listed(x) == \E i \in DOMAIN list : list[i].object = x
Live(node) == \E i \in DOMAIN list : list[i].id = node.id

\* DM_ENG_Device_startSampling: 0 when the device is ready; a stop always succeeds.
startSampling == IF ready THEN 0 ELSE 1

-----------------------------------------------------------------------------
(* The locks *)

Processed(os, sd) == [os EXCEPT ![sd.object] = processSampleData(@, sd)]

\* The objects, once what waits in the queue is processed in its order.
Unlocked(os) ==
  LET after[i \in 0..Len(pending)] == IF i = 0 THEN os ELSE Processed(after[i - 1], pending[i])
  IN after[Len(pending)]

\* DM_ENG_ParameterManager_unlock processes what waits in the queue and removes the lock,
\* whoever took it; it does nothing once the parameters are released.
Unlock(os) ==
  IF released THEN objects' = os /\ UNCHANGED <<dm, pending>>
  ELSE /\ objects' = Unlocked(os)
       /\ pending' = <<>>
       /\ dm' = NoOne

\* The elements of s at the given places, in their order.
Selected(s, places) ==
  LET upTo[i \in 0..Len(s)] ==
        IF i = 0 THEN <<>> ELSE IF i \in places THEN Append(upTo[i - 1], s[i]) ELSE upTo[i - 1]
  IN upTo[Len(s)]

\* A signal is for a thread that waits.
Woken(p) == IF p.at = "waiting" THEN [p EXCEPT !.at = "woken"] ELSE p

\* _signalPolling creates the thread when there is none.
_signalPolling == poll' = IF poll.at = "off" THEN [Off EXCEPT !.at = "start"] ELSE Woken(poll)

-----------------------------------------------------------------------------
(* The polling thread (_runPolling) *)

At(place) == poll.at = place
Goes(place) == poll' = [poll EXCEPT !.at = place]

\* Both locks, in their order, to begin with.
PollStart ==
  /\ At("start") /\ dm = NoOne
  /\ dm' = Poller /\ Goes("entering")
  /\ UNCHANGED <<objects, released, pending, mutex, status, list, nodes, leaving, session, source, device, excused, budget>>

\* The first time, the thread waits for the device, both locks released.
PollEnter ==
  /\ At("entering") /\ mutex = NoOne
  /\ status' = IF status = "INITIAL" THEN "STARTING" ELSE status
  /\ IF (status = "INITIAL" \/ poll.time = 1) /\ startSampling = 1
     THEN poll' = [poll EXCEPT !.at = "unready", !.time = 1] /\ UNCHANGED mutex
     ELSE poll' = [poll EXCEPT !.at = "round", !.time = 0] /\ mutex' = Poller
  /\ UNCHANGED <<objects, dm, released, pending, list, nodes, leaving, session, source, device, excused, budget>>

PollSleep ==
  /\ At("unready")
  /\ Unlock(objects) /\ Goes("start")
  /\ UNCHANGED <<released, mutex, status, list, nodes, leaving, session, source, device, excused, budget>>

\* The list keeps what is enabled and is polled (1 is the minValue of a polled object, that
\* a node of _fillStatsToPoll starts with).
_kept(node) == objects[node.object].enable /\ node.type = 1
_started(o) == IF o.enable THEN [o EXCEPT !.status = IF startSampling = 0 THEN "Enabled" ELSE "Error"] ELSE o
_keptNodes == Selected(list, {i \in DOMAIN list : _kept(list[i])})
_startAllSamplings == [i \in DOMAIN _keptNodes |-> [_keptNodes[i] EXCEPT !.type = 0]]

\* SampleStatus follows Status.
_isSampleEnabled(o) ==
  [o EXCEPT !.sampleStatus = IF ~o.sampleEnable \/ o.status = "Disabled" THEN "Disabled"
                             ELSE IF o.status = "Error" THEN "Error" ELSE "Enabled"]

\* When an object is to be polled: at once when its last poll is old, otherwise after its
\* interval, the delay of its retry or at the end of the sample under way.
_last(node, o) == IF node.time = 0 THEN Number(o.lastTime) ELSE node.time
_due(node, o) == _last(node, o) = 0 \/ _last(node, o) + SubSampleInterval <= now
_sampleTime(base) ==
  IF TimeReference <= base THEN base + SampleInterval - ((base - TimeReference) % SampleInterval)
  ELSE base + ((TimeReference - base) % SampleInterval)
_pollingTime(node, o) ==
  LET last == _last(node, o)
      next == last + (IF node.type > 0 THEN Min({node.type, SubSampleInterval}) ELSE SubSampleInterval)
      end == _sampleTime(IF o.lastTime = Empty \/ node.type > 0 THEN last ELSE o.lastTime)
  IN IF _due(node, o) THEN now
     ELSE IF last < end /\ end < next THEN end ELSE next
_limited(node, o) ==
  IF ~_due(node, o) /\ node.type > SubSampleInterval THEN [node EXCEPT !.type = SubSampleInterval] ELSE node

\* The first object whose time has come; what is passed over has its retry delay limited.
Planned(nodesToPoll, os) ==
  LET Object(i) == os[nodesToPoll[i].object]
      times == {_pollingTime(nodesToPoll[i], Object(i)) : i \in DOMAIN nodesToPoll}
      due == {i \in DOMAIN nodesToPoll : _pollingTime(nodesToPoll[i], Object(i)) <= now}
      limited == [i \in DOMAIN nodesToPoll |->
                    IF due = {} \/ i <= Min(due) THEN _limited(nodesToPoll[i], Object(i)) ELSE nodesToPoll[i]]
  IN /\ list' = limited
     /\ poll' = [at |-> "releasing", sample |-> NoSample,
                 node |-> IF due = {} THEN NoNode ELSE limited[Min(due)],
                 last |-> IF due = {} THEN Empty ELSE Object(Min(due)).lastTime,
                 time |-> IF times = {} THEN 0 ELSE IF due = {} THEN Min(times) ELSE now]

\* A turn of the loop, under the mutex: the samplings are started, an object that is due is
\* chosen, or the time of the next one is; the thread ends when the list is empty.
PollRound ==
  /\ At("round") /\ mutex' = NoOne
  /\ \/ /\ list = <<>>
        /\ leaving' = TRUE /\ poll' = Off
        /\ UNCHANGED <<objects, status, list>>
     \/ /\ list # <<>> /\ status # "STARTING"
        /\ Planned(list, objects)
        /\ UNCHANGED <<objects, status, leaving>>
     \/ /\ list # <<>> /\ status = "STARTING"
        /\ objects' = [x \in Objects |-> IF Listed(x) /\ objects[x].enable THEN _isSampleEnabled(_started(objects[x]))
                                   ELSE objects[x]]
        /\ status' = "RUNNING"
        /\ Planned(_startAllSamplings, objects')
        /\ UNCHANGED leaving
  /\ UNCHANGED <<dm, released, pending, nodes, session, source, device, excused, budget>>

PollUnlock ==
  /\ At("releasing")
  /\ Unlock(objects)
  /\ Goes(IF poll.node = NoNode THEN "planning" ELSE "fetching")
  /\ UNCHANGED <<released, mutex, status, list, nodes, leaving, session, source, device, excused, budget>>

\* The mutex is taken again alone. When a restart or the end came in between, the loop goes
\* on, without the lock of the data model.
Continues ==
  /\ status # "RUNNING"
  /\ mutex' = Poller /\ Goes("round")
  /\ excused' = [excused EXCEPT !.slip = TRUE]

Left == budget.settings + budget.mishaps < MaxSettings
Mishap == Left /\ budget.mishaps < MaxMishaps /\ budget' = [budget EXCEPT !.mishaps = @ + 1]

\* DM_ENG_Device_getSampleData.  The device knows that its counter has restarted and may say
\* so or not (the device adapter itself always says that it goes on).
Readings(x) == {Sample(x, now, counter, continued, FALSE) : continued \in {TRUE, ~restarted}}

PollFetch ==
  /\ At("fetching") /\ mutex = NoOne
  /\ \/ Continues /\ UNCHANGED <<restarted, budget>>
     \/ /\ status = "RUNNING" /\ poll.last < now
        /\ \E sd \in Readings(poll.node.object) : poll' = [poll EXCEPT !.at = "locking", !.sample = sd]
        /\ restarted' = FALSE
        /\ UNCHANGED <<mutex, excused, budget>>
     \/ /\ status = "RUNNING"
        /\ (poll.last >= now /\ UNCHANGED budget) \/ Mishap
        /\ Goes("locking")
        /\ UNCHANGED <<mutex, excused, restarted>>
  /\ UNCHANGED <<objects, dm, released, pending, status, list, nodes, leaving, session, source,
                 now, counter, growth, ready, traffic>>

PollPlan ==
  /\ At("planning") /\ mutex = NoOne
  /\ \/ Continues
     \/ status = "RUNNING" /\ Goes("waiting") /\ UNCHANGED <<mutex, excused>>
  /\ UNCHANGED <<objects, dm, released, pending, status, list, nodes, leaving, session, source, device, budget>>

\* Signalled, or in time; the mutex is taken and released on the way.
PollWake ==
  /\ At("woken") \/ (At("waiting") /\ poll.time <= now)
  /\ mutex = NoOne
  /\ Goes("locking")
  /\ UNCHANGED <<objects, dm, released, pending, mutex, status, list, nodes, leaving, session, source, device, excused, budget>>

PollLock ==
  /\ At("locking") /\ dm = NoOne
  /\ dm' = Poller /\ Goes("delivering")
  /\ UNCHANGED <<objects, released, pending, mutex, status, list, nodes, leaving, session, source, device, excused, budget>>

\* The node gets the time of the poll; without a reading it is to be polled again, after a
\* delay that doubles.
_retry(node) == IF node.type = 0 THEN RetryDelay ELSE 2 * node.type
_polled(node) ==
  IF node.id # poll.node.id THEN node
  ELSE [node EXCEPT !.time = poll.time, !.type = IF poll.sample = NoSample THEN _retry(node) ELSE 0]

PollDeliver ==
  /\ At("delivering") /\ mutex = NoOne
  /\ mutex' = Poller
  /\ poll' = [Off EXCEPT !.at = "round"]
  /\ IF poll.node # NoNode /\ status = "RUNNING"
     THEN /\ list' = [i \in DOMAIN list |-> _polled(list[i])]
          /\ objects' = IF poll.sample = NoSample THEN objects ELSE Processed(objects, poll.sample)
     ELSE UNCHANGED <<objects, list>>
  /\ UNCHANGED <<dm, released, pending, status, nodes, leaving, session, source, device, excused, budget>>

\* The end of a thread, after it has released the mutex.
PollLeave ==
  /\ leaving /\ leaving' = FALSE
  /\ status' = IF status = "EXITING" THEN "INITIAL" ELSE status
  /\ Unlock(objects)
  /\ UNCHANGED <<released, mutex, list, nodes, poll, session, source, device, excused, budget>>

-----------------------------------------------------------------------------
(* The sessions of the ACS *)

SessionOpens ==
  /\ ~session /\ ~released /\ dm = NoOne /\ budget.sessions < MaxSessions
  /\ dm' = Acs /\ session' = TRUE
  /\ budget' = [budget EXCEPT !.sessions = @ + 1]
  /\ UNCHANGED <<objects, released, pending, mutex, status, list, nodes, poll, leaving, source, device, excused>>

SessionCloses ==
  /\ session /\ session' = FALSE
  /\ Unlock(objects)
  /\ UNCHANGED <<released, mutex, status, list, nodes, poll, leaving, source, device, excused, budget>>

\* DM_ENG_StatisticsModule_performParameterSetting, in a session.
Setting == session /\ Left /\ budget' = [budget EXCEPT !.settings = @ + 1]

\* Enable: the node of a new object has no type, and _startAllSamplings drops it.
SetEnable(x) ==
  /\ Setting /\ mutex = NoOne /\ status # "EXITING" /\ startSampling = 0 /\ ~Listed(x)
  /\ objects' = [objects EXCEPT ![x] = _isSampleEnabled([@ EXCEPT !.enable = TRUE, !.status = "Enabled"])]
  /\ list' = Append(list, Node(x, 0, nodes + 1)) /\ nodes' = nodes + 1
  /\ _signalPolling
  /\ excused' = [excused EXCEPT !.early = IF status = "RUNNING" THEN @ ELSE @ \cup {x}]
  /\ UNCHANGED <<dm, released, pending, mutex, status, leaving, session, source, device>>

SetEnableAgain(x) ==
  /\ Setting /\ mutex = NoOne /\ status # "EXITING" /\ (startSampling # 0 \/ Listed(x))
  /\ objects' = [objects EXCEPT ![x] = _isSampleEnabled(_started([@ EXCEPT !.enable = TRUE]))]
  /\ excused' = [excused EXCEPT !.early = IF Listed(x) THEN @ ELSE @ \cup {x}]
  /\ UNCHANGED <<dm, released, pending, mutex, status, list, nodes, poll, leaving, session, source, device>>

\* The node is freed, whatever the polling thread is doing with it.
SetDisable(x) ==
  /\ Setting /\ mutex = NoOne /\ status # "EXITING" /\ objects[x].enable
  /\ objects' = [objects EXCEPT ![x] = _isSampleEnabled([@ EXCEPT !.enable = FALSE, !.status = "Disabled"])]
  /\ list' = Selected(list, {i \in DOMAIN list : list[i].object # x})
  /\ excused' = [excused EXCEPT !.freed = IF poll.node.object = x THEN poll.node.id ELSE @]
  /\ UNCHANGED <<dm, released, pending, mutex, status, nodes, poll, leaving, session, source, device>>

\* Reset: what is not writable, but Status, loses its value.
_reset(o) ==
  [o EXCEPT !.sampleStatus = "none", !.lastTime = Empty, !.reading = Empty, !.stamp = Empty,
            !.total = NoStats, !.current = NoStats, !.report = NoReport, !.aside = 0, !.forced = "no",
            !.since = Len(o.history) + 1, !.from = Len(o.history) + 1]
_resetTotal(o) == [o EXCEPT !.total = NoStats, !.since = Len(o.history) + 1]
_otherSampleSet(o) ==
  [_isSampleEnabled(o) EXCEPT !.current = NoStats, !.report = NoReport, !.aside = 0, !.forced = "no",
                              !.from = Len(o.history) + 1]
_enableSamples(o) == _isSampleEnabled([o EXCEPT !.sampleEnable = ~@])
_forceSample(o) == _pushSample(o, "force", 0)

Settings(o) == {_reset(o), _resetTotal(o), _otherSampleSet(o), _enableSamples(o), _forceSample(o)}

SetOther(x) ==
  /\ Setting
  /\ \E o \in Settings(objects[x]) : o # objects[x] /\ objects' = [objects EXCEPT ![x] = o]
  /\ UNCHANGED <<dm, released, pending, mutex, status, list, nodes, poll, leaving, session, source, device, excused>>

\* DM_ENG_StatisticsModule_restart, when a new part of the data model was downloaded.
_filled(count) == [i \in 1..Cardinality(Objects) |-> Node(SetToSeq(Objects)[i], 1, count + i)]

\* Mutant of Restart: the polling thread is not told.
RestartUnseen ==
  /\ Setting /\ mutex = NoOne
  /\ list' = _filled(nodes) /\ nodes' = nodes + Cardinality(Objects)
  /\ _signalPolling
  /\ UNCHANGED <<objects, dm, released, pending, mutex, status, leaving, session, source, device, excused>>

Restart ==
  /\ Setting /\ mutex = NoOne
  /\ list' = _filled(nodes) /\ nodes' = nodes + Cardinality(Objects)
  /\ status' = IF status = "RUNNING" THEN "STARTING" ELSE status
  /\ _signalPolling
  /\ UNCHANGED <<objects, dm, released, pending, mutex, leaving, session, source, device, excused>>

-----------------------------------------------------------------------------
(* The device and the end of the agent *)

\* A reading the device gives by itself, or that its user interface asks for.
SourceReads ==
  /\ source = <<>> /\ ~released /\ Mishap
  /\ \E x \in Objects : \E sd \in Readings(x) : source' = <<sd>>
  /\ restarted' = FALSE
  /\ UNCHANGED <<objects, dm, released, pending, mutex, status, list, nodes, poll, leaving, session,
                 now, counter, growth, ready, traffic, excused>>

\* DM_ENG_ParameterManager_sampleData
SourceNotifies ==
  /\ source # <<>> /\ ~released /\ source' = <<>>
  /\ IF dm = NoOne
     THEN Unlock(Processed(objects, source[1]))
     ELSE pending' = Append(pending, source[1]) /\ UNCHANGED <<objects, dm>>
  /\ UNCHANGED <<released, mutex, status, list, nodes, poll, leaving, session, device, excused, budget>>

DeviceReady ==
  /\ ~ready /\ ready' = TRUE
  /\ UNCHANGED <<objects, dm, released, pending, mutex, status, list, nodes, poll, leaving, session, source,
                 now, counter, growth, restarted, traffic, excused, budget>>

\* The clock goes on while the polling thread waits, or waits for the lock of a session, and
\* once before the device is ready: a bound.
Tick ==
  /\ now < EndTime /\ (ready \/ now = StartTime)
  /\ poll.at \in {"off", "unready", "waiting"} \/ (session /\ poll.at \in {"start", "locking"})
  /\ now' = now + 1
  /\ \/ /\ counter' = counter + growth[now] /\ traffic' = traffic + growth[now]
        /\ UNCHANGED <<restarted, budget>>
     \/ Mishap /\ counter > 0 /\ counter' = 0 /\ restarted' = TRUE /\ UNCHANGED traffic
  /\ UNCHANGED <<objects, dm, released, pending, mutex, status, list, nodes, poll, leaving, session, source, growth, ready, excused>>

\* DM_ENG_ParameterManager_release and DM_ENG_StatisticsModule_exit: the module is left with
\* an empty list, the lock of the parameters is gone.
Release ==
  /\ ~released /\ ~session /\ (now = EndTime \/ ~ready) /\ dm = NoOne /\ mutex = NoOne
  /\ released' = TRUE /\ status' = "EXITING" /\ list' = <<>>
  /\ poll' = Woken(poll)
  /\ UNCHANGED <<objects, dm, pending, mutex, nodes, leaving, session, source, device, excused, budget>>

\* DM_ENG_StatisticsModule_join returns: the thread has ended.
Ended == released /\ poll.at = "off" /\ ~leaving /\ UNCHANGED vars

\* It never does when it was waiting for the device: its first turn after the end takes the
\* lock of the data model, does not release it, and its second waits for it for ever.
Hung == released /\ At("start") /\ dm = Poller /\ UNCHANGED vars

-----------------------------------------------------------------------------
Init ==
  /\ objects \in [Objects -> Kinds]
  /\ dm = NoOne /\ released = FALSE /\ pending = <<>>
  /\ mutex = NoOne /\ status = "INITIAL"
  /\ list = _filled(0) /\ nodes = Cardinality(Objects)
  /\ poll = [Off EXCEPT !.at = "start"] /\ leaving = FALSE
  /\ session = FALSE /\ source = <<>>
  /\ now = StartTime /\ counter = 0 /\ growth \in Growths /\ restarted = FALSE /\ ready \in BOOLEAN /\ traffic = 0
  /\ excused = [early |-> {}, freed |-> 0, slip |-> FALSE] /\ budget = [settings |-> 0, mishaps |-> 0, sessions |-> 0]

Polls ==
  \/ PollStart \/ PollEnter \/ PollSleep \/ PollRound \/ PollUnlock \/ PollFetch \/ PollPlan
  \/ PollWake \/ PollLock \/ PollDeliver \/ PollLeave

Sets == \E x \in Objects : SetEnable(x) \/ SetEnableAgain(x) \/ SetDisable(x) \/ SetOther(x)

Next ==
  \/ Polls \/ SessionOpens \/ SessionCloses \/ Sets \/ Restart
  \/ SourceReads \/ SourceNotifies \/ DeviceReady \/ Tick \/ Release \/ Ended \/ Hung

Spec == Init /\ [][Next]_vars

-----------------------------------------------------------------------------
(* Properties *)

\* What the objects, the list and the polling thread can be.
StatTypeOK ==
  /\ \A x \in Objects :
       /\ objects[x].status \in {"none", "Enabled", "Disabled", "Error"}
       /\ objects[x].sampleStatus \in {"none", "Enabled", "Disabled", "Error", "Trigger"}
       /\ objects[x].lastTime \in {Empty} \cup StartTime..EndTime
       /\ objects[x].total.sum \in {Empty} \cup 0..(Word - 1)
  /\ dm \in {NoOne, Poller, Acs} /\ mutex \in {NoOne, Poller}
  /\ status \in {"INITIAL", "STARTING", "RUNNING", "EXITING"}
  /\ \A i \in DOMAIN list : list[i].object \in Objects /\ list[i].id \in 1..nodes /\ list[i].type \in 0..(2 * RetryDelay + SubSampleInterval)

_total(entries) == FoldLeft(LAMBDA sum, e : sum + e.value, 0, entries)
_sampled(o) == SelectSeq(SubSeq(o.history, o.from, Len(o.history)), LAMBDA e : e.sampled)

\* What the statistics count did take place: a part of the growth of the counter is never
\* counted twice, and a restart of the counter does not count as traffic (an overflow, which the
\* counter of the model does not reach, reads like a restart).
\* (A reading that comes after a later one makes the next difference overlap.)
TrafficReal ==
  \A x \in Objects : objects[x].cumulative /\ ~objects[x].backwards => _total(objects[x].history) <= traffic

\* Between StartTime and the end of the last period, the report has one sample per period,
\* in each of its lists, and with the sample under way they hold what was counted. (Of the
\* samples forced, those that were followed by a reading in the next period.)
ReportFaithful ==
  \A x \in Objects :
    LET o == objects[x]
        r == o.report
        n == Len(r.sums)
        provisional == IF o.forced = "yes" THEN Number(Last(r.sums)) ELSE 0
    IN (~o.sliding /\ ~o.backwards /\ o.forced # "twice") =>
         /\ n = Len(r.spans) /\ n <= ReportSamples
         /\ n > 0 => /\ r.start + n * SampleInterval >= r.end - SampleInterval
                     /\ (r.start - TimeReference) % SampleInterval = 0
         /\ (_sumCsv(r.sums) - provisional + Number(o.current.sum) + o.aside - _total(_sampled(o))) % Word = 0

\* In sliding mode the current sample is about the readings of the last period, all of them
\* and no other.
SlidingWindow ==
  \A x \in Objects :
    LET o == objects[x]
        window == SelectSeq(_sampled(o), LAMBDA e : e.time + SampleInterval > Last(o.current.times))
    IN (o.sliding /\ ~o.backwards /\ o.current.times # NoList) =>
         /\ Number(o.current.sum) = _total(window) % Word
         /\ o.current.count = Len(window)

\* An object whose Status is Enabled is enabled and polled, whatever was read of it before it
\* was disabled and comes after. (Unless it was enabled while the samplings were starting.)
EnabledIsPolled ==
  (status = "RUNNING" /\ mutex = NoOne) =>
    \A x \in Objects : objects[x].status = "Enabled" => objects[x].enable /\ (Listed(x) \/ x \in excused.early)

\* The polling thread uses the list and the parameters under their locks, and a node that was
\* not freed. (Unless a restart came when it had released them, or its object was disabled.)
PollingOwns ==
  /\ poll.at = "round" => mutex = Poller
  /\ poll.at \in {"round", "releasing"} => dm = Poller \/ excused.slip
  /\ (poll.at \in {"fetching", "locking", "delivering"} /\ status = "RUNNING" /\ poll.node # NoNode)
       => Live(poll.node) \/ excused.freed = poll.node.id
=============================================================================
