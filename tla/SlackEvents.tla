----------------------------- MODULE SlackEvents -----------------------------
(***************************************************************************)
(* One event file of mom and its watcher: EventsWatcher of mom/src/        *)
(* events.ts.  A program (often a shell command of mom's own) writes the    *)
(* file, changes it, removes it; the watcher reads it, runs an immediate    *)
(* event, sets a timer for a one-shot and a cron job for a periodic one,    *)
(* and deletes what is done.  All that the watcher keeps is keyed by the    *)
(* file's name, so one file is the whole story.                             *)
(*                                                                          *)
(* The writer is another process: a file may be seen half written, may      *)
(* change between two steps of handleFile(), and between the scan of the    *)
(* directory and the start of the watch.                                    *)
(***************************************************************************)
EXTENDS Integers, FiniteSets

CONSTANTS
  Versions,        \* contents the file may be given, each once
  Kind(_),         \* "immediate", "one-shot", "periodic" or "broken"
  At(_),           \* when a one-shot is due
  MaxDelay,        \* the longest delay setTimeout() can keep
  MaxTries,        \* MAX_RETRIES
  MaxNow, MaxDeaths, MaxWrites, MaxRemoves,   \* bounds
  MaxReading,      \* bound: calls of handleFile() in flight
  NoFile

ASSUME EventsAssumption == MaxDelay \in Int /\ \A v \in Versions : At(v) \in Int

VARIABLES
  disk,            \* the file: its version, if it is whole, its mtime
  now,
  up, watching,    \* the process runs; fs.watch() is on
  startTime,
  pending,         \* a change whose debounced handler has not run
  known,           \* knownFiles has the file
  reading,         \* calls of handleFile() in flight
  live,            \* timers and cron jobs that can still fire
  timer, cron,     \* handles in the maps `timers' and `crons', 0 for none
  written, removed, deaths,
  runs,            \* history: how often a version was executed, up to two
  crossed,         \* history: a change was handled while handleFile() was
                   \* in flight, or came between scan and watch
  clean            \* history: the version on disk was begun when nothing of an
                   \* older one was left, and whole when first read

memory == <<known, reading, live, timer, cron>>
world == <<now, up, watching, startTime, written, removed, deaths>>
eventVars == <<disk, pending, memory, world, runs, crossed, clean>>

File(v, whole) == [of |-> v, whole |-> whole, mtime |-> now]
OnDisk(v) == disk # NoFile /\ disk.of = v
Handles(S) == {s.n : s \in S}
Unused == CHOOSE n \in 1..(Cardinality(reading) + Cardinality(live) + 1) :
            n \notin Handles(reading) \cup Handles(live)

EventsInit ==
  /\ disk = NoFile /\ now = 0 /\ up = FALSE /\ watching = FALSE /\ startTime = 0
  /\ pending = FALSE /\ known = FALSE /\ reading = {} /\ live = {}
  /\ timer = 0 /\ cron = 0 /\ written = {} /\ removed = {} /\ deaths = 0
  /\ runs = [v \in Versions |-> 0] /\ crossed = FALSE /\ clean = TRUE

-----------------------------------------------------------------------------
(* The writer.  A change made before the watch is on is not reported.       *)
Reported ==
  /\ pending' = (pending \/ watching)
  /\ crossed' = (crossed \/ (up /\ ~watching))
Settled == ~pending /\ reading = {} /\ live = {}

Writes(v, whole) ==
  /\ v \notin written /\ Cardinality(written) < MaxWrites /\ (disk # NoFile => disk.whole)
  /\ disk' = File(v, whole) /\ written' = written \cup {v}
  /\ clean' = Settled /\ Reported
  /\ UNCHANGED <<memory, now, up, watching, startTime, removed, deaths, runs>>
Completes ==
  /\ disk # NoFile /\ ~disk.whole
  /\ disk' = File(disk.of, TRUE) /\ Reported
  /\ clean' = (clean /\ reading = {})
  /\ UNCHANGED <<memory, world, runs>>
Removes ==
  /\ disk # NoFile /\ disk.whole /\ Cardinality(removed) < MaxRemoves
  /\ disk' = NoFile /\ removed' = removed \cup {disk.of} /\ Reported
  /\ UNCHANGED <<memory, now, up, watching, startTime, written, deaths, runs, clean>>
TimePasses ==
  /\ now < MaxNow /\ now' = now + 1
  /\ UNCHANGED <<disk, pending, memory, up, watching, startTime, written, removed,
                 deaths, runs, crossed, clean>>

-----------------------------------------------------------------------------
(* start(): scanExisting(), then the watch.  stop() and the death of the    *)
(* process lose all that is in memory.                                      *)
HandleFile(R) == R \cup {[n |-> Unused, tries |-> 0, got |-> NoFile]}
Starts ==
  /\ ~up /\ up' = TRUE /\ startTime' = now /\ crossed' = FALSE
  /\ reading' = IF disk = NoFile THEN {} ELSE HandleFile({})
  /\ UNCHANGED <<disk, pending, known, live, timer, cron, now, watching, written,
                 removed, deaths, runs, clean>>
Watches ==
  /\ up /\ ~watching /\ watching' = TRUE
  /\ UNCHANGED <<disk, pending, memory, now, up, startTime, written, removed,
                 deaths, runs, crossed, clean>>
Stops ==
  /\ up /\ deaths < MaxDeaths /\ deaths' = deaths + 1
  /\ up' = FALSE /\ watching' = FALSE /\ pending' = FALSE /\ known' = FALSE
  /\ reading' = {} /\ live' = {} /\ timer' = 0 /\ cron' = 0 /\ crossed' = FALSE
  /\ UNCHANGED <<disk, now, startTime, written, removed, runs, clean>>

-----------------------------------------------------------------------------
(* cancelScheduled(): of the timers and jobs that live, those in the maps.  *)
Cancelled == {s \in live : s.n \notin {timer, cron}}
CancelScheduledNone == UNCHANGED <<live, timer, cron>>           \* mutant
CancelScheduled == live' = Cancelled /\ timer' = 0 /\ cron' = 0

(* handleFileChange(), after the debounce.                                  *)
HandleFileChange ==
  /\ watching /\ pending /\ Cardinality(reading) < MaxReading /\ pending' = FALSE
  /\ crossed' = (crossed \/ reading # {})
  /\ IF known THEN CancelScheduled ELSE UNCHANGED <<live, timer, cron>>
  /\ IF disk = NoFile THEN known' = FALSE /\ UNCHANGED reading
     ELSE reading' = HandleFile(reading) /\ UNCHANGED known
  /\ UNCHANGED <<disk, world, runs, clean>>

(* One try of handleFile() to read and parse the file.                      *)
Parsed == disk # NoFile /\ disk.whole /\ Kind(disk.of) # "broken"
Reads(h) ==
  /\ h \in reading /\ h.got = NoFile /\ h.tries < MaxTries
  /\ reading' = (reading \ {h}) \cup
       {IF Parsed THEN [h EXCEPT !.got = disk.of] ELSE [h EXCEPT !.tries = @ + 1]}
  /\ UNCHANGED <<disk, pending, known, live, timer, cron, world, runs, crossed, clean>>

(* deleteFile(): whatever the file now holds.  The deletion is reported.    *)
DeleteFile ==
  /\ disk' = NoFile /\ known' = FALSE /\ pending' = (pending \/ disk # NoFile)
(* execute().  The queue of the channel may be full: the event is then      *)
(* dropped, and its file deleted all the same.                              *)
Executed(v) == [runs EXCEPT ![v] = IF @ < 2 THEN @ + 1 ELSE 2]

GivesUp(h) ==
  /\ h \in reading /\ h.got = NoFile /\ h.tries = MaxTries /\ watching
  /\ reading' = reading \ {h} /\ DeleteFile
  /\ UNCHANGED <<live, timer, cron, world, runs, crossed, clean>>

Got(h, kind) ==
  /\ h \in reading /\ h.got # NoFile /\ Kind(h.got) = kind /\ watching
  /\ reading' = reading \ {h}
  /\ UNCHANGED <<world, crossed, clean>>

(* handleImmediate(): an event older than the watcher is stale.             *)
HandleImmediateStricter(h) ==                                      \* mutant
  /\ Got(h, "immediate") /\ UNCHANGED <<live, timer, cron>>
  /\ IF disk = NoFile THEN known' = TRUE /\ UNCHANGED <<disk, pending, runs>>
     ELSE /\ DeleteFile
          /\ runs' = IF disk.mtime <= startTime THEN runs ELSE Executed(h.got)
HandleImmediate(h) ==
  /\ Got(h, "immediate") /\ UNCHANGED <<live, timer, cron>>
  /\ IF disk = NoFile THEN known' = TRUE /\ UNCHANGED <<disk, pending, runs>>
     ELSE /\ DeleteFile
          /\ runs' = IF disk.mtime < startTime THEN runs ELSE Executed(h.got)

(* handleOneShot(): a delay too long for setTimeout() is taken as 1 ms, and *)
(* so is that of an `at' that is no date.                                   *)
Due(v) == IF At(v) - now > MaxDelay THEN now ELSE At(v)
HandleOneShot(h) ==
  /\ Got(h, "one-shot") /\ UNCHANGED <<cron, runs>>
  /\ IF At(h.got) <= now THEN DeleteFile /\ UNCHANGED <<live, timer>>
     ELSE /\ known' = TRUE /\ timer' = h.n
          /\ live' = live \cup {[n |-> h.n, v |-> h.got, due |-> Due(h.got)]}
          /\ UNCHANGED <<disk, pending>>

HandlePeriodic(h) ==
  /\ Got(h, "periodic") /\ UNCHANGED <<disk, pending, timer, runs>>
  /\ known' = TRUE /\ cron' = h.n
  /\ live' = live \cup {[n |-> h.n, v |-> h.got, due |-> 0]}

FiresKeeps(s) ==                                                 \* mutant
  /\ s \in live /\ Kind(s.v) = "one-shot" /\ now >= s.due
  /\ live' = live \ {s} /\ timer' = 0 /\ runs' = Executed(s.v)
  /\ UNCHANGED <<disk, known, pending, reading, cron, world, crossed, clean>>
Fires(s) ==
  /\ s \in live /\ Kind(s.v) = "one-shot" /\ now >= s.due
  /\ live' = live \ {s} /\ timer' = 0 /\ runs' = Executed(s.v) /\ DeleteFile
  /\ UNCHANGED <<reading, cron, world, crossed, clean>>
Repeats(s) ==
  /\ s \in live /\ Kind(s.v) = "periodic" /\ runs' = Executed(s.v)
  /\ UNCHANGED <<disk, pending, memory, world, crossed, clean>>

Handler == \E h \in reading : \/ Reads(h) \/ GivesUp(h)
                              \/ HandleImmediate(h) \/ HandleOneShot(h) \/ HandlePeriodic(h)
Timeout == \E s \in live : Fires(s)

EventsNext ==
  \/ \E v \in Versions, whole \in BOOLEAN : Writes(v, whole)
  \/ Completes \/ Removes \/ TimePasses
  \/ Starts \/ Watches \/ Stops
  \/ HandleFileChange \/ Handler \/ Timeout
  \/ \E s \in live : Repeats(s)

EventsSpec == EventsInit /\ [][EventsNext]_eventVars
(* The event loop of a process that is up goes on, and time passes.         *)
EventsFairness ==
  /\ WF_eventVars(Watches) /\ WF_eventVars(HandleFileChange) /\ WF_eventVars(Handler)
  /\ WF_eventVars(Timeout) /\ WF_eventVars(TimePasses)
EventsFairSpec == EventsSpec /\ EventsFairness

-----------------------------------------------------------------------------
Once == {v \in Versions : Kind(v) \in {"immediate", "one-shot"}}

(* An immediate event or a one-shot is executed once, also when its file is *)
(* written in two steps, changed or removed at any point and the process    *)
(* restarted, and a one-shot not before its time.  The exceptions: a change *)
(* handled while handleFile() was in flight, which leaves two calls of it   *)
(* on one content; and a timer set farther ahead than setTimeout() can      *)
(* wait, which is due as soon as it is set.                                 *)
TooFar(s) == At(s.v) - s.due > MaxDelay
RunOnceInTime ==
  [][\A v \in Once : runs'[v] > runs[v] =>
       /\ runs[v] = 0 \/ crossed
       /\ Kind(v) = "one-shot" =>
            now >= At(v) \/ \E s \in live : s.v = v /\ TooFar(s)]_eventVars

(* When no change is left to handle, what can still fire is what the file   *)
(* calls for: nothing for no file, and a changed file has lost its old      *)
(* schedule.  The same exception: the call that was in flight is not        *)
(* cancelled and overwrites the handle in the map, whose timer lives on.    *)
CalledFor == IF disk # NoFile /\ Kind(disk.of) \in {"one-shot", "periodic"} THEN {disk.of} ELSE {}
ScheduledAsOnDisk ==
  watching /\ ~pending /\ reading = {} /\ ~crossed =>
    {s.v : s \in live} = CalledFor /\ Cardinality(live) <= 1

(* An event that comes when nothing of an older one is left, and is whole   *)
(* before it is read, is executed, unless its writer changes it again or    *)
(* mom stops.  An older one whose timer fires, or whose handling ends,      *)
(* after the file was rewritten deletes the new content unseen.             *)
Promised(v) ==
  /\ watching /\ clean /\ ~crossed /\ OnDisk(v) /\ disk.whole
  /\ \/ Kind(v) = "immediate" /\ disk.mtime >= startTime
     \/ Kind(v) = "one-shot" /\ \E s \in live : s.v = v
Excused(v) == ~up \/ crossed \/ v \in removed \/ \E w \in Versions : w # v /\ OnDisk(w)
EventIsRun == \A v \in Once : Promised(v) ~> runs[v] > 0 \/ Excused(v)
=============================================================================
