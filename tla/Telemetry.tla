----------------------------- MODULE Telemetry -----------------------------
(***************************************************************************)
(* Event telemetry: log and the flush thread of client/src/                *)
(* cll_telemetry.rs over the EventManager, batches and configurations of   *)
(* crates/cll-telemetry.                                                   *)
(*                                                                         *)
(* Both run under one mutex, which the flush thread holds for a whole      *)
(* pass; the process may be killed between any two steps.  Real time       *)
(* events wait in memory.  The others go to one file for critical and one  *)
(* for normal events, normal ones through a buffer.  A file is a sequence  *)
(* of lines, and a line the events written into it: rewriting a file       *)
(* leaves its last line without a newline, so the next event joins it.     *)
(* fs::write rewrites a file in two steps: it is cut to nothing first.     *)
(***************************************************************************)
EXTENDS Integers, SequencesExt

CONSTANTS
    Events,          \* events the game logs
    Critical,        \* those flagged PERSISTENCE_CRITICAL
    Realtime,        \* those flagged LATENCY_REALTIME
    MemoryLimit,     \* 50 in the code
    Configs,         \* the settings documents, in order
    Limits,          \* values of MAXEVENTSPERPOST a server may send
    DefaultLimit,    \* 500 in the code
    MaxCrashes       \* bound

ASSUME TelemetryAssumption ==
    /\ Critical \subseteq Events /\ Realtime \subseteq Events
    /\ MemoryLimit \in Nat \ {0} /\ Configs \in Seq(STRING)
    /\ Limits \subseteq Nat /\ DefaultLimit \in Nat \ {0}
    /\ MaxCrashes \in Nat

Stores == {"crit", "normal"}
NoLimit == -1

VARIABLES
    realtime,     \* EventManager.realtime_memory
    buffer,       \* normal_batch.memory
    disk,         \* store -> lines; <<>> is no file
    unfinished,   \* stores whose file does not end in a newline
    hollow,       \* stores whose file was cut, and is there with nothing in it
    flush,        \* what the flush thread does
    sending,      \* lines of the post that is under way, or of the file being rewritten
    config,       \* settings document -> limit, or NoLimit
    cached,       \* FileConfigurationCache.cache, as read at start-up
    cacheFile,    \* the file behind it
    logged,       \* history: events given to log()
    delivered,    \* history: the events the server took, each in a line of its own
    joined,       \* history: those it took joined to others in a line
    crashes,
    lost,         \* history: events a kill took out of memory
    torn          \* history: stored events a kill took while their file was rewritten

fileVars == <<disk, unfinished, hollow>>
configVars == <<config, cached, cacheFile>>
historyVars == <<logged, delivered, joined, crashes, lost, torn>>
telemetryVars == <<realtime, buffer, fileVars, flush, sending, configVars, historyVars>>

Lines == Seq(Seq(Events))
Names == ToSet(Configs)

TelemetryTypeOK ==
    /\ {realtime, buffer} \subseteq Seq(Events)
    /\ Len(realtime) <= MemoryLimit /\ Len(buffer) <= MemoryLimit
    /\ disk \in [Stores -> Lines] /\ unfinished \subseteq Stores /\ hollow \subseteq Stores
    /\ flush \in {"idle", "realtime", "config", "crit", "normal",
                  "critSent", "normalSent", "critCut", "normalCut"}
    /\ sending \in Lines
    /\ {config, cached, cacheFile} \subseteq [Names -> {NoLimit} \cup Limits]
    /\ {logged, lost, torn, delivered, joined} \subseteq SUBSET Events
    /\ crashes \in 0 .. MaxCrashes

TelemetryInit ==
    /\ realtime = <<>> /\ buffer = <<>>
    /\ disk = [s \in Stores |-> <<>>] /\ unfinished = {} /\ hollow = {}
    /\ flush = "idle" /\ sending = <<>>
    /\ config = [c \in Names |-> NoLimit]
    /\ cached = [c \in Names |-> NoLimit]
    /\ cacheFile = [c \in Names |-> NoLimit]
    /\ logged = {} /\ delivered = {} /\ joined = {}
    /\ crashes = 0 /\ lost = {} /\ torn = {}

(***************************************************************************)
(* Batches                                                                 *)
(***************************************************************************)
(* FileEventBatch.add_event appends to the active file.  *)
Appended(lines, events, open) ==
    LET fresh == [k \in DOMAIN events |-> <<events[k]>>]
    IN  IF events = <<>> \/ ~open \/ lines = <<>> THEN lines \o fresh
        ELSE Front(lines) \o <<Append(Last(lines), events[1])>> \o Tail(fresh)

(* Mutant: the buffer is written out and not emptied. *)
BufferedKept(events) ==
    LET all == buffer \o events
    IN  [memory |-> all,
         flushed |-> IF Len(all) > MemoryLimit THEN buffer ELSE <<>>]
(* BufferedEventBatch.add_event, one event after the other: when the       *)
(* buffer is full all of it is written out first.                          *)
Buffered(events) ==
    LET all == buffer \o events
        out == IF Len(all) = 0 THEN 0
               ELSE ((Len(all) - 1) \div MemoryLimit) * MemoryLimit
    IN  [memory |-> SubSeq(all, out + 1, Len(all)),
         flushed |-> SubSeq(all, 1, out)]

WriteTo(store, events) ==
    /\ disk' = [disk EXCEPT ![store] = Appended(@, events, store \in unfinished)]
    /\ unfinished' = IF events = <<>> THEN unfinished ELSE unfinished \ {store}
    /\ hollow' = IF events = <<>> THEN hollow ELSE hollow \ {store}

AddNormal(events) ==
    LET b == Buffered(events)
    IN  buffer' = b.memory /\ WriteTo("normal", b.flushed)

(***************************************************************************)
(* The game thread: log, EventManager.add                                  *)
(***************************************************************************)
Log(e) ==
    /\ flush = "idle" /\ e \notin logged
    /\ logged' = logged \cup {e}
    /\ IF e \in Realtime /\ Len(realtime) < MemoryLimit
       THEN realtime' = Append(realtime, e)
            /\ UNCHANGED buffer /\ UNCHANGED fileVars
       ELSE /\ IF e \in Critical
               THEN WriteTo("crit", <<e>>) /\ UNCHANGED buffer
               ELSE AddNormal(<<e>>)
            /\ UNCHANGED realtime
    /\ UNCHANGED <<flush, sending, delivered, joined, crashes, lost, torn>>
    /\ UNCHANGED configVars

(***************************************************************************)
(* The flush thread                                                        *)
(***************************************************************************)
Goto(place) == flush' = place

Wake ==
    /\ flush = "idle"
    /\ sending' = [k \in DOMAIN realtime |-> <<realtime[k]>>]
    /\ realtime' = <<>>
    /\ Goto(IF realtime = <<>> THEN "config" ELSE "realtime")
    /\ UNCHANGED <<buffer, fileVars, configVars, historyVars>>

InLines(lines) == ToSet(FlattenSeq(lines))
Alone(lines) == {e \in InLines(lines) : <<e>> \in ToSet(lines)}

(* A post succeeds, fails, or is taken although it fails here.  A line of  *)
(* several events is no event to the server.                               *)
Posted(ok) ==
    /\ \/ /\ delivered' = delivered \cup Alone(sending)
          /\ joined' = joined \cup (InLines(sending) \ Alone(sending))
       \/ ~ok /\ UNCHANGED <<delivered, joined>>
    /\ UNCHANGED <<logged, crashes, lost, torn>>

(* Mutant: the events of a failed post are not kept. *)
KeepNothing(lines) == <<>>
Keep(lines) == FlattenSeq(lines)

UploadRealtime ==
    /\ flush = "realtime"
    /\ \/ Posted(TRUE) /\ UNCHANGED buffer /\ UNCHANGED fileVars
       \/ Posted(FALSE) /\ AddNormal(Keep(sending))
    /\ sending' = <<>> /\ Goto("config")
    /\ UNCHANGED realtime /\ UNCHANGED configVars

(* The cache file is written from the cache that was read at start-up, so  *)
(* of this run's documents only the one written last is in it.             *)
CacheWith(fetched, got) ==
    IF fetched = <<>> THEN cacheFile
    ELSE [cached EXCEPT ![Last(fetched)] = got[Last(fetched)]]

(* download_configs: every document is fetched again, because its expiry   *)
(* is never moved.                                                         *)
DownloadConfigs ==
    /\ flush = "config" /\ Goto("crit")
    /\ \E got \in [Names -> {NoLimit} \cup Limits] :
          /\ config' = [c \in Names |-> IF got[c] = NoLimit THEN config[c]
                                        ELSE got[c]]
          /\ cacheFile' = CacheWith(
                SelectSeq(Configs, LAMBDA c : got[c] # NoLimit), got)
    /\ UNCHANGED <<realtime, buffer, fileVars, sending, cached, historyVars>>

SetConfigs == {k \in DOMAIN Configs : config[Configs[k]] # NoLimit}
MaxEventsPerPost ==
    IF SetConfigs = {} THEN DefaultLimit ELSE config[Configs[Min(SetConfigs)]]

(* get_events_for_upload; the normal store writes its buffer out first.    *)
Stored(store) ==
    IF store = "crit" THEN disk[store]
    ELSE Appended(disk[store], buffer, store \in unfinished)

After(store) == IF store = "crit" THEN "normal" ELSE "idle"
Posting(store) == IF store = "crit" THEN "critSent" ELSE "normalSent"
Cutting(store) == IF store = "crit" THEN "critCut" ELSE "normalCut"
Least(a, b) == IF a < b THEN a ELSE b

(* Nothing to upload counts as success, and the loop goes on while there   *)
(* is a file: an empty one keeps it going.                                 *)
Take(store) ==
    /\ flush = store
    /\ disk' = [disk EXCEPT ![store] = Stored(store)]
    /\ IF store = "normal" /\ buffer # <<>>
       THEN buffer' = <<>> /\ unfinished' = unfinished \ {store} /\ hollow' = hollow \ {store}
       ELSE UNCHANGED <<buffer, unfinished, hollow>>
    /\ IF Stored(store) = <<>>
       THEN Goto(IF store \in hollow THEN store ELSE After(store)) /\ UNCHANGED sending
       ELSE /\ sending' = SubSeq(Stored(store), 1,
                              Least(MaxEventsPerPost, Len(Stored(store))))
            /\ Goto(Posting(store))
    /\ UNCHANGED <<realtime, configVars, historyVars>>

(* on_events_uploaded: the rest is joined by newlines, without a last one. *)
Remaining(store) ==
    SubSeq(disk[store], Len(sending) + 1, Len(disk[store]))

(* Mutant: the loop goes on after a post that failed. *)
RetryAlways(store) == flush' = store
GiveUp(store) == Goto(After(store))

(* A file that is used up is removed; of another the rest is kept in       *)
(* memory while fs::write cuts it.  A post of nothing changes no file.     *)
Upload(store) ==
    /\ flush = Posting(store)
    /\ \/ /\ Posted(TRUE) /\ sending # <<>> /\ Remaining(store) = <<>>
          /\ disk' = [disk EXCEPT ![store] = <<>>]
          /\ unfinished' = unfinished \ {store} /\ UNCHANGED hollow
          /\ sending' = <<>> /\ Goto(After(store))
       \/ /\ Posted(TRUE) /\ sending # <<>> /\ Remaining(store) # <<>>
          /\ disk' = [disk EXCEPT ![store] = <<>>]
          /\ hollow' = hollow \cup {store} /\ UNCHANGED unfinished
          /\ sending' = Remaining(store) /\ Goto(Cutting(store))
       \/ /\ Posted(TRUE) /\ sending = <<>> /\ UNCHANGED fileVars
          /\ sending' = <<>> /\ Goto(store)
       \/ Posted(FALSE) /\ GiveUp(store) /\ UNCHANGED fileVars /\ sending' = <<>>
    /\ UNCHANGED <<realtime, buffer, configVars>>

Rewrite(store) ==
    /\ flush = Cutting(store) /\ Goto(store)
    /\ disk' = [disk EXCEPT ![store] = sending] /\ sending' = <<>>
    /\ unfinished' = unfinished \cup {store} /\ hollow' = hollow \ {store}
    /\ UNCHANGED <<realtime, buffer, configVars, historyVars>>

FlushStep ==
    \/ UploadRealtime \/ DownloadConfigs
    \/ \E s \in Stores : Take(s) \/ Upload(s) \/ Rewrite(s)

(* The process is killed and started again.                                *)
Crash ==
    /\ crashes < MaxCrashes
    /\ crashes' = crashes + 1
    /\ lost' = lost \cup ToSet(realtime) \cup ToSet(buffer)
               \cup IF flush = "realtime" THEN InLines(sending) ELSE {}
    /\ torn' = torn \cup IF flush \in {"critCut", "normalCut"} THEN InLines(sending) ELSE {}
    /\ realtime' = <<>> /\ buffer' = <<>> /\ flush' = "idle" /\ sending' = <<>>
    /\ cached' = cacheFile /\ config' = cacheFile
    /\ UNCHANGED <<fileVars, cacheFile, logged, delivered, joined>>

TelemetryNext == Wake \/ FlushStep \/ Crash \/ \E e \in Events : Log(e)

TelemetrySpec == TelemetryInit /\ [][TelemetryNext]_telemetryVars
                 /\ WF_telemetryVars(FlushStep)

-----------------------------------------------------------------------------
(* Properties *)

(* Every event that was logged is waiting, under way or with the server.   *)
(* Failed posts, full buffers and rewritten files lose nothing; a kill     *)
(* loses what was in memory (lost) and, inside fs::write, what was stored  *)
(* and was to be written back (torn); and an event logged to a file that   *)
(* was rewritten joins the line before it, so that the server is sent the  *)
(* two as one line (joined).                                               *)
NoEventLost ==
    logged \subseteq
        ToSet(realtime) \cup ToSet(buffer) \cup InLines(sending)
        \cup delivered \cup joined \cup lost \cup torn
        \cup UNION {InLines(disk[s]) : s \in Stores}

(* A pass of the flush thread, during which the game waits for the mutex   *)
(* in log(), ends, whether posts succeed or not; except that the loop has  *)
(* no end when a server asks for no events in a post (MAXEVENTSPERPOST 0), *)
(* or when a kill left a file cut to nothing.                              *)
Endless == MaxEventsPerPost = 0 \/ \E s \in hollow : flush # Cutting(s)
FlushEnds == flush # "idle" ~> flush = "idle" \/ Endless

(* What is delivered and still stored is there because the server's answer *)
(* was lost: an event is in one place of the client at most.               *)
StoredOnce ==
    LET stored == realtime \o buffer \o FlattenSeq(disk["crit"])
                  \o FlattenSeq(disk["normal"])
                  \o IF flush \in {"realtime", "critCut", "normalCut"} THEN FlattenSeq(sending) ELSE <<>>
    IN  IsInjective(stored)

(* Both: no event is lost and none is kept twice.                          *)
EventsKept == NoEventLost /\ StoredOnce

-----------------------------------------------------------------------------
(***************************************************************************)
(* TaskWithDelayThread of crates/cll-telemetry/src/task.rs: a loop that    *)
(* waits for a request or for the delay and then runs its function.        *)
(* notify_one leaves a permit when nobody waits, notify_waiters wakes only *)
(* a wait that has begun.                                                  *)
(***************************************************************************)
CONSTANT MaxRequests     \* bound: calls of request_run

VARIABLES
    loop,        \* "check", "enter", "wait", "recheck", "done"
    stopping,
    stopper,     \* the caller of terminate: "idle", "stored", "done"
    permit, notified,
    requests     \* request_run(false) so far

delayVars == <<loop, stopping, stopper, permit, notified, requests>>

DelayInit ==
    /\ loop = "check" /\ stopping = FALSE /\ stopper = "idle"
    /\ permit = FALSE /\ notified = FALSE /\ requests = 0

RequestRun ==
    /\ requests < MaxRequests /\ requests' = requests + 1
    /\ IF loop = "wait" THEN notified' = TRUE /\ UNCHANGED permit
                        ELSE permit' = TRUE /\ UNCHANGED notified
    /\ UNCHANGED <<loop, stopping, stopper>>

StoreStopping ==
    /\ stopper = "idle" /\ stopper' = "stored" /\ stopping' = TRUE
    /\ UNCHANGED <<loop, permit, notified, requests>>

NotifyWaiters ==
    /\ stopper = "stored" /\ stopper' = "done"
    /\ notified' = (notified \/ loop = "wait")
    /\ UNCHANGED <<loop, stopping, permit, requests>>

LoopChecks ==
    /\ loop = "check" /\ loop' = IF stopping THEN "done" ELSE "enter"
    /\ UNCHANGED <<stopping, stopper, permit, notified, requests>>

(* notified() is made; a permit left behind ends it at once.               *)
BeginWait ==
    /\ loop = "enter" /\ loop' = "wait"
    /\ notified' = permit /\ permit' = FALSE
    /\ UNCHANGED <<stopping, stopper, requests>>

(* Mutant: the loop waits for a notification only. *)
ElapsesNever == FALSE
Elapses == TRUE

Waited ==
    /\ loop = "wait" /\ (notified \/ Elapses)
    /\ loop' = "recheck" /\ notified' = FALSE
    /\ UNCHANGED <<stopping, stopper, permit, requests>>

RunFunction ==
    /\ loop = "recheck" /\ loop' = IF stopping THEN "done" ELSE "check"
    /\ UNCHANGED <<stopping, stopper, permit, notified, requests>>

LoopStep == LoopChecks \/ BeginWait \/ Waited \/ RunFunction

DelayNext == RequestRun \/ StoreStopping \/ NotifyWaiters \/ LoopStep

DelaySpec == DelayInit /\ [][DelayNext]_delayVars /\ WF_delayVars(LoopStep)

-----------------------------------------------------------------------------
(* A terminated loop ends, also when terminate() came between its check    *)
(* and its wait and the wake-up was lost: the delay ends the wait.         *)
TaskStops == stopping ~> loop = "done"
=============================================================================
