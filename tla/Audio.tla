------------------------------- MODULE Audio -------------------------------
(***************************************************************************)
(* Sound: AAudio streams whose playback thread asks the game for samples,  *)
(* the AudioDevice of Java, the ring both fill, and the threads that own   *)
(* the output device and empty it.                                         *)
(***************************************************************************)
EXTENDS Naturals, Sequences, SequencesExt

CONSTANTS
    RingSize,       \* max_samples, an even number
    BufferSizes,    \* frames a buffer may be set to
    MaxFrames,      \* bound: frames the game produces
    MaxStarts,      \* bound: times requestStart is called
    MaxOutputs,     \* bound: output threads
    ResizesLive,    \* whether the game resizes the buffer of a playing stream
    StartsTwice     \* whether it starts a stream again without stopping it first

ASSUME AudioAssumption ==
    /\ RingSize \in Nat /\ RingSize % 2 = 0
    /\ BufferSizes \subseteq Nat

VARIABLES
    aaudio,      \* the stream: none, open, closed; frames, started, running, handle
    room,        \* frames its allocated buffer holds; 0 when freed
    players,     \* playback threads: where they are in their loop, and chunk_frames
    caller,      \* the game's thread: idle, or joining in stop or close
    ring,        \* AUDIO_BUFFER, samples numbered in the order produced
    produced,    \* ghost: frames produced
    audible,     \* AUDIO_THREAD_RUNNING
    outputs,     \* output threads: opening, playing, ended
    mono         \* ghost: some device was opened with its own number of channels

audioVars == <<aaudio, room, players, caller, ring, produced, audible, outputs, mono>>
outVars == <<audible, outputs, mono>>
ringVars == <<ring, produced>>

-----------------------------------------------------------------------------
AudioInit ==
    /\ aaudio = [state |-> "none", frames |-> 0, started |-> FALSE, running |-> FALSE, handle |-> 0]
    /\ room = 0 /\ players = <<>> /\ caller = "idle"
    /\ ring = <<>> /\ produced = 0
    /\ audible = FALSE /\ outputs = <<>> /\ mono = FALSE

\* A sample is numbered by its frame: the left one even, the right one odd.
Samples(frames) == [k \in 1 .. 2 * frames |-> 2 * produced + k - 1]
\* Mutant: what does not fit is not taken.
NewestDropped(new) == SubSeq(ring \o new, 1, Min({RingSize, Len(ring \o new)}))
PushSamples(new) ==
    LET all == ring \o new
    IN  IF Len(all) > RingSize THEN SubSeq(all, Len(all) - RingSize + 1, Len(all)) ELSE all
Pushes(frames) ==
    /\ produced + frames <= MaxFrames
    /\ ring' = PushSamples(Samples(frames))
    /\ produced' = produced + frames

\* Decided under the lock of the flag, so one of two callers starts a thread.
StartAudioThread ==
    /\ audible \/ Len(outputs) < MaxOutputs
    /\ audible' = TRUE
    /\ outputs' = IF audible THEN outputs ELSE Append(outputs, "opening")
    /\ UNCHANGED mono

-----------------------------------------------------------------------------
OpenStream(capacity, frames) ==
    /\ aaudio.state = "none"
    /\ aaudio' = [aaudio EXCEPT !.state = "open", !.frames = frames]
    /\ room' = capacity
    /\ UNCHANGED <<players, caller, ringVars, outVars>>

StreamFree == caller = "idle" /\ aaudio.state = "open"

\* Reallocates without asking whether the playback thread is using it.
SetBufferSizeInFrames(frames) ==
    /\ StreamFree /\ (aaudio.handle # 0 => ResizesLive)
    /\ aaudio' = [aaudio EXCEPT !.frames = frames]
    /\ room' = frames
    /\ UNCHANGED <<players, caller, ringVars, outVars>>

\* Does not ask whether the stream already plays: the handle of the thread that
\* is there would be dropped, and nobody would wait for it.  The stream has a
\* data callback; without one no thread is started.
RequestStart ==
    /\ StreamFree /\ (aaudio.handle # 0 => StartsTwice) /\ Len(players) < MaxStarts
    /\ aaudio' = [aaudio EXCEPT !.started = TRUE, !.running = TRUE, !.handle = Len(players) + 1]
    /\ players' = Append(players, [at |-> "loop", chunk |-> aaudio.frames])
    /\ StartAudioThread
    /\ UNCHANGED <<room, caller, ringVars>>

\* requestStop and close clear the flag, then join what they took.
Leaves(how) ==
    /\ StreamFree
    /\ aaudio' = [aaudio EXCEPT !.running = FALSE]
    /\ caller' = how
    /\ UNCHANGED <<room, players, ringVars, outVars>>

\* Mutant: the thread is told to stop, and not waited for.
NotWaitedFor(t) == TRUE
Ended(t) == t \notin {k \in DOMAIN players : players[k].at # "ended"}

RequestStopReturns ==
    /\ caller = "stop" /\ Ended(aaudio.handle)
    /\ aaudio' = [aaudio EXCEPT !.handle = 0]
    /\ caller' = "idle" /\ audible' = FALSE
    /\ UNCHANGED <<room, players, outputs, mono, ringVars>>

CloseReturns ==
    /\ caller = "close" /\ Ended(aaudio.handle)
    /\ aaudio' = [aaudio EXCEPT !.handle = 0, !.state = "closed"]
    /\ room' = 0 /\ caller' = "idle"
    /\ UNCHANGED <<players, ringVars, outVars>>

-----------------------------------------------------------------------------
(* The playback thread. *)

Moves(t, at) == players' = [players EXCEPT ![t].at = at]

LoopTest(t) ==
    /\ players[t].at = "loop"
    /\ Moves(t, IF aaudio.running THEN "fill" ELSE "ended")
    /\ UNCHANGED <<aaudio, room, caller, ringVars, outVars>>

\* A buffer that is too small grows, is cleared, and the game fills it.
DataCallback(t) ==
    /\ players[t].at = "fill"
    /\ room' = IF players[t].chunk > room THEN players[t].chunk ELSE room
    /\ Moves(t, "push")
    /\ UNCHANGED <<aaudio, caller, ringVars, outVars>>

PushI16(t) ==
    /\ players[t].at = "push"
    /\ Pushes(players[t].chunk)
    /\ Moves(t, "loop")
    /\ UNCHANGED <<aaudio, room, caller, outVars>>

-----------------------------------------------------------------------------
(* org.fmod.AudioDevice. *)

DeviceInit ==
    /\ ring' = <<>> /\ StartAudioThread
    /\ UNCHANGED <<aaudio, room, players, caller, produced>>

DeviceWrite(frames) ==
    /\ Pushes(frames)
    /\ UNCHANGED <<aaudio, room, players, caller, outVars>>

DeviceClose ==
    /\ ring' = <<>> /\ audible' = FALSE
    /\ UNCHANGED <<aaudio, room, players, caller, produced, outputs, mono>>

-----------------------------------------------------------------------------
(* The thread that owns the output device. *)

\* With no device it ends, and the flag stays.
OpensDevice(o, works, own) ==
    /\ outputs[o] = "opening"
    /\ outputs' = [outputs EXCEPT ![o] = IF works THEN "playing" ELSE "ended"]
    /\ mono' = (mono \/ (works /\ own))
    /\ UNCHANGED <<aaudio, room, players, caller, ringVars, audible>>

\* Once a second.
PollsFlag(o) ==
    /\ outputs[o] = "playing" /\ ~audible
    /\ outputs' = [outputs EXCEPT ![o] = "ended"]
    /\ UNCHANGED <<aaudio, room, players, caller, ringVars, audible, mono>>

PopSamples(n) == SubSeq(ring, n + 1, Len(ring))
FillOutput(o) ==
    /\ outputs[o] = "playing" /\ ring # <<>>
    /\ \E n \in {2} \cup (IF mono THEN {1} ELSE {}) : ring' = PopSamples(n)
    /\ UNCHANGED <<aaudio, room, players, caller, produced, outVars>>

AudioNext ==
    \/ \E frames \in BufferSizes : \/ \E capacity \in BufferSizes : OpenStream(capacity, frames)
                                   \/ SetBufferSizeInFrames(frames) \/ DeviceWrite(frames)
    \/ RequestStart \/ RequestStopReturns \/ CloseReturns \/ DeviceInit \/ DeviceClose
    \/ \E how \in {"stop", "close"} : Leaves(how)
    \/ \E t \in DOMAIN players : LoopTest(t) \/ DataCallback(t) \/ PushI16(t)
    \/ \E o \in DOMAIN outputs : \/ \E works, own \in BOOLEAN : OpensDevice(o, works, own)
                                 \/ PollsFlag(o) \/ FillOutput(o)

AudioSpec == AudioInit /\ [][AudioNext]_audioVars

-----------------------------------------------------------------------------
(***************************************************************************)
(* The ring holds the last samples produced, with no gap, and begins on    *)
(* the left unless a device mixes the channels its own way (audio.rs); no  *)
(* playback thread uses a buffer that was freed or is too small, and once  *)
(* requestStop or close has returned none is left to push (fake_audio.rs). *)
(* Premises: the game neither resizes the buffer of a playing stream nor   *)
(* starts it twice (ResizesLive, StartsTwice: the code guards against      *)
(* neither).  Nothing is said of which device hears what: within a second  *)
(* of a stop and a start two output threads empty the one ring, each       *)
(* hearing a part.                                                         *)
(***************************************************************************)
AudioSound ==
    /\ Len(ring) <= RingSize
    /\ \A k \in 2 .. Len(ring) : ring[k] = ring[k - 1] + 1
    /\ ring # <<>> /\ ~mono => Head(ring) % 2 = 0
    /\ \A t \in DOMAIN players :
          /\ players[t].at = "push" => room >= players[t].chunk
          /\ players[t].at = "fill" => aaudio.state = "open"
          /\ caller = "idle" /\ aaudio.handle = 0 => players[t].at = "ended"

(***************************************************************************)
(* The flag that tracks whether the audio thread is running says so only   *)
(* while one is (audio.rs, AUDIO_THREAD_RUNNING).                          *)
(***************************************************************************)
FlagTracksThread == audible => \E o \in DOMAIN outputs : outputs[o] # "ended"
=============================================================================
