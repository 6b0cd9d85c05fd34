--------------------------- MODULE SpeechPlayback ---------------------------
(***************************************************************************)
(* How the agent speaks to one caller in a pipeline call, and when the     *)
(* caller is heard: the dialog worker of src/engine.py, which answers one  *)
(* transcript after another; the streams of                                *)
(* src/core/streaming_playback_manager.py; the file playbacks of           *)
(* src/core/playback_manager.py; barge-in; and the gating tokens of        *)
(* src/core/session_store.py, which keep audio capture off while the agent *)
(* speaks.                                                                 *)
(*                                                                         *)
(* The session store never suspends while it holds its lock, so a token is *)
(* set or cleared within the step of whoever does it.  A step runs up to   *)
(* the next await that suspends: an ARI request, a sleep, a queue that is  *)
(* full or empty.  Answers are numbered; the stream, the playback and the  *)
(* token of an answer carry its number.                                    *)
(***************************************************************************)
EXTENDS Integers, Sequences, SequencesExt

CONSTANTS MaxAnswers,   \* bound: answers of the agent
          MaxChunks,    \* bound: chunks the speech of one answer has
          QueueCap,     \* maxsize of the queue the worker feeds (256)
          JitterCap,    \* maxsize of a stream's jitter buffer
          Bargers,      \* the tasks in which a barge-in may be triggered
          Downstream,   \* downstream_mode of the call: a subset of Modes
          Faults        \* a subset of FaultKinds

Modes == {"stream", "file"}

\* event_loss: a PlaybackFinished event does not arrive.
\* play_error: Asterisk refuses a playback.
FaultKinds == {"event_loss", "play_error"}

ASSUME SpeechAssumption ==
  /\ MaxAnswers \in Nat
  /\ MaxChunks \in Nat \ {0}
  /\ QueueCap \in Nat \ {0}
  /\ JitterCap \in Nat \ {0}
  /\ Downstream \subseteq Modes
  /\ Faults \subseteq FaultKinds

Answers == 1..MaxAnswers
None == 0

ASSUME BargersAssumption == Bargers \cap (Answers \cup {None}) = {}

VARIABLES
  tokens, capture,     \* session: tts_tokens, audio_capture_enabled
  \* streams of the call
  active,              \* active_streams[call_id]
  loop, pacer, waits,  \* each stream's tasks; the pacer its loop waits for
  jitter,              \* chunks in each stream's jitter buffer
  seen,                \* streams whose entry has sentinel_seen
  cleaner,             \* who holds the call's _cleanup_in_progress mark
  \* file playbacks
  refs, timer, late,   \* tracked; fallback timer set; queued behind another
  channel, finished,   \* playbacks the channel holds; PlaybackFinished sent
  \* the dialog worker and the queues it feeds
  worker, turn, left, transcripts, mode,
  queue, eos,          \* chunks in an answer's queue; None put at its end
  \* barge-ins
  barge, stopping, toStop

gate    == <<tokens, capture>>
streams == <<active, loop, pacer, waits, jitter, seen, cleaner>>
files   == <<refs, timer, late, channel, finished>>
dialog  == <<worker, turn, left, transcripts, mode, queue, eos>>
barging == <<barge, stopping, toStop>>
vars == <<gate, streams, files, dialog, barging>>

LoopState  == {"none", "read", "stuck", "drain", "clean", "done"}
WorkerState == {"idle", "llm", "feed", "request", "response"}
BargeState == {"none", "grace", "stop", "over"}

GateTypes ==
  /\ tokens \subseteq Answers
  /\ capture \in BOOLEAN

StreamTypes ==
  /\ active \in Answers \cup {None}
  /\ loop \in [Answers -> LoopState]
  /\ pacer \in [Answers -> {"none", "run", "done"}]
  /\ waits \in [Answers -> Answers \cup {None}]
  /\ jitter \in [Answers -> 0..JitterCap]
  /\ seen \subseteq Answers
  /\ cleaner \in Answers \cup Bargers \cup {None}

FileTypes ==
  /\ refs \subseteq Answers
  /\ timer \subseteq Answers
  /\ late \subseteq Answers
  /\ channel \in Seq(Answers)
  /\ finished \subseteq Answers

DialogTypes ==
  /\ worker \in WorkerState
  /\ turn \in Answers \cup {None}
  /\ left \in 0..MaxChunks
  /\ transcripts \in 0..MaxAnswers
  /\ mode \in Downstream
  /\ queue \in [Answers -> 0..QueueCap]
  /\ eos \subseteq Answers

BargeTypes ==
  /\ barge \in [Bargers -> BargeState]
  /\ stopping \in [Bargers -> Answers \cup {None}]
  /\ toStop \in [Bargers -> SUBSET Answers]

TypeOK == GateTypes /\ StreamTypes /\ FileTypes /\ DialogTypes /\ BargeTypes

Init ==
  /\ tokens = {} /\ capture = TRUE
  /\ active = None
  /\ loop = [s \in Answers |-> "none"]
  /\ pacer = [s \in Answers |-> "none"]
  /\ waits = [s \in Answers |-> None]
  /\ jitter = [s \in Answers |-> 0]
  /\ seen = {} /\ cleaner = None
  /\ refs = {} /\ timer = {} /\ late = {}
  /\ channel = <<>> /\ finished = {}
  /\ worker = "idle" /\ turn = None /\ left = 0 /\ transcripts = 0
  /\ mode \in Downstream
  /\ queue = [r \in Answers |-> 0]
  /\ eos = {}
  /\ barge = [b \in Bargers |-> "none"]
  /\ stopping = [b \in Bargers |-> None]
  /\ toStop = [b \in Bargers |-> {}]

----------------------------------------------------------------------------
(* The gating tokens of the session.                                       *)

SetToken(t) ==
  /\ tokens' = tokens \cup {t}
  /\ capture' = FALSE

\* Mutant: whichever playback ends turns capture on.
OpenedByAny(T) == IF tokens \cap T # {} THEN TRUE ELSE capture

\* Capture after the tokens T are cleared one by one: it goes on with the last
\* one, stays off while any is left, and is not touched if there was none.
OpenedByLast(T) ==
  IF tokens \ T # {} THEN FALSE
  ELSE IF tokens # {} THEN TRUE ELSE capture

ClearTokens(T) ==
  /\ tokens' = tokens \ T
  /\ capture' = OpenedByLast(T)

----------------------------------------------------------------------------
(* The dialog worker: run_turn for one transcript after another.           *)

\* The caller speaks and the STT service hands over a transcript: frames are
\* forwarded to it only while capture is on.
Utterance ==
  /\ capture
  /\ turn + transcripts < MaxAnswers
  /\ transcripts' = transcripts + 1
  /\ UNCHANGED <<gate, streams, files, worker, turn, left, mode, queue, eos,
                 barging>>

TakeTranscript ==
  /\ worker = "idle"
  /\ transcripts > 0
  /\ transcripts' = transcripts - 1
  /\ turn' = turn + 1
  /\ worker' = "llm"
  /\ UNCHANGED <<gate, streams, files, left, mode, queue, eos, barging>>

\* Mutant: the loop does not wait for room.
JitterAlways(s) == TRUE

JitterRoom(s) == jitter[s] < JitterCap

\* While the worker awaits the LLM, every stream task that can run has run.
Settled ==
  \A s \in Answers :
    loop[s] = "read" /\ JitterRoom(s) => queue[s] = 0 /\ s \notin eos

\* is_stream_active: the entry's streaming task is not done.
StreamActive == active # None /\ loop[active] # "done"

\* start_streaming_playback, before the speech is synthesized.
SpeakNewStream ==
  /\ worker = "llm" /\ mode = "stream" /\ Settled
  /\ ~StreamActive
  /\ SetToken(turn)
  /\ active' = turn
  /\ loop' = [loop EXCEPT ![turn] = "read"]
  /\ pacer' = [pacer EXCEPT ![turn] = "run"]
  /\ left' \in 1..MaxChunks
  /\ worker' = "feed"
  /\ UNCHANGED <<waits, jitter, seen, cleaner, files, turn, transcripts, mode, queue,
                 eos, barging>>

\* It returns the stream that is active; nobody reads the answer's queue.
SpeakReusedStream ==
  /\ worker = "llm" /\ mode = "stream" /\ Settled
  /\ StreamActive
  /\ left' \in 1..MaxChunks
  /\ worker' = "feed"
  /\ UNCHANGED <<gate, streams, files, turn, transcripts, mode, queue, eos,
                 barging>>

Feed ==
  /\ worker = "feed"
  /\ left > 0
  /\ queue[turn] < QueueCap
  /\ queue' = [queue EXCEPT ![turn] = @ + 1]
  /\ left' = left - 1
  /\ UNCHANGED <<gate, streams, files, worker, turn, transcripts, mode, eos,
                 barging>>

FeedEnd ==
  /\ worker = "feed"
  /\ left = 0
  /\ eos' = eos \cup {turn}
  /\ worker' = "idle"
  /\ UNCHANGED <<gate, streams, files, turn, left, transcripts, mode, queue,
                 barging>>

\* play_audio, up to its ARI request: the playback is tracked before it plays.
PlayAudio ==
  /\ worker = "llm" /\ mode = "file"
  /\ SetToken(turn)
  /\ refs' = refs \cup {turn}
  /\ worker' = "request"
  /\ UNCHANGED <<streams, timer, late, channel, finished, turn, left,
                 transcripts, mode, queue, eos, barging>>

\* Asterisk takes the playback, and queues it if the channel is playing.
PlayAccepted ==
  /\ worker = "request"
  /\ channel' = Append(channel, turn)
  /\ late' = IF channel = <<>> THEN late ELSE late \cup {turn}
  /\ worker' = "response"
  /\ UNCHANGED <<gate, streams, refs, timer, finished, turn, left, transcripts,
                 mode, queue, eos, barging>>

PlayRefused ==
  /\ "play_error" \in Faults
  /\ worker = "request"
  /\ refs' = refs \ {turn}
  /\ ClearTokens({turn})
  /\ worker' = "idle"
  /\ UNCHANGED <<streams, timer, late, channel, finished, turn, left,
                 transcripts, mode, queue, eos, barging>>

\* The response arrives and the fallback timer is set.
PlayStarted ==
  /\ worker = "response"
  /\ timer' = timer \cup {turn}
  /\ worker' = "idle"
  /\ UNCHANGED <<gate, streams, refs, late, channel, finished, turn, left,
                 transcripts, mode, queue, eos, barging>>

Worker ==
  \/ TakeTranscript \/ SpeakNewStream \/ SpeakReusedStream \/ Feed \/ FeedEnd
  \/ PlayAudio \/ PlayAccepted \/ PlayRefused \/ PlayStarted

----------------------------------------------------------------------------
(* File playbacks: Asterisk, PlaybackFinished and the fallback timer.      *)

InChannel(p) == \E i \in DOMAIN channel : channel[i] = p

\* A playback that leaves the channel sends its event.
SendFinished(p) ==
  \/ finished' = finished \cup {p}
  \/ "event_loss" \in Faults /\ UNCHANGED finished

PlaybackEnds ==
  /\ channel # <<>>
  /\ channel' = Tail(channel)
  /\ SendFinished(Head(channel))
  /\ UNCHANGED <<gate, streams, refs, timer, late, dialog, barging>>

\* Whoever pops the reference clears the token.
ClosePlayback(p) ==
  /\ refs' = refs \ {p}
  /\ IF p \in refs THEN ClearTokens({p}) ELSE UNCHANGED gate

\* on_playback_finished.
PlaybackFinished(p) ==
  /\ p \in finished
  /\ finished' = finished \ {p}
  /\ ClosePlayback(p)
  /\ UNCHANGED <<streams, timer, late, channel, dialog, barging>>

\* Mutant: the timer never fires.
FallbackNever(p) == FALSE

\* The delay is the playback's own duration and a margin, counted from the
\* request: only a playback that had to wait for another can still be on.
FallbackDue(p) == p \in timer /\ (InChannel(p) => p \in late)

\* _gating_fallback_task.
GatingFallback(p) ==
  /\ FallbackDue(p)
  /\ timer' = timer \ {p}
  /\ ClosePlayback(p)
  /\ UNCHANGED <<streams, late, channel, finished, dialog, barging>>

----------------------------------------------------------------------------
(* Streams: the streaming loop, its pacer and the cleanup of a stream.     *)

\* _stream_audio_loop moves a chunk into the jitter buffer.
ReadChunk(s) ==
  /\ loop[s] = "read"
  /\ queue[s] > 0
  /\ JitterRoom(s)
  /\ queue' = [queue EXCEPT ![s] = @ - 1]
  /\ jitter' = [jitter EXCEPT ![s] = @ + 1]
  /\ UNCHANGED <<gate, active, loop, pacer, waits, seen, cleaner, files, worker,
                 turn, left, transcripts, mode, eos, barging>>

\* It meets None and waits for the pacer of the entry it finds.
ReadEnd(s) ==
  /\ loop[s] = "read"
  /\ queue[s] = 0
  /\ s \in eos
  /\ JitterRoom(s)
  /\ loop' = [loop EXCEPT ![s] = "drain"]
  /\ waits' = [waits EXCEPT ![s] = active]
  /\ UNCHANGED <<gate, active, pacer, jitter, seen, cleaner, files, dialog,
                 barging>>

\* Mutant: the loop does not wait for the pacer.
DrainedAlways(s) == TRUE

Drained(s) == waits[s] # None => pacer[waits[s]] = "done"

\* _cleanup_stream of the loop begins; it is left out if one is in progress.
LoopDrained(s) ==
  /\ loop[s] = "drain"
  /\ Drained(s)
  /\ IF cleaner = None
       THEN /\ loop' = [loop EXCEPT ![s] = "clean"]
            /\ cleaner' = s
       ELSE /\ loop' = [loop EXCEPT ![s] = "done"]
            /\ UNCHANGED cleaner
  /\ UNCHANGED <<gate, active, pacer, waits, jitter, seen, files, dialog, barging>>

\* After its grace period a cleanup clears the token of the stream it is for
\* and drops whatever entry the call has.
DropEntry == active' = None /\ cleaner' = None

LoopCleaned(s) ==
  /\ loop[s] = "clean"
  /\ ClearTokens({s})
  /\ DropEntry
  /\ loop' = [loop EXCEPT ![s] = "done"]
  /\ UNCHANGED <<pacer, waits, jitter, seen, files, dialog, barging>>

\* _pacer_loop: a tick.  It ends when the call has no entry, or when its jitter
\* buffer is empty and the sentinel was seen, which is noted in the entry the
\* call has now.
Pace(s) ==
  /\ pacer[s] = "run"
  /\ \/ /\ active = None
        /\ pacer' = [pacer EXCEPT ![s] = "done"]
        /\ UNCHANGED <<jitter, seen>>
     \/ /\ active # None
        /\ jitter[s] > 0
        /\ jitter' = [jitter EXCEPT ![s] = @ - 1]
        /\ UNCHANGED <<pacer, seen>>
     \/ /\ active # None
        /\ jitter[s] = 0
        /\ loop[s] # "read" \/ active \in seen
        /\ pacer' = [pacer EXCEPT ![s] = "done"]
        /\ seen' = seen \cup {active}
        /\ UNCHANGED jitter
  /\ UNCHANGED <<gate, active, loop, waits, cleaner, files, dialog, barging>>

StreamTask(s) ==
  ReadChunk(s) \/ ReadEnd(s) \/ LoopDrained(s) \/ LoopCleaned(s) \/ Pace(s)

----------------------------------------------------------------------------
(* Barge-in: _apply_barge_in_action of a pipeline call.                    *)

\* Where a cancelled loop comes to.  It puts its sentinel, which blocks if the
\* jitter buffer is full now that its pacer is cancelled; a loop waiting for
\* its pacer swallows the cancellation; a cleanup in its grace period dies.
CancelledLoop(s) ==
  IF loop[s] = "read" /\ jitter[s] = JitterCap THEN "stuck" ELSE "done"

\* Mutant: only the tokens of tracked file playbacks are cleared.
SweptFiles == tokens \cap refs

Swept == tokens

\* Every token the session has now is cleared, and capture is turned on.
Sweep(T) ==
  /\ tokens' = (tokens \ T) \ Swept
  /\ capture' = TRUE

\* list_playbacks_for_call, after the stop has cleared the tokens T.  If there
\* is none to stop, the barge-in goes on to the tokens.
ListPlaybacks(b, T) ==
  /\ toStop' = [toStop EXCEPT ![b] = refs]
  /\ IF refs = {}
       THEN /\ Sweep(T)
            /\ barge' = [barge EXCEPT ![b] = "over"]
       ELSE /\ ClearTokens(T)
            /\ barge' = [barge EXCEPT ![b] = "stop"]

\* There is no stream to stop.
BargeInFile(b) ==
  /\ barge[b] = "none" /\ ~capture
  /\ active = None
  /\ ListPlaybacks(b, {})
  /\ UNCHANGED <<streams, files, dialog, stopping>>

\* stop_streaming_playback: the tasks are cancelled and the stream is cleaned
\* up, unless the call's mark is taken; a loop that dies in its cleanup gives
\* the mark back, too late for the barge-in that killed it.
BargeInStream(b) ==
  /\ barge[b] = "none" /\ ~capture
  /\ active # None
  /\ loop' = [loop EXCEPT ![active] = CancelledLoop(active)]
  /\ pacer' = [pacer EXCEPT ![active] = "done"]
  /\ IF cleaner = None
       THEN /\ barge' = [barge EXCEPT ![b] = "grace"]
            /\ stopping' = [stopping EXCEPT ![b] = active]
            /\ cleaner' = b
            /\ UNCHANGED <<gate, toStop>>
       ELSE /\ ListPlaybacks(b, {})
            /\ cleaner' = IF cleaner = active THEN None ELSE cleaner
            /\ UNCHANGED stopping
  /\ UNCHANGED <<active, waits, jitter, seen, files, dialog>>

BargeCleaned(b) ==
  /\ barge[b] = "grace"
  /\ DropEntry
  /\ ListPlaybacks(b, {stopping[b]})
  /\ UNCHANGED <<loop, pacer, waits, jitter, seen, files, dialog, stopping>>

\* DELETE /playbacks/{id}: Asterisk may no longer, or not yet, have it.
BargeStop(b, p) ==
  /\ barge[b] = "stop"
  /\ p \in toStop[b]
  /\ toStop' = [toStop EXCEPT ![b] = @ \ {p}]
  /\ \/ \E i \in DOMAIN channel :
          channel[i] = p /\ channel' = RemoveAt(channel, i) /\ SendFinished(p)
     \/ ~InChannel(p) /\ UNCHANGED <<channel, finished>>
  /\ UNCHANGED <<gate, streams, refs, timer, late, dialog, barge, stopping>>

\* The last request has been answered.
BargeSweep(b) ==
  /\ barge[b] = "stop"
  /\ toStop[b] = {}
  /\ Sweep({})
  /\ barge' = [barge EXCEPT ![b] = "over"]
  /\ UNCHANGED <<streams, files, dialog, stopping, toStop>>

BargeTask(b) ==
  BargeCleaned(b) \/ BargeSweep(b) \/ \E p \in Answers : BargeStop(b, p)

----------------------------------------------------------------------------
Next ==
  \/ Utterance \/ Worker \/ PlaybackEnds
  \/ \E s \in Answers :
       StreamTask(s) \/ PlaybackFinished(s) \/ GatingFallback(s)
  \/ \E b \in Bargers : BargeInFile(b) \/ BargeInStream(b) \/ BargeTask(b)

Spec == Init /\ [][Next]_vars

\* Every task runs; a playback ends; events that are sent arrive; timers fire.
\* Nobody has to speak.
Fairness ==
  /\ WF_vars(Worker)
  /\ WF_vars(PlaybackEnds)
  /\ \A s \in Answers :
       /\ WF_vars(StreamTask(s))
       /\ WF_vars(Pace(s))
       /\ WF_vars(PlaybackFinished(s))
       /\ WF_vars(GatingFallback(s))
  /\ \A b \in Bargers : WF_vars(BargeTask(b))

FairSpec == Spec /\ Fairness

----------------------------------------------------------------------------
(* Properties.                                                             *)

\* The two things the session records of the agent's speech agree: capture is
\* off exactly while somebody holds a token, although tokens are set and
\* cleared by the worker, the streams, the timers and barge-ins, and capture
\* is also written by barge-ins directly.
CaptureMirrorsTokens == capture <=> tokens = {}

\* A barge-in that has still to clear the tokens.
Sweeping == \E b \in Bargers : barge[b] \in {"grace", "stop"}

\* Somebody will still clear the token of answer t.
Owned(t) ==
  \/ loop[t] = "read" /\ pacer[t] = "run"
  \/ loop[t] \in {"drain", "clean"}
  \/ t \in refs /\ (t \in timer \/ (turn = t /\ worker \in {"request", "response"}))
  \/ Sweeping

TokensOwned == \A t \in tokens : Owned(t)

\* The tasks of a stream run that is not, or no longer, the call's entry.
Stray(s) ==
  s # active /\ (loop[s] \in {"read", "drain", "clean"} \/ pacer[s] = "run")

\* No stream is astray, and none noted its end in the entry of another.
InOrder ==
  /\ \A s \in Answers : ~Stray(s)
  /\ active \in seen => loop[active] # "read"

\* In whatever order playbacks, timers, cleanups that skip each other and
\* barge-ins run, a token loses its owner only after a barge-in's cleanup has
\* dropped the entry of a stream that goes on.
TokensKeepOwner ==
  [][TokensOwned /\ InOrder => TokensOwned']_vars

\* A barge-in also takes the token of speech that starts while it is at work.
StreamAudible == \E s \in tokens : pacer[s] = "run" /\ jitter[s] > 0

FileAudible == channel # <<>> /\ Head(channel) \in tokens \ late

\* Unless a barge-in turns it on, capture goes on only when the agent is
\* silent: no stream of the call still has chunks to send and no file is on,
\* save speech whose token a barge-in took and a file that had to wait.
OpensWhenSilent ==
  [][InOrder /\ ~capture /\ capture' /\ barge' = barge =>
       ~StreamAudible /\ ~FileAudible]_vars

\* The caller is heard again once the agent has spoken: events that do not
\* arrive, refused playbacks, barge-ins and a worker that is stuck do not keep
\* capture off; a stream the call has no entry for may.
CaptureReturns ==
  ~capture ~> (capture \/ ~InOrder \/ ~TokensOwned)

\* docs/Transport-Mode-Compatibility.md: "stream if possible; fallback to file
\* on errors".  So what the worker puts into the queue of an answer is read.
AnswersPlayed ==
  \A r \in Answers : queue[r] > 0 ~> (queue[r] = 0 \/ loop[r] \in {"stuck", "done"})
=============================================================================
