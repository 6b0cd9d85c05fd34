---------------------------- MODULE SpeechProofs ----------------------------
(* Proofs about SpeechPlayback, for any number of answers, barge-ins, chunks *)
(* and faults: its types, that capture agrees with the gating tokens, that   *)
(* capture does not go on over the agent's own speech, and that a token      *)
(* keeps a task that will clear it.                                          *)
EXTENDS SpeechPlayback, SequenceTheorems, TLAPS

\* What RemoveAt leaves of a sequence has the elements it had.
LEMMA RemoveAtType ==
  ASSUME NEW S, NEW q \in Seq(S), NEW i \in DOMAIN q
  PROVE  RemoveAt(q, i) \in Seq(S)
BY SubSeqProperties, ConcatProperties DEF RemoveAt

\* What the types need to last: the worker takes no more transcripts than there
\* are answers, and it has an answer while it works.
SpeechInv ==
  /\ TypeOK
  /\ turn + transcripts <= MaxAnswers
  /\ worker # "idle" => turn \in Answers

LEMMA InitTypes == Init => SpeechInv
BY SpeechAssumption, BargersAssumption
DEF Init, SpeechInv, TypeOK, GateTypes, StreamTypes, FileTypes, DialogTypes, BargeTypes,
    LoopState, WorkerState, BargeState, Answers, None, Modes

LEMMA NextTypes == SpeechInv /\ [Next]_vars => SpeechInv'
<1> SUFFICES ASSUME SpeechInv, [Next]_vars PROVE SpeechInv'
    OBVIOUS
<1> USE SpeechAssumption DEF Answers, None
<1> USE DEF SpeechInv, TypeOK, GateTypes, StreamTypes, FileTypes, DialogTypes, BargeTypes
<1> USE DEF LoopState, WorkerState, BargeState, gate, streams, files, dialog, barging
<1>1. CASE Utterance
  <2>1. transcripts' \in 0..MaxAnswers /\ turn' + transcripts' <= MaxAnswers
        BY <1>1 DEF Utterance
  <2>2. QED
        BY <1>1, <2>1 DEF Utterance
<1>2. CASE TakeTranscript
  <2>1. transcripts' \in 0..MaxAnswers /\ turn' + transcripts' <= MaxAnswers
        BY <1>2 DEF TakeTranscript
  <2>2. turn' \in Answers
        BY <1>2 DEF TakeTranscript
  <2>3. QED
        BY <1>2, <2>1, <2>2 DEF TakeTranscript
<1>3. CASE SpeakNewStream
  <2>1. left' \in 0..MaxChunks /\ turn \in Answers
        BY <1>3 DEF SpeakNewStream
  <2>2. turn' + transcripts' <= MaxAnswers
        BY <1>3 DEF SpeakNewStream
  <2>3. QED
        BY <1>3, <2>1, <2>2 DEF SpeakNewStream, SetToken
<1>4. CASE SpeakReusedStream
  <2>1. left' \in 0..MaxChunks /\ turn \in Answers
        BY <1>4 DEF SpeakReusedStream
  <2>2. QED
        BY <1>4, <2>1 DEF SpeakReusedStream
<1>5. CASE Feed
  <2>1. left' \in 0..MaxChunks /\ turn \in Answers
        BY <1>5 DEF Feed
  <2>2. queue[turn] + 1 \in 0..QueueCap
        BY <1>5, <2>1 DEF Feed
  <2>3. queue' \in [Answers -> 0..QueueCap]
        BY <1>5, <2>2 DEF Feed
  <2>4. QED
        BY <1>5, <2>1, <2>3 DEF Feed
<1>6. CASE FeedEnd
      BY <1>6 DEF FeedEnd
<1>7. CASE PlayAudio
      BY <1>7 DEF PlayAudio, SetToken
<1>8. CASE PlayAccepted
  <2>1. turn \in 1..MaxAnswers /\ channel \in Seq(1..MaxAnswers)
        BY <1>8 DEF PlayAccepted
  <2>2. channel' \in Seq(1..MaxAnswers)
        BY <1>8, <2>1, AppendProperties DEF PlayAccepted
  <2>3. late' \subseteq 1..MaxAnswers
        BY <1>8, <2>1 DEF PlayAccepted
  <2>4. QED
        BY <1>8, <2>2, <2>3 DEF PlayAccepted
<1>9. CASE PlayRefused
      BY <1>9 DEF PlayRefused, ClearTokens, OpenedByLast
<1>10. CASE PlayStarted
      BY <1>10 DEF PlayStarted
<1>11. CASE PlaybackEnds
  <2>1. Head(channel) \in Answers /\ Tail(channel) \in Seq(Answers)
        BY <1>11, HeadTailProperties DEF PlaybackEnds
  <2>2. channel' \in Seq(Answers) /\ finished' \subseteq Answers
        BY <1>11, <2>1 DEF PlaybackEnds, SendFinished
  <2>3. QED
        BY <1>11, <2>2 DEF PlaybackEnds
<1>12. ASSUME NEW p \in Answers, PlaybackFinished(p) PROVE SpeechInv'
      BY <1>12 DEF PlaybackFinished, ClosePlayback, ClearTokens, OpenedByLast
<1>13. ASSUME NEW p \in Answers, GatingFallback(p) PROVE SpeechInv'
      BY <1>13 DEF GatingFallback, ClosePlayback, ClearTokens, OpenedByLast
<1>14. ASSUME NEW s \in Answers, ReadChunk(s) PROVE SpeechInv'
  <2>1. queue[s] - 1 \in 0..QueueCap /\ jitter[s] + 1 \in 0..JitterCap
        BY <1>14 DEF ReadChunk, JitterRoom
  <2>2. queue' \in [Answers -> 0..QueueCap]
        BY <1>14, <2>1 DEF ReadChunk
  <2>3. jitter' \in [Answers -> 0..JitterCap]
        BY <1>14, <2>1 DEF ReadChunk
  <2>4. QED
        BY <1>14, <2>2, <2>3 DEF ReadChunk
<1>15. ASSUME NEW s \in Answers, ReadEnd(s) PROVE SpeechInv'
      BY <1>15 DEF ReadEnd
<1>16. ASSUME NEW s \in Answers, LoopDrained(s) PROVE SpeechInv'
      BY <1>16 DEF LoopDrained
<1>17. ASSUME NEW s \in Answers, LoopCleaned(s) PROVE SpeechInv'
      BY <1>17 DEF LoopCleaned, ClearTokens, OpenedByLast, DropEntry
<1>18. ASSUME NEW s \in Answers, Pace(s) PROVE SpeechInv'
  <2>1. jitter' \in [Answers -> 0..JitterCap]
    <3>1. jitter[s] > 0 => jitter[s] - 1 \in 0..JitterCap
          BY <1>18
    <3>2. QED
          BY <1>18, <3>1 DEF Pace
  <2>2. pacer' \in [Answers -> {"none", "run", "done"}] /\ seen' \subseteq Answers
        BY <1>18 DEF Pace
  <2>3. QED
        BY <1>18, <2>1, <2>2 DEF Pace
<1>19. ASSUME NEW b \in Bargers, BargeInFile(b) PROVE SpeechInv'
      BY <1>19 DEF BargeInFile, ListPlaybacks, Sweep, ClearTokens, OpenedByLast
<1>20. ASSUME NEW b \in Bargers, BargeInStream(b) PROVE SpeechInv'
  <2>1. loop' \in [Answers -> LoopState]
        BY <1>20 DEF BargeInStream, CancelledLoop
  <2>2. pacer' \in [Answers -> {"none", "run", "done"}]
        BY <1>20 DEF BargeInStream
  <2>3. cleaner' \in Answers \cup Bargers \cup {None}
        BY <1>20 DEF BargeInStream
  <2>4. GateTypes'
        BY <1>20 DEF BargeInStream, ListPlaybacks, Sweep, ClearTokens, OpenedByLast
  <2>5. BargeTypes'
        BY <1>20 DEF BargeInStream, ListPlaybacks
  <2>6. QED
        BY <1>20, <2>1, <2>2, <2>3, <2>4, <2>5 DEF BargeInStream
<1>21. ASSUME NEW b \in Bargers, BargeCleaned(b) PROVE SpeechInv'
      BY <1>21 DEF BargeCleaned, ListPlaybacks, Sweep, ClearTokens, OpenedByLast,
                   DropEntry
<1>22. ASSUME NEW b \in Bargers, NEW p \in Answers, BargeStop(b, p)
       PROVE SpeechInv'
  <2>1. channel' \in Seq(Answers)
        BY <1>22, RemoveAtType DEF BargeStop
  <2>2. finished' \subseteq Answers
        BY <1>22 DEF BargeStop, SendFinished
  <2>3. QED
        BY <1>22, <2>1, <2>2 DEF BargeStop
<1>23. ASSUME NEW b \in Bargers, BargeSweep(b) PROVE SpeechInv'
      BY <1>23 DEF BargeSweep, Sweep
<1>24. CASE UNCHANGED vars
      BY <1>24 DEF vars
<1>25. QED
      BY <1>1, <1>2, <1>3, <1>4, <1>5, <1>6, <1>7, <1>8, <1>9, <1>10, <1>11,
         <1>12, <1>13, <1>14, <1>15, <1>16, <1>17, <1>18, <1>19, <1>20, <1>21,
         <1>22, <1>23, <1>24
      DEF Next, Worker, StreamTask, BargeTask

\* Every reachable state has the types of the session, the stream entries, the
\* queues and the tasks: no buffer holds more than its maxsize.
THEOREM SpeechTypes == Spec => []TypeOK
<1>1. Init => SpeechInv
      BY InitTypes
<1>2. SpeechInv /\ [Next]_vars => SpeechInv'
      BY NextTypes
<1>3. SpeechInv => TypeOK
      BY DEF SpeechInv
<1>4. QED
      BY <1>1, <1>2, <1>3, PTL DEF Spec

----------------------------------------------------------------------------
(* Capture agrees with the tokens: whoever sets, clears or sweeps them.     *)

\* What a step may do to the tokens and to capture.
GateStep ==
  \/ UNCHANGED gate
  \/ \E t \in Answers \cup {None} : SetToken(t)
  \/ \E T \in SUBSET (Answers \cup {None}) : ClearTokens(T) \/ Sweep(T)

LEMMA StepsGate == SpeechInv /\ [Next]_vars => GateStep
<1> SUFFICES ASSUME SpeechInv, [Next]_vars PROVE GateStep
    OBVIOUS
<1> USE DEF GateStep
<1>1. turn \in Answers \cup {None}
      BY DEF SpeechInv, TypeOK, DialogTypes
<1>2. CASE Worker
      BY <1>1, <1>2 DEF Worker, TakeTranscript, SpeakNewStream, SpeakReusedStream,
         Feed, FeedEnd, PlayAudio, PlayAccepted, PlayRefused, PlayStarted
<1>3. CASE Utterance \/ PlaybackEnds
      BY <1>3 DEF Utterance, PlaybackEnds
<1>4. ASSUME NEW p \in Answers, PlaybackFinished(p) \/ GatingFallback(p)
      PROVE  GateStep
  <2>1. ClosePlayback(p)
        BY <1>4 DEF PlaybackFinished, GatingFallback
  <2>2. QED
        BY <2>1 DEF ClosePlayback
<1>5. ASSUME NEW s \in Answers, StreamTask(s) PROVE GateStep
      BY <1>5 DEF StreamTask, ReadChunk, ReadEnd, LoopDrained, LoopCleaned, Pace
<1>6. ASSUME NEW b \in Bargers, BargeInFile(b) \/ BargeInStream(b) PROVE GateStep
      BY <1>6 DEF BargeInFile, BargeInStream, ListPlaybacks
<1>7. ASSUME NEW b \in Bargers, BargeTask(b) PROVE GateStep
  <2>1. CASE BargeCleaned(b)
    <3>1. stopping[b] \in Answers \cup {None}
          BY DEF SpeechInv, TypeOK, BargeTypes
    <3>2. QED
          BY <2>1, <3>1 DEF BargeCleaned, ListPlaybacks
  <2>2. CASE BargeSweep(b)
        BY <2>2 DEF BargeSweep
  <2>3. ASSUME NEW p \in Answers, BargeStop(b, p) PROVE GateStep
        BY <2>3 DEF BargeStop
  <2>4. QED
        BY <1>7, <2>1, <2>2, <2>3 DEF BargeTask
<1>8. CASE UNCHANGED vars
      BY <1>8 DEF vars
<1>9. QED
      BY <1>2, <1>3, <1>4, <1>5, <1>6, <1>7, <1>8 DEF Next

\* capture <=> tokens = {}: audio capture is off exactly while some speech holds
\* a gating token, whatever order the worker, the streams, the timers and any
\* number of barge-ins set, clear and sweep them in.
THEOREM CaptureAgrees == Spec => []CaptureMirrorsTokens
<1>1. Init => SpeechInv /\ CaptureMirrorsTokens
      BY InitTypes DEF Init, CaptureMirrorsTokens
<1>2. ASSUME SpeechInv, CaptureMirrorsTokens, [Next]_vars
      PROVE  SpeechInv' /\ CaptureMirrorsTokens'
  <2>1. GateStep
        BY <1>2, StepsGate
  <2>2. ASSUME UNCHANGED gate PROVE CaptureMirrorsTokens'
        BY <1>2, <2>2 DEF gate, CaptureMirrorsTokens
  <2>3. ASSUME NEW t, SetToken(t) PROVE CaptureMirrorsTokens'
        BY <2>3 DEF CaptureMirrorsTokens, SetToken
  <2>4. ASSUME NEW T, ClearTokens(T) PROVE CaptureMirrorsTokens'
    <3>1. CASE tokens \ T # {}
          BY <2>4, <3>1 DEF CaptureMirrorsTokens, ClearTokens, OpenedByLast
    <3>2. CASE tokens \ T = {} /\ tokens # {}
          BY <2>4, <3>2 DEF CaptureMirrorsTokens, ClearTokens, OpenedByLast
    <3>3. CASE tokens = {}
      <4>1. tokens' = tokens
            BY <2>4, <3>3 DEF ClearTokens
      <4>2. capture' = capture
            BY <2>4, <3>3 DEF ClearTokens, OpenedByLast
      <4>3. QED
            BY <1>2, <4>1, <4>2 DEF CaptureMirrorsTokens
    <3>4. QED
          BY <3>1, <3>2, <3>3
  <2>5. ASSUME NEW T, Sweep(T) PROVE CaptureMirrorsTokens'
        BY <2>5 DEF CaptureMirrorsTokens, Sweep, Swept
  <2>6. CaptureMirrorsTokens'
        BY <2>1, <2>2, <2>3, <2>4, <2>5 DEF GateStep
  <2>7. QED
        BY <1>2, <2>6, NextTypes
<1>3. QED
      BY <1>1, <1>2, PTL DEF Spec

----------------------------------------------------------------------------
(* The agent is silent when capture is on (OpensWhenSilent).               *)


\* A call speaks in one way.
OneMode ==
  /\ mode = "stream" =>
       refs = {} /\ channel = <<>> /\ worker \notin {"request", "response"}
  /\ mode = "file" => active = None /\ \A s \in Answers : loop[s] = "none" /\ pacer[s] = "none"

\* The playbacks in the channel are among the answers asked for so far, have
\* sent no event, and each is there once.
FilesOnce ==
  /\ \A i \in DOMAIN channel :
       /\ channel[i] <= turn
       /\ channel[i] = turn => worker \notin {"llm", "request"}
       /\ channel[i] \notin finished
       /\ \A j \in DOMAIN channel : channel[i] = channel[j] => i = j
  /\ \A p \in finished : p <= turn /\ (p = turn => worker \notin {"llm", "request"})

\* The loop of the call's own stream waits for its own pacer, and cleans up
\* when that one is done.
PacedOut ==
  active # None =>
    /\ loop[active] \in {"drain", "clean"} => waits[active] = active
    /\ loop[active] = "clean" => pacer[active] = "done"

SilenceInv == SpeechInv /\ OneMode /\ FilesOnce /\ PacedOut

LEMMA RemoveAtElements ==
  ASSUME NEW S, NEW q \in Seq(S), NEW i \in DOMAIN q
  PROVE  /\ DOMAIN RemoveAt(q, i) = 1..(Len(q) - 1)
         /\ \A j \in 1..(Len(q) - 1) :
              RemoveAt(q, i)[j] = IF j < i THEN q[j] ELSE q[j + 1]
<1> DEFINE a == SubSeq(q, 1, i - 1)
           b == SubSeq(q, i + 1, Len(q))
<1>1. i \in 1..Len(q) /\ Len(q) \in Nat /\ \A j \in 1..Len(q) : q[j] \in S
      OBVIOUS
<1>2. /\ a \in Seq(S) /\ Len(a) = i - 1
      /\ \A j \in 1..(i - 1) : a[j] = q[j]
      BY <1>1, SubSeqProperties
<1>3. /\ b \in Seq(S) /\ Len(b) = Len(q) - i
      /\ \A j \in 1..(Len(q) - i) : b[j] = q[i + j]
      BY <1>1, SubSeqProperties
<1> HIDE DEF a, b
<1>4. /\ a \o b \in Seq(S) /\ Len(a \o b) = Len(q) - 1
      /\ \A j \in 1..(Len(q) - 1) :
           (a \o b)[j] = IF j <= i - 1 THEN a[j] ELSE b[j - (i - 1)]
  <2>1. /\ a \o b \in Seq(S) /\ Len(a \o b) = Len(a) + Len(b)
        /\ \A j \in 1..Len(a) + Len(b) :
             (a \o b)[j] = IF j <= Len(a) THEN a[j] ELSE b[j - Len(a)]
        BY <1>2, <1>3, ConcatProperties
  <2>2. Len(a) = i - 1 /\ Len(a) + Len(b) = Len(q) - 1
        BY <1>1, <1>2, <1>3
  <2>3. QED
        BY <2>1, <2>2
<1>5. RemoveAt(q, i) = a \o b
      BY DEF RemoveAt, a, b
<1>6. DOMAIN (a \o b) = 1..(Len(q) - 1)
      BY <1>4
<1>7. ASSUME NEW j \in 1..(Len(q) - 1)
      PROVE  (a \o b)[j] = IF j < i THEN q[j] ELSE q[j + 1]
  <2>1. CASE j < i
        BY <1>1, <1>2, <1>4, <2>1
  <2>2. CASE ~(j < i)
    <3> DEFINE k == j - (i - 1)
    <3>1. k \in 1..(Len(q) - i) /\ i + k = j + 1
          BY <1>1, <2>2
    <3>2. (a \o b)[j] = b[k]
          BY <1>1, <1>4, <2>2
    <3> HIDE DEF k
    <3>3. b[k] = q[i + k]
          BY <1>3, <3>1
    <3>4. QED
          BY <2>2, <3>1, <3>2, <3>3
  <2>3. QED
        BY <2>1, <2>2
<1>8. QED
      BY <1>5, <1>6, <1>7

LEMMA InitSilence == Init => SilenceInv
<1> SUFFICES ASSUME Init PROVE SilenceInv
    OBVIOUS
<1>1. SpeechInv
      BY InitTypes
<1>2. OneMode /\ FilesOnce /\ PacedOut
      BY DEF Init, OneMode, FilesOnce, PacedOut, None
<1>3. QED
      BY <1>1, <1>2 DEF SilenceInv

LEMMA NextOneMode == SpeechInv /\ OneMode /\ [Next]_vars => OneMode'
<1> SUFFICES ASSUME SpeechInv, OneMode, [Next]_vars PROVE OneMode'
    OBVIOUS
<1> USE DEF OneMode, streams, files, dialog
<1>1. mode \in {"stream", "file"}
      BY SpeechAssumption DEF SpeechInv, TypeOK, DialogTypes, Modes
<1>2. CASE Utterance \/ PlaybackEnds
      BY <1>2, <1>1 DEF Utterance, PlaybackEnds
<1>3. CASE Worker
      BY <1>3, <1>1 DEF Worker, TakeTranscript, SpeakNewStream, SpeakReusedStream,
         Feed, FeedEnd, PlayAudio, PlayAccepted, PlayRefused, PlayStarted
<1>4. ASSUME NEW p \in Answers, PlaybackFinished(p) \/ GatingFallback(p)
      PROVE  OneMode'
      BY <1>4, <1>1 DEF PlaybackFinished, GatingFallback, ClosePlayback
<1>5. ASSUME NEW s \in Answers, StreamTask(s) PROVE OneMode'
      BY <1>5, <1>1 DEF StreamTask, ReadChunk, ReadEnd, LoopDrained, LoopCleaned,
         Pace
<1>6. ASSUME NEW b \in Bargers, BargeInFile(b) \/ BargeInStream(b) PROVE OneMode'
      BY <1>6, <1>1 DEF BargeInFile, BargeInStream
<1>7. ASSUME NEW b \in Bargers, BargeTask(b) PROVE OneMode'
      BY <1>7, <1>1 DEF BargeTask, BargeCleaned, BargeSweep, BargeStop, DropEntry
<1>8. CASE UNCHANGED vars
      BY <1>8 DEF vars
<1>9. QED
      BY <1>2, <1>3, <1>4, <1>5, <1>6, <1>7, <1>8 DEF Next

LEMMA NextFilesOnce ==
  SpeechInv /\ OneMode /\ FilesOnce /\ [Next]_vars => FilesOnce'
<1> SUFFICES ASSUME SpeechInv, OneMode, FilesOnce, [Next]_vars PROVE FilesOnce'
    OBVIOUS
<1> USE DEF FilesOnce, streams, files, dialog, barging
<1>1. /\ channel \in Seq(Answers) /\ finished \subseteq Answers
      /\ turn \in Nat /\ Answers \subseteq Nat
      /\ worker # "idle" => turn \in Answers
      BY SpeechAssumption DEF SpeechInv, TypeOK, FileTypes, DialogTypes, Answers, None
<1>2. \A i \in DOMAIN channel : channel[i] \in Answers
      BY <1>1
<1>3. CASE TakeTranscript
  <2>1. turn' = turn + 1 /\ \A p \in Answers : p <= turn => p <= turn' /\ p # turn'
        BY <1>1, <1>3 DEF TakeTranscript
  <2>2. QED
        BY <1>1, <1>2, <1>3, <2>1 DEF TakeTranscript
<1>4. CASE SpeakNewStream \/ SpeakReusedStream \/ Feed \/ FeedEnd \/ PlayAudio
           \/ PlayRefused \/ PlayStarted \/ Utterance
      BY <1>4 DEF SpeakNewStream, SpeakReusedStream, Feed, FeedEnd, PlayAudio,
         PlayRefused, PlayStarted, Utterance
<1>5. CASE PlayAccepted
  <2>1. /\ worker = "request" /\ worker' = "response" /\ turn' = turn
        /\ finished' = finished /\ turn \in Answers
        /\ channel' = Append(channel, turn)
        BY <1>1, <1>5 DEF PlayAccepted
  <2>2. /\ DOMAIN channel' = 1..(Len(channel) + 1)
        /\ \A i \in 1..Len(channel) : channel'[i] = channel[i]
        /\ channel'[Len(channel) + 1] = turn
        BY <1>1, <2>1, AppendProperties
  <2>3. DOMAIN channel = 1..Len(channel) /\ Len(channel) \in Nat
        BY <1>1
  <2>4. \A i \in DOMAIN channel : channel[i] # turn
        BY <2>1
  <2>5. turn \notin finished
        BY <2>1
  <2>6. ASSUME NEW i \in DOMAIN channel'
        PROVE  \/ i \in DOMAIN channel /\ channel'[i] = channel[i]
               \/ i = Len(channel) + 1 /\ channel'[i] = turn
        BY <2>2, <2>3
  <2>7. \A i, j \in DOMAIN channel' : channel'[i] = channel'[j] => i = j
        BY <2>4, <2>6
  <2>8. \A i \in DOMAIN channel' : channel'[i] <= turn /\ channel'[i] \notin finished
        BY <1>1, <2>5, <2>6
  <2>9. QED
        BY <2>1, <2>7, <2>8
<1>6. CASE PlaybackEnds
  <2>1. /\ channel # <<>> /\ channel' = Tail(channel)
        /\ turn' = turn /\ worker' = worker
        /\ finished' \subseteq finished \cup {channel[1]}
        BY <1>1, <1>6 DEF PlaybackEnds, SendFinished
  <2>2. DOMAIN channel = 1..Len(channel) /\ Len(channel) \in Nat /\ 1 \in DOMAIN channel
        BY <1>1, <2>1
  <2>3. /\ DOMAIN channel' = 1..(Len(channel) - 1)
        /\ \A i \in DOMAIN channel' :
             channel'[i] = channel[i + 1] /\ i + 1 \in DOMAIN channel /\ i + 1 # 1
        BY <1>1, <2>1, <2>2, HeadTailProperties
  <2>4. \A i, j \in DOMAIN channel' : channel'[i] = channel'[j] => i = j
        BY <2>2, <2>3
  <2>5. \A i \in DOMAIN channel' : channel'[i] # channel[1]
        BY <2>2, <2>3
  <2>6. QED
        BY <2>1, <2>2, <2>3, <2>4, <2>5
<1>7. ASSUME NEW p \in Answers, PlaybackFinished(p) \/ GatingFallback(p)
      PROVE  FilesOnce'
      BY <1>7 DEF PlaybackFinished, GatingFallback
<1>8. ASSUME NEW s \in Answers, StreamTask(s) PROVE FilesOnce'
      BY <1>8 DEF StreamTask, ReadChunk, ReadEnd, LoopDrained, LoopCleaned, Pace
<1>9. ASSUME NEW b \in Bargers, BargeInFile(b) \/ BargeInStream(b) PROVE FilesOnce'
      BY <1>9 DEF BargeInFile, BargeInStream
<1>10. ASSUME NEW b \in Bargers, BargeCleaned(b) \/ BargeSweep(b) PROVE FilesOnce'
      BY <1>10 DEF BargeCleaned, BargeSweep
<1>11. ASSUME NEW b \in Bargers, NEW p \in Answers, BargeStop(b, p)
       PROVE  FilesOnce'
  <2>1. turn' = turn /\ worker' = worker
        BY <1>11 DEF BargeStop
  <2>2. CASE channel' = channel /\ finished' = finished
        BY <2>1, <2>2
  <2>3. ASSUME NEW k \in DOMAIN channel, channel[k] = p,
               channel' = RemoveAt(channel, k), finished' \subseteq finished \cup {p}
        PROVE  FilesOnce'
    <3>1. DOMAIN channel = 1..Len(channel) /\ Len(channel) \in Nat
          BY <1>1
    <3>2. /\ DOMAIN channel' = 1..(Len(channel) - 1)
          /\ \A i \in 1..(Len(channel) - 1) :
               channel'[i] = IF i < k THEN channel[i] ELSE channel[i + 1]
          BY <1>1, <2>3, RemoveAtElements
    <3> DEFINE old(i) == IF i < k THEN i ELSE i + 1
    <3>3. \A i \in DOMAIN channel' :
            old(i) \in DOMAIN channel /\ old(i) # k /\ channel'[i] = channel[old(i)]
          BY <3>1, <3>2
    <3>4. \A i, j \in DOMAIN channel' : old(i) = old(j) => i = j
          BY <3>1, <3>2
    <3> HIDE DEF old
    <3>5. \A i, j \in DOMAIN channel' : channel'[i] = channel'[j] => i = j
          BY <3>3, <3>4
    <3>6. \A i \in DOMAIN channel' : channel'[i] # p
          BY <2>3, <3>3
    <3>7. QED
          BY <2>1, <2>3, <3>3, <3>5, <3>6
  <2>4. QED
        BY <1>11, <2>2, <2>3 DEF BargeStop, SendFinished
<1>12. CASE UNCHANGED vars
      BY <1>12 DEF vars
<1>13. QED
      BY <1>3, <1>4, <1>5, <1>6, <1>7, <1>8, <1>9, <1>10, <1>11, <1>12
      DEF Next, Worker, BargeTask

LEMMA NextPacedOut ==
  SpeechInv /\ PacedOut /\ [Next]_vars => PacedOut'
<1> SUFFICES ASSUME SpeechInv, PacedOut, [Next]_vars PROVE PacedOut'
    OBVIOUS
<1> USE DEF PacedOut, streams
<1>1. /\ active \in Answers \cup {None} /\ None \notin Answers
      /\ loop \in [Answers -> LoopState]
      /\ pacer \in [Answers -> {"none", "run", "done"}]
      /\ waits \in [Answers -> Answers \cup {None}]
      /\ worker # "idle" => turn \in Answers
      BY DEF SpeechInv, TypeOK, StreamTypes, Answers, None
<1>2. CASE SpeakNewStream
      BY <1>1, <1>2 DEF SpeakNewStream
<1>3. CASE TakeTranscript \/ SpeakReusedStream \/ Feed \/ FeedEnd \/ PlayAudio
           \/ PlayAccepted \/ PlayRefused \/ PlayStarted \/ Utterance \/ PlaybackEnds
      BY <1>3 DEF TakeTranscript, SpeakReusedStream, Feed, FeedEnd, PlayAudio,
         PlayAccepted, PlayRefused, PlayStarted, Utterance, PlaybackEnds
<1>4. ASSUME NEW p \in Answers, PlaybackFinished(p) \/ GatingFallback(p)
      PROVE  PacedOut'
      BY <1>4 DEF PlaybackFinished, GatingFallback
<1>5. ASSUME NEW s \in Answers, ReadChunk(s) PROVE PacedOut'
      BY <1>5 DEF ReadChunk
<1>6. ASSUME NEW s \in Answers, ReadEnd(s) PROVE PacedOut'
      BY <1>1, <1>6 DEF ReadEnd
<1>7. ASSUME NEW s \in Answers, LoopDrained(s) PROVE PacedOut'
      BY <1>1, <1>7 DEF LoopDrained, Drained
<1>8. ASSUME NEW s \in Answers, LoopCleaned(s) PROVE PacedOut'
      BY <1>8 DEF LoopCleaned, DropEntry
<1>9. ASSUME NEW s \in Answers, Pace(s) PROVE PacedOut'
      BY <1>1, <1>9 DEF Pace
<1>10. ASSUME NEW b \in Bargers, BargeInFile(b) PROVE PacedOut'
       BY <1>10 DEF BargeInFile
<1>11. ASSUME NEW b \in Bargers, BargeInStream(b) PROVE PacedOut'
       BY <1>1, <1>11 DEF BargeInStream, CancelledLoop
<1>12. ASSUME NEW b \in Bargers, BargeTask(b) PROVE PacedOut'
       BY <1>12 DEF BargeTask, BargeCleaned, BargeSweep, BargeStop, DropEntry
<1>13. CASE UNCHANGED vars
       BY <1>13 DEF vars
<1>14. QED
       BY <1>2, <1>3, <1>4, <1>5, <1>6, <1>7, <1>8, <1>9, <1>10, <1>11, <1>12, <1>13
       DEF Next, Worker, StreamTask

----------------------------------------------------------------------------
\* If clearing tokens turns capture on, there were no others.
LEMMA OpenedByOwn ==
  ASSUME NEW T, ~capture, ClearTokens(T), capture'
  PROVE  tokens \subseteq T
BY DEF ClearTokens, OpenedByLast

Silent == ~StreamAudible /\ ~FileAudible

Opens == InOrder /\ ~capture /\ capture' /\ barge' = barge

\* The three ways in which a file's end turns capture on.
LEMMA FilesSilent ==
  ASSUME SilenceInv, Opens, NEW p \in Answers,
         \/ PlayRefused /\ p = turn
         \/ PlaybackFinished(p)
         \/ GatingFallback(p)
  PROVE  Silent
<1>1. tokens \subseteq {p} /\ (worker = "request" \/ refs # {})
  <2>1. CASE PlayRefused /\ p = turn
        BY <2>1, OpenedByOwn DEF PlayRefused, Opens
  <2>2. CASE PlaybackFinished(p) \/ GatingFallback(p)
    <3>1. ClosePlayback(p)
          BY <2>2 DEF PlaybackFinished, GatingFallback
    <3>2. p \in refs
          BY <3>1 DEF ClosePlayback, Opens, gate
    <3>3. QED
          BY <3>1, <3>2, OpenedByOwn DEF ClosePlayback, Opens
  <2>3. QED
        BY <2>1, <2>2
<1>2. mode = "file"
      BY <1>1, SpeechAssumption
      DEF SilenceInv, OneMode, SpeechInv, TypeOK, DialogTypes, Modes
<1>3. ~StreamAudible
      BY <1>1, <1>2 DEF StreamAudible, SilenceInv, OneMode
<1>4. channel \in Seq(Answers)
      BY DEF SilenceInv, SpeechInv, TypeOK, FileTypes
<1>5. ASSUME channel # <<>>, Head(channel) \in tokens \ late PROVE FALSE
  <2>1. 1 \in DOMAIN channel /\ channel[1] = p /\ p \notin late
        BY <1>1, <1>4, <1>5
  <2>2. CASE PlayRefused /\ p = turn
        BY <2>1, <2>2 DEF PlayRefused, SilenceInv, FilesOnce
  <2>3. CASE PlaybackFinished(p)
        BY <2>1, <2>3 DEF PlaybackFinished, SilenceInv, FilesOnce
  <2>4. CASE GatingFallback(p)
        BY <2>1, <2>4 DEF GatingFallback, FallbackDue, InChannel
  <2>5. QED
        BY <2>2, <2>3, <2>4
<1>6. QED
      BY <1>3, <1>5 DEF Silent, FileAudible

\* A stream's cleanup turns capture on when its pacer has sent the last chunk.
LEMMA StreamsSilent ==
  ASSUME SilenceInv, Opens, NEW s \in Answers, LoopCleaned(s)
  PROVE  Silent
<1>1. tokens \subseteq {s} /\ loop[s] = "clean"
      BY OpenedByOwn DEF LoopCleaned, Opens
<1>2. mode = "stream" /\ channel = <<>>
      BY <1>1, SpeechAssumption
      DEF SilenceInv, OneMode, SpeechInv, TypeOK, DialogTypes, Modes
<1>3. active = s /\ s # None
      BY <1>1 DEF Opens, InOrder, Stray, Answers, None
<1>4. pacer[s] = "done"
      BY <1>1, <1>3 DEF SilenceInv, PacedOut
<1>5. QED
      BY <1>1, <1>2, <1>4 DEF Silent, StreamAudible, FileAudible

LEMMA StepSilent ==
  ASSUME SilenceInv, [Next]_vars, Opens PROVE Silent
<1>1. ~UNCHANGED gate
      BY DEF Opens, gate
<1>2. /\ barge \in [Bargers -> BargeState]
      /\ worker # "idle" => turn \in Answers
      BY DEF SilenceInv, SpeechInv, TypeOK, BargeTypes
<1>3. CASE Worker
  <2>1. CASE PlayRefused
    <3>1. turn \in Answers
          BY <1>2, <2>1 DEF PlayRefused
    <3>2. QED
          BY <2>1, <3>1, FilesSilent
  <2>2. CASE SpeakNewStream \/ PlayAudio
        BY <2>2 DEF SpeakNewStream, PlayAudio, SetToken, Opens
  <2>3. CASE TakeTranscript \/ SpeakReusedStream \/ Feed \/ FeedEnd
             \/ PlayAccepted \/ PlayStarted
        BY <1>1, <2>3 DEF TakeTranscript, SpeakReusedStream, Feed, FeedEnd,
           PlayAccepted, PlayStarted
  <2>4. QED
        BY <1>3, <2>1, <2>2, <2>3 DEF Worker
<1>4. CASE Utterance \/ PlaybackEnds
      BY <1>1, <1>4 DEF Utterance, PlaybackEnds
<1>5. ASSUME NEW p \in Answers, PlaybackFinished(p) \/ GatingFallback(p)
      PROVE  Silent
      BY <1>5, FilesSilent
<1>6. ASSUME NEW s \in Answers, StreamTask(s) PROVE Silent
  <2>1. CASE LoopCleaned(s)
        BY <2>1, StreamsSilent
  <2>2. CASE ReadChunk(s) \/ ReadEnd(s) \/ LoopDrained(s) \/ Pace(s)
        BY <1>1, <2>2 DEF ReadChunk, ReadEnd, LoopDrained, Pace
  <2>3. QED
        BY <1>6, <2>1, <2>2 DEF StreamTask
<1>7. ASSUME NEW b \in Bargers, BargeInFile(b) \/ BargeInStream(b) PROVE Silent
      BY <1>1, <1>2, <1>7 DEF BargeInFile, BargeInStream, ListPlaybacks, Opens
<1>8. ASSUME NEW b \in Bargers, BargeTask(b) PROVE Silent
  <2>1. CASE BargeCleaned(b) \/ BargeSweep(b)
        BY <1>2, <2>1 DEF BargeCleaned, BargeSweep, ListPlaybacks, Opens
  <2>2. ASSUME NEW p \in Answers, BargeStop(b, p) PROVE Silent
        BY <1>1, <2>2 DEF BargeStop
  <2>3. QED
        BY <1>8, <2>1, <2>2 DEF BargeTask
<1>9. CASE UNCHANGED vars
      BY <1>1, <1>9 DEF vars
<1>10. QED
       BY <1>3, <1>4, <1>5, <1>6, <1>7, <1>8, <1>9 DEF Next

\* Capture does not go on while a stream of the call still sends or a file that
\* started on time is on, unless by a barge-in: for any number of answers,
\* playbacks queued behind each other, timers, lost events and barge-ins.
THEOREM CaptureOpensInSilence == Spec => OpensWhenSilent
<1>1. Init => SilenceInv
      BY InitSilence
<1>2. SilenceInv /\ [Next]_vars => SilenceInv'
      BY NextTypes, NextOneMode, NextFilesOnce, NextPacedOut DEF SilenceInv
<1>3. SilenceInv /\ [Next]_vars =>
        [InOrder /\ ~capture /\ capture' /\ barge' = barge =>
           ~StreamAudible /\ ~FileAudible]_vars
      BY StepSilent DEF Opens, Silent
<1>4. QED
      BY <1>1, <1>2, <1>3, PTL DEF Spec, OpensWhenSilent

----------------------------------------------------------------------------
(* A token has an owner.                                                   *)

\* Whoever holds the call's cleanup mark is in its grace period: a barge-in, or
\* the loop of a stream.
MarkHeld ==
  /\ cleaner \in Bargers => barge[cleaner] = "grace"
  /\ cleaner \in Answers => loop[cleaner] = "clean"

\* An answer that has not been spoken yet has no stream, and no entry.
Unspoken ==
  /\ \A s \in Answers :
       s > turn \/ (s = turn /\ worker = "llm") => loop[s] = "none"
  /\ active # None => loop[active] # "none"

OwnerInv == SpeechInv /\ MarkHeld /\ Unspoken

LEMMA InitOwner == Init => OwnerInv
<1> SUFFICES ASSUME Init PROVE OwnerInv
    OBVIOUS
<1>1. SpeechInv
      BY InitTypes
<1>2. MarkHeld /\ Unspoken
      BY BargersAssumption DEF Init, MarkHeld, Unspoken, Answers, None
<1>3. QED
      BY <1>1, <1>2 DEF OwnerInv

LEMMA NextUnspoken == SpeechInv /\ Unspoken /\ [Next]_vars => Unspoken'
<1> SUFFICES ASSUME SpeechInv, Unspoken, [Next]_vars PROVE Unspoken'
    OBVIOUS
<1> USE DEF Unspoken, streams, dialog
<1>1. /\ turn \in Nat /\ Answers \subseteq Nat
      /\ worker # "idle" => turn \in Answers
      /\ active \in Answers \cup {None}
      /\ loop \in [Answers -> LoopState]
      BY SpeechAssumption
      DEF SpeechInv, TypeOK, StreamTypes, DialogTypes, Answers, None
<1>2. CASE Worker
  <2>1. CASE TakeTranscript
        BY <1>1, <2>1 DEF TakeTranscript
  <2>2. CASE SpeakNewStream
        BY <1>1, <2>2 DEF SpeakNewStream
  <2>3. CASE SpeakReusedStream \/ Feed \/ FeedEnd \/ PlayAudio \/ PlayAccepted
             \/ PlayRefused \/ PlayStarted
        BY <2>3 DEF SpeakReusedStream, Feed, FeedEnd, PlayAudio, PlayAccepted,
           PlayRefused, PlayStarted
  <2>4. QED
        BY <1>2, <2>1, <2>2, <2>3 DEF Worker
<1>3. CASE Utterance \/ PlaybackEnds
      BY <1>3 DEF Utterance, PlaybackEnds
<1>4. ASSUME NEW p \in Answers, PlaybackFinished(p) \/ GatingFallback(p)
      PROVE  Unspoken'
      BY <1>4 DEF PlaybackFinished, GatingFallback
<1>5. ASSUME NEW s \in Answers, StreamTask(s) PROVE Unspoken'
      BY <1>1, <1>5 DEF StreamTask, ReadChunk, ReadEnd, LoopDrained, LoopCleaned,
         Pace, DropEntry
<1>6. ASSUME NEW b \in Bargers, BargeInFile(b) PROVE Unspoken'
      BY <1>6 DEF BargeInFile
<1>7. ASSUME NEW b \in Bargers, BargeInStream(b) PROVE Unspoken'
      BY <1>1, <1>7 DEF BargeInStream, CancelledLoop
<1>8. ASSUME NEW b \in Bargers, BargeTask(b) PROVE Unspoken'
      BY <1>8 DEF BargeTask, BargeCleaned, BargeSweep, BargeStop, DropEntry
<1>9. CASE UNCHANGED vars
      BY <1>9 DEF vars
<1>10. QED
       BY <1>2, <1>3, <1>4, <1>5, <1>6, <1>7, <1>8, <1>9 DEF Next

LEMMA NextMarkHeld == OwnerInv /\ [Next]_vars => MarkHeld'
<1> SUFFICES ASSUME SpeechInv, MarkHeld, Unspoken, [Next]_vars PROVE MarkHeld'
    BY DEF OwnerInv
<1> USE BargersAssumption DEF MarkHeld, streams, dialog, barging
<1>1. /\ worker # "idle" => turn \in Answers
      /\ active \in Answers \cup {None} /\ None \notin Answers
      /\ cleaner \in Answers \cup Bargers \cup {None}
      /\ loop \in [Answers -> LoopState]
      /\ barge \in [Bargers -> BargeState]
      BY SpeechAssumption
      DEF SpeechInv, TypeOK, StreamTypes, DialogTypes, BargeTypes, Answers, None
<1>2. CASE Worker
  <2>1. CASE SpeakNewStream
    <3>1. cleaner # turn
          BY <1>1, <2>1 DEF SpeakNewStream, Unspoken
    <3>2. QED
          BY <1>1, <2>1, <3>1 DEF SpeakNewStream
  <2>2. CASE TakeTranscript \/ SpeakReusedStream \/ Feed \/ FeedEnd \/ PlayAudio
             \/ PlayAccepted \/ PlayRefused \/ PlayStarted
        BY <2>2 DEF TakeTranscript, SpeakReusedStream, Feed, FeedEnd, PlayAudio,
           PlayAccepted, PlayRefused, PlayStarted
  <2>3. QED
        BY <1>2, <2>1, <2>2 DEF Worker
<1>3. CASE Utterance \/ PlaybackEnds
      BY <1>3 DEF Utterance, PlaybackEnds
<1>4. ASSUME NEW p \in Answers, PlaybackFinished(p) \/ GatingFallback(p)
      PROVE  MarkHeld'
      BY <1>4 DEF PlaybackFinished, GatingFallback
<1>5. ASSUME NEW s \in Answers, StreamTask(s) PROVE MarkHeld'
  <2>1. CASE ReadEnd(s) \/ LoopDrained(s) \/ LoopCleaned(s)
        BY <1>1, <2>1 DEF ReadEnd, LoopDrained, LoopCleaned, DropEntry
  <2>2. CASE ReadChunk(s) \/ Pace(s)
        BY <2>2 DEF ReadChunk, Pace
  <2>3. QED
        BY <1>5, <2>1, <2>2 DEF StreamTask
<1>6. ASSUME NEW b \in Bargers, BargeInFile(b) \/ BargeInStream(b) PROVE MarkHeld'
      BY <1>1, <1>6 DEF BargeInFile, BargeInStream, ListPlaybacks
<1>7. ASSUME NEW b \in Bargers, BargeTask(b) PROVE MarkHeld'
      BY <1>1, <1>7 DEF BargeTask, BargeCleaned, BargeSweep, BargeStop, DropEntry
<1>8. CASE UNCHANGED vars
      BY <1>8 DEF vars
<1>9. QED
      BY <1>2, <1>3, <1>4, <1>5, <1>6, <1>7, <1>8 DEF Next

\* What owns a token, apart from barge-ins.
Streamed(t) ==
  (loop[t] = "read" /\ pacer[t] = "run") \/ loop[t] \in {"drain", "clean"}

Played(t) ==
  t \in refs /\ (t \in timer \/ (turn = t /\ worker \in {"request", "response"}))

\* Every token that is there after a step was there before and keeps an owner.
OwnersStay ==
  \/ tokens' \subseteq tokens /\ (Sweeping => Sweeping')
     /\ \A t \in tokens' : (Streamed(t) => Streamed(t)') /\ (Played(t) => Played(t)')
  \/ Sweeping'
  \/ tokens' = {}

LEMMA StayOwned == TokensOwned /\ OwnersStay => TokensOwned'
BY DEF TokensOwned, OwnersStay, Owned, Streamed, Played

\* A stream keeps its token until it clears it: a loop that is denied its
\* cleanup finds a barge-in in its grace period, and a pacer that ends before
\* its loop finds its own end noted.
LEMMA StreamOwners ==
  ASSUME OwnerInv, InOrder, NEW s \in Answers, StreamTask(s)
  PROVE  OwnersStay
<1> USE DEF files, dialog, barging, gate, Streamed, Played
<1>1. /\ tokens \subseteq Answers /\ None \notin Answers
      /\ cleaner \in Answers \cup Bargers \cup {None}
      /\ loop \in [Answers -> LoopState]
      /\ pacer \in [Answers -> {"none", "run", "done"}]
      BY SpeechAssumption
      DEF OwnerInv, SpeechInv, TypeOK, GateTypes, StreamTypes, Answers, None
<1>2. UNCHANGED <<refs, timer, turn, worker, barge>> /\ (Sweeping => Sweeping')
      BY <1>1 DEF StreamTask, ReadChunk, ReadEnd, LoopDrained, LoopCleaned, Pace,
         Sweeping
<1>3. CASE ReadChunk(s)
      BY <1>2, <1>3 DEF ReadChunk, OwnersStay
<1>4. CASE ReadEnd(s)
      BY <1>1, <1>2, <1>4 DEF ReadEnd, OwnersStay
<1>5. CASE LoopDrained(s)
  <2>1. CASE cleaner = None
        BY <1>1, <1>2, <1>5, <2>1 DEF LoopDrained, OwnersStay
  <2>2. CASE cleaner \in Bargers
        BY <1>2, <2>2 DEF OwnerInv, MarkHeld, Sweeping, OwnersStay
  <2>3. CASE cleaner \in Answers
    <3>1. loop[cleaner] = "clean" /\ loop[s] = "drain"
          BY <1>5, <2>3 DEF OwnerInv, MarkHeld, LoopDrained
    <3>2. QED
          BY <2>3, <3>1 DEF InOrder, Stray
  <2>4. QED
        BY <1>1, <2>1, <2>2, <2>3
<1>6. CASE LoopCleaned(s)
      BY <1>1, <1>2, <1>6 DEF LoopCleaned, ClearTokens, OwnersStay
<1>7. CASE Pace(s)
  <2>1. loop[s] = "read" => pacer'[s] = pacer[s]
        BY <1>1, <1>7 DEF Pace, InOrder, Stray
  <2>2. loop' = loop /\ \A t \in Answers \ {s} : pacer'[t] = pacer[t]
        BY <1>1, <1>7 DEF Pace
  <2>3. QED
        BY <1>1, <1>2, <1>7, <2>1, <2>2 DEF Pace, OwnersStay
<1>8. QED
      BY <1>3, <1>4, <1>5, <1>6, <1>7 DEF StreamTask

LEMMA StepOwners ==
  ASSUME OwnerInv, InOrder, TokensOwned, [Next]_vars
  PROVE  TokensOwned'
<1> USE DEF streams, files, dialog, barging, gate
<1>1. /\ tokens \subseteq Answers
      /\ worker # "idle" => turn \in Answers
      /\ loop \in [Answers -> LoopState]
      /\ pacer \in [Answers -> {"none", "run", "done"}]
      /\ barge \in [Bargers -> BargeState]
      BY DEF OwnerInv, SpeechInv, TypeOK, GateTypes, StreamTypes, BargeTypes
<1>2. CASE Worker
  <2>1. CASE SpeakNewStream
        BY <1>1, <2>1 DEF SpeakNewStream, SetToken, TokensOwned, Owned, Sweeping
  <2>2. CASE PlayAudio
        BY <1>1, <2>2 DEF PlayAudio, SetToken, TokensOwned, Owned, Sweeping
  <2>3. CASE PlayAccepted \/ PlayStarted
        BY <2>3 DEF PlayAccepted, PlayStarted, TokensOwned, Owned, Sweeping
  <2>4. CASE PlayRefused
        BY <2>4 DEF PlayRefused, ClearTokens, TokensOwned, Owned, Sweeping
  <2>5. CASE TakeTranscript \/ SpeakReusedStream \/ Feed \/ FeedEnd
        BY <2>5 DEF TakeTranscript, SpeakReusedStream, Feed, FeedEnd, TokensOwned,
           Owned, Sweeping
  <2>6. QED
        BY <1>2, <2>1, <2>2, <2>3, <2>4, <2>5 DEF Worker
<1>3. CASE Utterance \/ PlaybackEnds
      BY <1>3 DEF Utterance, PlaybackEnds, TokensOwned, Owned, Sweeping
<1>4. ASSUME NEW p \in Answers, PlaybackFinished(p) \/ GatingFallback(p)
      PROVE  TokensOwned'
      BY <1>4 DEF PlaybackFinished, GatingFallback, ClosePlayback, ClearTokens,
         TokensOwned, Owned, Sweeping
<1>5. ASSUME NEW s \in Answers, StreamTask(s) PROVE TokensOwned'
      BY <1>5, StreamOwners, StayOwned
<1>6. ASSUME NEW b \in Bargers, BargeInFile(b) \/ BargeInStream(b)
      PROVE  TokensOwned'
  <2>1. OwnersStay
        BY <1>1, <1>6 DEF BargeInFile, BargeInStream, ListPlaybacks, Sweep, Swept,
           Sweeping, OwnersStay
  <2>2. QED
        BY <2>1, StayOwned
<1>7. ASSUME NEW b \in Bargers, BargeTask(b) PROVE TokensOwned'
  <2>1. CASE BargeCleaned(b) \/ BargeSweep(b)
    <3>1. OwnersStay
          BY <1>1, <2>1 DEF BargeCleaned, BargeSweep, ListPlaybacks, Sweep, Swept,
             Sweeping, OwnersStay
    <3>2. QED
          BY <3>1, StayOwned
  <2>2. ASSUME NEW p \in Answers, BargeStop(b, p) PROVE TokensOwned'
        BY <2>2 DEF BargeStop, TokensOwned, Owned, Sweeping
  <2>3. QED
        BY <1>7, <2>1, <2>2 DEF BargeTask
<1>8. CASE UNCHANGED vars
      BY <1>8 DEF vars, TokensOwned, Owned, Sweeping
<1>9. QED
      BY <1>2, <1>3, <1>4, <1>5, <1>6, <1>7, <1>8 DEF Next

\* A token loses its owner only once a stream is astray: whichever of the
\* worker, the streams, the timers, the events and the barge-ins meet, and
\* whichever cleanup is left out because another holds the call's mark.
THEOREM OwnerKept == Spec => TokensKeepOwner
<1>1. Init => OwnerInv
      BY InitOwner
<1>2. OwnerInv /\ [Next]_vars => OwnerInv'
      BY NextTypes, NextMarkHeld, NextUnspoken DEF OwnerInv
<1>3. OwnerInv /\ [Next]_vars => [TokensOwned /\ InOrder => TokensOwned']_vars
      BY StepOwners
<1>4. QED
      BY <1>1, <1>2, <1>3, PTL DEF Spec, TokensKeepOwner

=============================================================================
