-------------------------- MODULE GoogleLiveSession --------------------------
(***************************************************************************)
(* One call's session with Google's Live service:                          *)
(* src/providers/google_live.py, with what engine.on_provider_event does   *)
(* with the events that end a call.                                        *)
(*                                                                         *)
(* A call ends in one of three ways: the model calls hangup_call; caller   *)
(* and model say goodbye, which markers in the transcripts give away; or   *)
(* the connection breaks.  The end of a turn hangs up, and so does a       *)
(* watchdog, in case no turn ends.                                         *)
(*                                                                         *)
(* The receive loop calls the engine, which waits before it hangs up: the  *)
(* loop handles nothing meanwhile, the watchdog goes on.  A step of the    *)
(* loop is one message up to such a wait.  The service may send anything   *)
(* at any time; a time-out is a step that may come at any time.            *)
(***************************************************************************)
EXTENDS Naturals

VARIABLES
  \* the setting hangup_markers_enabled
  markers,
  \* the connection, as the loop finds it when it reads on
  link,
  \* transcripts: _input_transcription_buffer, _output_transcription_buffer,
  \* _model_text_buffer, the marker in _last_final_user_text, _user_end_intent,
  \* _assistant_farewell_intent is set
  heard, said, noted, lastHeard, userEnd, farewell,
  \* the turn: _turn_has_assistant_output, _in_audio_burst
  spoken, burst,
  \* _hangup_fallback_armed, _hangup_fallback_audio_started,
  \* _hangup_fallback_emitted, _hangup_ready_emitted, _hangup_after_response
  armed, started, emitted, ready, hangupAfter,
  \* the session, its receive loop, its watchdog
  prov, rx, dog,
  \* the engine: cleanup_after_tts
  wantsEnd,
  \* history: who ended the call; hangup_call was executed
  ended, called

service     == <<markers, link>>
transcripts == <<heard, said, noted, lastHeard, userEnd, farewell>>
turn        == <<spoken, burst>>
fallback    == <<armed, started, emitted, ready, hangupAfter>>
tasks       == <<prov, rx, dog>>
call        == <<wantsEnd, ended, called>>
vars == <<service, transcripts, turn, fallback, tasks, call>>

\* What a text of the caller or of the model holds.  "end" is a marker that
\* ends the call by itself, "bye" one that needs the model's farewell.
UserTexts  == {"none", "plain", "bye", "end"}
ModelTexts == {"none", "plain", "farewell"}

TypeOK ==
  /\ markers \in BOOLEAN
  /\ link \in {"up", "abnormal", "normal", "closed"}
  /\ heard \in UserTexts /\ lastHeard \in {"none", "bye", "end"}
  /\ said \in ModelTexts /\ noted \in ModelTexts
  /\ userEnd \in {"none", "bye", "end"} /\ farewell \in BOOLEAN
  /\ spoken \in BOOLEAN /\ burst \in BOOLEAN
  /\ armed \in BOOLEAN /\ started \in BOOLEAN /\ emitted \in BOOLEAN
  /\ ready \in BOOLEAN /\ hangupAfter \in BOOLEAN
  /\ prov \in {"setup", "live", "draining", "cancelling", "stopped"}
  /\ rx \in {"idle", "tool", "drain", "ready", "lost", "off"}
  /\ dog \in {"off", "watch", "drain", "ready", "over"}
  /\ wantsEnd \in BOOLEAN /\ called \in BOOLEAN
  /\ ended \in {"no", "caller", "agent", "lost"}
  /\ hangupAfter => armed
  /\ armed => dog # "off"

\* The socket is open, the set-up has been sent.
Init ==
  /\ markers \in BOOLEAN /\ link = "up"
  /\ heard = "none" /\ said = "none" /\ noted = "none" /\ lastHeard = "none"
  /\ userEnd = "none" /\ farewell = FALSE
  /\ spoken = FALSE /\ burst = FALSE
  /\ armed = FALSE /\ started = FALSE /\ emitted = FALSE /\ ready = FALSE
  /\ hangupAfter = FALSE
  /\ prov = "setup" /\ rx = "idle" /\ dog = "off"
  /\ wantsEnd = FALSE /\ ended = "no" /\ called = FALSE

----------------------------------------------------------------------------
(* What several steps do.                                                  *)

\* The buffer a fragment is merged into: of two markers either may be found.
Joined(buffer, text) ==
  {t \in {buffer, text} : t \in {"none", "plain"} =>
                            {buffer, text} \subseteq {"none", t}}

UserIntent(t) == IF markers /\ t \in {"bye", "end"} THEN t ELSE "none"
IsFarewell(t) == markers /\ t = "farewell"

\* The engine hangs the caller up.
HangUp(why) == ended' = IF ended = "no" THEN why ELSE ended

EnsureWatchdog == dog' = IF dog \in {"off", "over"} THEN "watch" ELSE dog

\* The loop takes the next message.  Those after the end of the call are left
\* out, here and in LinkCloses.
Receives == rx = "idle" /\ link = "up" /\ prov = "live" /\ ended = "no"

----------------------------------------------------------------------------
(* _handle_server_content.                                                 *)

\* Mutant: speech takes hangup_call back too.
DisarmsAny(text) == text # "none" /\ armed /\ ~emitted

\* _maybe_disarm_cleanup_after_tts_fallback_on_user_speech.
Disarms(text) == text # "none" /\ armed /\ ~emitted /\ ~hangupAfter /\ wantsEnd

\* Mutant: a farewell of the model is enough.
ArmsOnFarewell(user, intent, final, bye) ==
  markers /\ (bye \/ IsFarewell(final))

\* What _maybe_arm_cleanup_after_tts asks of the texts: an explicit end, or
\* goodbyes of both.
SaidGoodbye(user, intent, final, bye) ==
  LET reason == IF UserIntent(user) # "none" THEN UserIntent(user) ELSE intent
  IN /\ markers
     /\ reason = "end" \/ (reason = "bye" /\ (bye \/ IsFarewell(final)))

\* _handle_turn_complete, once the end of the audio, if any, has been announced:
\* a turn of the model with audio is the farewell hangup_call asked for.
Conclude(had, was) ==
  /\ spoken' = FALSE
  /\ emitted' = (emitted \/ (had /\ armed'))
  /\ IF hangupAfter /\ was /\ had /\ ~ready
     THEN rx' = "ready" /\ UNCHANGED hangupAfter
     ELSE rx' = "idle" /\ hangupAfter' = (hangupAfter /\ ~(was /\ ready))

\* _handle_audio_output: the watchdog is told of audio.
AudioOutput(audio, kept) == started' = (armed' /\ (kept \/ audio))

\* A message: a fragment of the caller's speech, of the model's, a text that is
\* not spoken, audio, the end of the turn.  Of the first four it has at most one
\* here: several in a message are as good as several messages.
Silence == [user |-> "none", said |-> "none", note |-> "none", audio |-> FALSE]
Parts == {Silence, [Silence EXCEPT !.audio = TRUE]}
         \cup {[Silence EXCEPT !.user = t] : t \in UserTexts}
         \cup {[Silence EXCEPT !.said = t] : t \in ModelTexts}
         \cup {[Silence EXCEPT !.note = t] : t \in ModelTexts}

Content(m, ends) ==
  /\ Receives
  /\ \E h \in Joined(heard, m.user), s \in Joined(said, m.said),
        n \in Joined(IF ends THEN "none" ELSE noted, m.note) :
       LET final   == IF s # "none" THEN s ELSE noted
           user    == IF h # "none" THEN h ELSE lastHeard
           keeps   == ~Disarms(m.user)
           arms    == /\ ends /\ final # "none"
                      /\ ~(armed /\ keeps) /\ ~(wantsEnd /\ keeps)
                      /\ SaidGoodbye(user, userEnd', final, farewell')
           talks   == spoken \/ m.said # "none" \/ m.note # "none" \/ m.audio
           plays   == burst \/ m.audio
       IN /\ userEnd' = IF m.user # "none" /\ userEnd = "none"
                        THEN UserIntent(h) ELSE userEnd
          /\ farewell' = (farewell \/ (m.said # "none" /\ IsFarewell(s)))
          /\ heard' = IF ends THEN "none" ELSE h
          /\ lastHeard' = IF ends THEN UserIntent(user) ELSE lastHeard
          /\ said' = IF ends THEN "none" ELSE s
          /\ noted' = n
          /\ armed' = ((armed /\ keeps) \/ arms)
          /\ wantsEnd' = ((wantsEnd /\ keeps) \/ arms)
          /\ AudioOutput(m.audio, started /\ keeps /\ ~arms)
          /\ IF arms THEN EnsureWatchdog ELSE UNCHANGED dog
          /\ burst' = (plays /\ ~ends)
          /\ IF ~ends
             THEN spoken' = talks /\ UNCHANGED <<emitted, hangupAfter, rx>>
             ELSE IF plays /\ wantsEnd'
             THEN /\ spoken' = talks /\ rx' = "drain"
                  /\ UNCHANGED <<emitted, hangupAfter>>
             ELSE Conclude(plays, talks)
  /\ UNCHANGED <<markers, link, ready, prov, ended, called>>

\* AgentAudioDone: the engine has waited and hangs up.
Drained ==
  /\ rx = "drain"
  /\ HangUp("agent")
  /\ UNCHANGED armed /\ Conclude(TRUE, spoken)
  /\ UNCHANGED <<service, transcripts, burst, started, ready, prov, dog,
                 wantsEnd, called>>

\* HangupReady, reason farewell_completed.
FarewellOver ==
  /\ rx = "ready"
  /\ HangUp("agent")
  /\ ready' = TRUE /\ hangupAfter' = FALSE /\ emitted' = TRUE
  /\ rx' = "idle"
  /\ UNCHANGED <<service, transcripts, turn, armed, started, prov, dog,
                 wantsEnd, called>>

----------------------------------------------------------------------------
(* _handle_tool_call.                                                      *)

\* hangup_call; a second one while the first is pending is skipped.
HangupTool ==
  /\ Receives
  /\ IF hangupAfter
     THEN UNCHANGED <<wantsEnd, called, hangupAfter, armed, started, dog>>
     ELSE /\ wantsEnd' = TRUE /\ called' = TRUE /\ hangupAfter' = TRUE
          /\ armed' = TRUE
          /\ IF armed THEN UNCHANGED <<started, dog>>
             ELSE started' = FALSE /\ EnsureWatchdog
  /\ UNCHANGED <<markers, link, transcripts, turn, emitted, ready, prov, rx,
                 ended>>

\* Any other tool: the loop awaits it.
OtherTool ==
  /\ Receives
  /\ rx' = "tool"
  /\ UNCHANGED <<markers, link, transcripts, turn, fallback, prov, dog, call>>

ToolReturns ==
  /\ rx = "tool"
  /\ rx' = "idle"
  /\ UNCHANGED <<service, transcripts, turn, fallback, prov, dog, call>>

----------------------------------------------------------------------------
(* _hangup_fallback_watchdog_loop.                                         *)

\* _flush_pending_user_transcription.
FlushUser ==
  /\ heard' = "none"
  /\ lastHeard' = IF heard # "none" THEN UserIntent(heard) ELSE lastHeard
  /\ UNCHANGED <<said, noted, userEnd, farewell>>

DogLeaves ==
  /\ dog = "watch"
  /\ emitted \/ (armed /\ ready)
  /\ emitted' = TRUE
  /\ dog' = "over"
  /\ UNCHANGED <<service, transcripts, turn, armed, started, ready, hangupAfter,
                 prov, rx, call>>

\* Mutant: only a watchdog that has heard audio is due.
DueAfterAudio == dog = "watch" /\ armed /\ ~emitted /\ ~ready /\ started

Due == dog = "watch" /\ armed /\ ~emitted /\ ~ready

\* No audio for four seconds after it was armed.
DogNoAudio ==
  /\ Due /\ ~started
  /\ FlushUser
  /\ dog' = "ready"
  /\ UNCHANGED <<service, turn, fallback, prov, rx, call>>

\* Audio has come, and no more of it: the end of the audio is announced first.
DogIdle ==
  /\ Due /\ started
  /\ burst' = FALSE
  /\ IF burst /\ wantsEnd
     THEN dog' = "drain" /\ UNCHANGED transcripts
     ELSE dog' = "ready" /\ FlushUser
  /\ UNCHANGED <<service, spoken, fallback, prov, rx, call>>

DogDrained ==
  /\ dog = "drain"
  /\ HangUp("agent")
  /\ FlushUser
  /\ dog' = "ready"
  /\ UNCHANGED <<service, turn, fallback, prov, rx, wantsEnd, called>>

\* HangupReady, reason fallback_no_audio or fallback_audio_idle.
DogHangsUp ==
  /\ dog = "ready"
  /\ HangUp("agent")
  /\ ready' = TRUE /\ emitted' = TRUE
  /\ dog' = "over"
  /\ UNCHANGED <<service, transcripts, turn, armed, started, hangupAfter, prov,
                 rx, wantsEnd, called>>

----------------------------------------------------------------------------
(* The connection and the session.                                         *)

SetupComplete ==
  /\ prov = "setup" /\ link = "up"
  /\ prov' = "live"
  /\ UNCHANGED <<service, transcripts, turn, fallback, rx, dog, call>>

\* Closed with 1000 or 1001, or with another code.
LinkCloses ==
  /\ link = "up" /\ ended = "no"
  /\ link' \in {"normal", "abnormal"}
  /\ UNCHANGED <<markers, transcripts, turn, fallback, tasks, call>>

\* The iteration over the messages just ends: nobody is told.
LoopEnds ==
  /\ rx = "idle" /\ link = "normal"
  /\ rx' = "off"
  /\ UNCHANGED <<service, transcripts, turn, fallback, prov, dog, call>>

\* A farewell that was asked for may go on without the connection.
LeavesFarewell == hangupAfter

\* The transcripts are saved, and the engine is told, which may play a prompt.
LoopBreaks ==
  /\ rx = "idle" /\ link = "abnormal"
  /\ heard' = "none" /\ said' = "none" /\ noted' = "none"
  /\ lastHeard' = IF heard # "none" THEN UserIntent(heard) ELSE lastHeard
  /\ rx' = IF LeavesFarewell THEN "off" ELSE "lost"
  /\ UNCHANGED <<service, userEnd, farewell, turn, fallback, prov, dog, call>>

Disconnected ==
  /\ rx = "lost"
  /\ HangUp("lost")
  /\ rx' = "off"
  /\ UNCHANGED <<service, transcripts, turn, fallback, prov, dog, wantsEnd,
                 called>>

CallerLeaves ==
  /\ ended = "no"
  /\ ended' = "caller"
  /\ UNCHANGED <<service, transcripts, turn, fallback, tasks, wantsEnd, called>>

\* stop_session, by the cleanup of a call that is over: the end of the audio is
\* announced, and the engine waits as ever.
StopBegins ==
  /\ ended # "no" /\ prov \in {"setup", "live"}
  /\ prov' = IF burst /\ wantsEnd THEN "draining" ELSE "cancelling"
  /\ burst' = FALSE
  /\ UNCHANGED <<service, transcripts, spoken, fallback, rx, dog, call>>

StopDrained ==
  /\ prov = "draining"
  /\ prov' = "cancelling"
  /\ UNCHANGED <<service, transcripts, turn, fallback, rx, dog, call>>

\* The tasks are cancelled, the socket closed, the state cleared.
StopSession ==
  /\ prov' = "stopped" /\ rx' = "off" /\ dog' = "over"
  /\ link' = IF link = "up" THEN "closed" ELSE link
  /\ hangupAfter' = FALSE /\ armed' = FALSE /\ emitted' = FALSE
  /\ started' = FALSE
  /\ userEnd' = "none" /\ farewell' = FALSE
  /\ heard' = "none" /\ said' = "none" /\ noted' = "none"
  /\ UNCHANGED <<markers, lastHeard, turn, ready, call>>

StopEnds == prov = "cancelling" /\ StopSession

\* Five seconds without setupComplete.
SetupTimesOut == prov = "setup" /\ StopSession

----------------------------------------------------------------------------

Loop ==
  \/ Drained \/ FarewellOver \/ ToolReturns
  \/ LoopEnds \/ LoopBreaks \/ Disconnected
Watchdog == DogLeaves \/ DogNoAudio \/ DogIdle \/ DogDrained \/ DogHangsUp
Setup == SetupComplete \/ SetupTimesOut
Stop == StopBegins \/ StopDrained \/ StopEnds

Next ==
  \/ \E m \in Parts, ends \in BOOLEAN : Content(m, ends)
  \/ HangupTool \/ OtherTool \/ LinkCloses \/ CallerLeaves
  \/ Loop \/ Watchdog \/ Setup \/ Stop

\* The loop, the watchdog and the stop of the session run, a tool returns.  The
\* service need not say anything.
Fairness == /\ WF_vars(Loop) /\ WF_vars(Watchdog)
            /\ WF_vars(Setup) /\ WF_vars(Stop)

Spec == Init /\ [][Next]_vars /\ Fairness

----------------------------------------------------------------------------
(* What the caller is owed.                                                *)

\* The engine is told to end the call, by the loop or by the watchdog.
Told == \/ rx' \in {"drain", "ready"} /\ rx' # rx
        \/ dog' \in {"drain", "ready"} /\ dog = "watch"

\* The engine is told to end a call only if that is still wanted - a caller who
\* went on speaking after a goodbye is not cut off - and if the model asked for
\* it or the caller had said goodbye.
CallerNotCutOff == [][Told => wantsEnd' /\ (called \/ userEnd' # "none")]_vars

\* Somebody wants the call to end, or it has lost its connection.
MustEnd == called \/ wantsEnd \/ (prov = "live" /\ link = "abnormal")

\* A call that must end does, whatever the model says or fails to say and
\* whatever becomes of the connection, also during a farewell, unless the caller
\* goes on speaking and so takes a goodbye back.
CallEnds == MustEnd ~> (ended # "no" \/ ~MustEnd)

=============================================================================
