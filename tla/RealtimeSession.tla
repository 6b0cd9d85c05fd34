-------------------------- MODULE RealtimeSession ---------------------------
(***************************************************************************)
(* One call's session with the OpenAI Realtime service:                    *)
(* src/providers/openai_realtime.py, with what engine.on_provider_event    *)
(* does with the events that end a call, and the cleanup that stops the    *)
(* session.  The service numbers its responses; it generates at most one   *)
(* at a time.                                                              *)
(*                                                                         *)
(* The provider calls the engine from inside its receive loop: while the   *)
(* engine waits before it hangs up, no other event is handled.  A step of  *)
(* the loop runs up to such a wait.  A send does not suspend, and its      *)
(* effect on the service belongs to the step that sends.  The egress pacer *)
(* is off (the default): audio is handed to the engine as it arrives.      *)
(***************************************************************************)
EXTENDS Integers, Sequences

CONSTANTS MaxTurns,  \* bound: turns of the caller the service hears
          MaxDrops,  \* bound: connections lost
          Faults,    \* a subset of FaultKinds
          Timing     \* a subset of Races

\* no_audio: a response ends without having spoken.
\* stall: a response neither speaks nor ends.
\* refused: the service refuses to create a response.
FaultKinds == {"no_audio", "stall", "refused"}

\* early_speech: the service hears the caller before the greeting is requested.
Races == {"early_speech"}

ASSUME RealtimeAssumption ==
  /\ MaxTurns \in Nat /\ MaxDrops \in Nat
  /\ Faults \subseteq FaultKinds
  /\ Timing \subseteq Races

\* The service numbers its responses without bound.
Responses == Nat \ {0}
None == 0

VARIABLES
  \* the service: API version, connection, turn detection, the response being
  \* generated, the caller's turn to answer, counters, events on their way
  api, link, vad, active, phase, mayCall, heard, made, turns, drops, inbox,
  \* the provider: _current_response_id, _greeting_response_id,
  \* _greeting_completed, _farewell_response_id,
  \* _farewell_waiting_for_audio_done, _hangup_after_response,
  \* _in_audio_burst, _response_audio_start_time is set
  current, greeting, greeted, farewell, waiting, hangupAfter, burst, started,
  \* its tasks: the session, the receive loop and what it does after a wait,
  \* the reconnection, the farewell timeout, the VAD fallback, the tool calls
  prov, rx, cont, reconnect, timer, fallback, tools,
  \* the engine: the caller's channel, the session's cleanup_after_tts (the
  \* session is removed only after the provider has been stopped)
  caller, wantsEnd,
  \* history: the engine hung up; a farewell was requested and taken
  hungup, asked

response == <<active, phase, mayCall, made, inbox>>
service  == <<api, link, vad, response, heard, turns, drops>>
markers  == <<current, greeting, greeted, hangupAfter, started>>
speech   == <<farewell, waiting, burst>>
loop     == <<rx, cont>>
tasks    == <<reconnect, timer, fallback, tools>>
engine   == <<caller, wantsEnd, hungup, asked>>
vars == <<service, markers, speech, prov, loop, tasks, engine>>

\* stop_session has not been called: neither _closing nor _closed.
Open == prov \in {"starting", "greeting", "live"}

EventKinds == {"created", "audio", "audio_done", "call_hangup", "call_other",
               "done", "speech"}
Event == [kind : EventKinds \ {"speech"}, of : Responses]
           \cup [kind : {"speech"}, of : {None}]

ServiceTypes ==
  /\ api \in {"beta", "ga"} /\ link \in {"up", "lost", "closed"}
  /\ vad \in BOOLEAN /\ heard \in BOOLEAN /\ mayCall \in BOOLEAN
  /\ active \in Responses \cup {None} /\ made \in Responses \cup {None}
  /\ phase \in {"none", "created", "speaking", "spoken", "stuck"}
  /\ phase = "none" <=> active = None
  /\ turns \in 0..MaxTurns /\ drops \in 0..MaxDrops

ProviderTypes ==
  /\ {current, greeting, farewell} \subseteq Responses \cup {None}
  /\ {greeted, waiting, hangupAfter, burst, started} \subseteq BOOLEAN
  /\ waiting <=> farewell # None
  /\ farewell # None => hangupAfter

TaskTypes ==
  /\ prov \in {"starting", "greeting", "live", "stopping", "stopped"}
  /\ rx \in {"idle", "drain", "hangup", "off"}
  /\ cont \in {"next", "done", "close"}
  /\ reconnect \in {"no", "connect", "exhausted"}
  /\ timer \in {"off", "armed", "hangup", "over"}
  /\ fallback \in {"off", "armed"}
  /\ tools \subseteq {"hangup", "other", "stale"}

EngineTypes ==
  /\ caller \in {"up", "gone"}
  /\ {wantsEnd, hungup, asked} \subseteq BOOLEAN

TypeOK ==
  /\ ServiceTypes /\ inbox \in Seq(Event)
  /\ ProviderTypes /\ TaskTypes /\ EngineTypes

\* start_session has connected, seen session.created, configured the session
\* and started its loops; the greeting is next.
Init ==
  /\ api \in {"beta", "ga"} /\ link = "up" /\ vad = TRUE
  /\ active = None /\ phase = "none" /\ mayCall = FALSE /\ made = 0
  /\ inbox = <<>> /\ heard = FALSE /\ turns = 0 /\ drops = 0
  /\ current = None /\ greeting = None /\ greeted = FALSE
  /\ hangupAfter = FALSE /\ started = FALSE
  /\ farewell = None /\ waiting = FALSE /\ burst = FALSE
  /\ prov = "starting" /\ rx = "idle" /\ cont = "next"
  /\ reconnect = "no" /\ timer = "off" /\ fallback = "off" /\ tools = {}
  /\ caller = "up" /\ wantsEnd = FALSE
  /\ hungup = FALSE /\ asked = FALSE

----------------------------------------------------------------------------
(* The service.                                                            *)

Ev(k, r) == [kind |-> k, of |-> r]

Create(calls) ==
  /\ made' = made + 1 /\ active' = made + 1 /\ phase' = "created"
  /\ mayCall' = calls
  /\ inbox' = Append(inbox, Ev("created", made + 1))

\* response.create: refused while another response is generated, and lost
\* when the socket is not open.
CanCreate == link = "up" /\ active = None
Request(calls) ==
  IF CanCreate THEN Create(calls) \/ ("refused" \in Faults /\ UNCHANGED response)
  ELSE UNCHANGED response

Ends(last) ==
  /\ active' = None /\ phase' = "none"
  /\ inbox' = inbox \o last \o <<Ev("done", active)>>
  /\ UNCHANGED <<mayCall, made>>

\* The caller starts to speak.  While agent audio comes in the provider sends
\* none of the caller's.  The service stops what it generates, or leaves that
\* to the provider.
CallerSpeaks ==
  /\ link = "up" /\ vad /\ caller = "up" /\ ~burst
  /\ ~heard /\ turns < MaxTurns
  /\ prov \in {"starting", "greeting"} => "early_speech" \in Timing
  /\ heard' = TRUE /\ turns' = turns + 1
  /\ \/ active # None /\ active' = None /\ phase' = "none"
        /\ inbox' = inbox \o <<Ev("speech", None), Ev("done", active)>>
     \/ inbox' = Append(inbox, Ev("speech", None)) /\ UNCHANGED <<active, phase>>
  /\ UNCHANGED <<api, link, vad, mayCall, made, drops, markers, speech, prov,
                 loop, tasks, engine>>

\* The caller has spoken: the service answers of its own accord.
Answer ==
  /\ link = "up" /\ heard /\ active = None
  /\ heard' = FALSE
  /\ Create(TRUE)
  /\ UNCHANGED <<api, link, vad, turns, drops, markers, speech, prov, loop,
                 tasks, engine>>

Speak ==
  /\ phase = "created"
  /\ phase' = "speaking"
  /\ inbox' = Append(inbox, Ev("audio", active))
  /\ UNCHANGED <<active, mayCall, made>>

Spoken ==
  /\ phase = "speaking"
  /\ phase' = "spoken"
  /\ inbox' = Append(inbox, Ev("audio_done", active))
  /\ UNCHANGED <<active, mayCall, made>>

Complete ==
  /\ phase = "spoken" \/ (phase = "created" /\ "no_audio" \in Faults)
  /\ Ends(<<>>)

CallTool(k) ==
  /\ phase \in {"created", "spoken"} /\ mayCall
  /\ Ends(<<Ev(k, active)>>)

Generate ==
  /\ Speak \/ Spoken \/ Complete
  /\ UNCHANGED <<api, link, vad, heard, turns, drops, markers, speech, prov,
                 loop, tasks, engine>>

UseTool ==
  /\ CallTool("call_hangup") \/ CallTool("call_other")
  /\ UNCHANGED <<api, link, vad, heard, turns, drops, markers, speech, prov,
                 loop, tasks, engine>>

Stall ==
  /\ "stall" \in Faults /\ phase = "created"
  /\ phase' = "stuck"
  /\ UNCHANGED <<api, link, vad, active, mayCall, made, inbox, heard, turns,
                 drops, markers, speech, prov, loop, tasks, engine>>

\* The service keeps nothing of a connection that ends.
Forget ==
  /\ active' = None /\ phase' = "none" /\ mayCall' = FALSE
  /\ heard' = FALSE /\ vad' = TRUE

\* The connection is lost, with or without what was on its way; the socket a
\* tool call has taken is not the next one.
Drop ==
  /\ link = "up" /\ drops < MaxDrops
  /\ link' = "lost" /\ drops' = drops + 1
  /\ inbox' \in {inbox, <<>>}
  /\ Forget /\ made' = made
  /\ tools' = IF "other" \in tools THEN (tools \ {"other"}) \cup {"stale"} ELSE tools
  /\ UNCHANGED <<api, turns, markers, speech, prov, loop, reconnect, timer,
                 fallback, engine>>

----------------------------------------------------------------------------
(* The greeting.                                                           *)

\* Beta: turn detection goes off for the greeting.
DisableVad ==
  /\ prov = "starting"
  /\ prov' = "greeting"
  /\ vad' = IF api = "beta" /\ link = "up" THEN FALSE ELSE vad
  /\ UNCHANGED <<api, link, response, heard, turns, drops, markers, speech,
                 loop, tasks, engine>>

SendGreeting ==
  /\ prov = "greeting"
  /\ prov' = "live"
  /\ fallback' = "armed"
  /\ Request(TRUE)
  /\ UNCHANGED <<api, link, vad, heard, turns, drops, markers, speech, loop,
                 reconnect, timer, tools, engine>>

\* No greeting is configured: the model is asked to begin.
FirstRequest ==
  /\ prov = "starting"
  /\ prov' = "live"
  /\ Request(TRUE)
  /\ UNCHANGED <<api, link, vad, heard, turns, drops, markers, speech, loop,
                 tasks, engine>>

\* Mutant: nothing re-enables turn detection.
LeaveVad == UNCHANGED vad

ReEnableVad == vad' = IF api = "beta" /\ link = "up" THEN TRUE ELSE vad

\* Five seconds after the greeting was sent.
FallbackFires ==
  /\ fallback = "armed"
  /\ fallback' = "off"
  /\ greeted' = TRUE
  /\ IF greeted THEN UNCHANGED vad ELSE ReEnableVad
  /\ UNCHANGED <<api, link, response, heard, turns, drops, current, greeting,
                 hangupAfter, started, speech, prov, loop, reconnect, timer,
                 tools, engine>>

----------------------------------------------------------------------------
(* The receive loop: the end of agent audio.                               *)

\* The engine hangs the caller up.
HangUp ==
  /\ caller' = "gone"
  /\ hungup' = (hungup \/ caller = "up")
  /\ UNCHANGED <<wantsEnd, asked>>

\* What the end of a handler may change.
finish == <<vad, current, greeted, reconnect>>

\* The response is over; the greeting gives turn detection back.
AfterDone ==
  /\ IF current = greeting /\ ~greeted
     THEN greeted' = TRUE /\ ReEnableVad
     ELSE UNCHANGED <<greeted, vad>>
  /\ current' = None
  /\ rx' = "idle" /\ UNCHANGED reconnect

\* Mutant: only a loop that was between responses reconnects.
ReconnectIdle == reconnect' = IF Open /\ current = None THEN "connect" ELSE reconnect

Reschedule == reconnect' = IF Open THEN "connect" ELSE reconnect

Finish(c) ==
  /\ cont' = "next"
  /\ CASE c = "next" -> rx' = "idle" /\ UNCHANGED finish
       [] c = "done" -> AfterDone
       [] c = "close" -> rx' = "off" /\ Reschedule /\ UNCHANGED <<vad, current, greeted>>

Wait(s, c) == rx' = s /\ cont' = c /\ UNCHANGED finish

\* Second half of _emit_audio_done: HangupReady when a farewell was awaited.
\* It clears the farewell, so that the branch of response.done for a farewell
\* without audio is never taken.  A stopped session has no call to report to.
FarewellDone(c) ==
  /\ burst' = FALSE
  /\ waiting' = FALSE /\ farewell' = None
  /\ IF waiting /\ farewell # None /\ prov # "stopped" THEN Wait("hangup", c) ELSE Finish(c)

\* _emit_audio_done: AgentAudioDone first, if agent audio was coming in; the
\* engine ends the call there when the hangup tool has run.
AudioDone(b, c) ==
  IF b /\ wantsEnd
  THEN Wait("drain", c) /\ UNCHANGED <<burst, waiting, farewell>>
  ELSE FarewellDone(c)

Drained ==
  /\ rx = "drain"
  /\ HangUp
  /\ FarewellDone(cont)
  /\ UNCHANGED <<api, link, response, heard, turns, drops, greeting,
                 hangupAfter, started, prov, timer, fallback, tools>>

HungUp ==
  /\ rx = "hangup"
  /\ HangUp
  /\ Finish(cont)
  /\ UNCHANGED <<api, link, response, heard, turns, drops, greeting,
                 hangupAfter, started, speech, prov, timer, fallback, tools>>

----------------------------------------------------------------------------
(* The receive loop: events.                                               *)

Next1(k) == rx = "idle" /\ inbox # <<>> /\ Head(inbox).kind = k
Take == inbox' = Tail(inbox)
rest == <<api, link, active, phase, mayCall, made, heard, turns, drops, prov>>

\* Mutant: whatever comes after the greeting is the farewell.
EveryFarewell == TRUE

IsFarewell == hangupAfter

Created ==
  /\ Next1("created") /\ Take
  /\ current' = Head(inbox).of
  /\ IF ~greeted /\ greeting = None
     THEN greeting' = current' /\ UNCHANGED <<farewell, waiting, timer>>
     ELSE /\ UNCHANGED greeting
          /\ IF IsFarewell
             THEN farewell' = current' /\ waiting' = TRUE /\ timer' = "armed"
             ELSE UNCHANGED <<farewell, waiting, timer>>
  /\ UNCHANGED <<rest, vad, greeted, hangupAfter, started, burst, loop,
                 reconnect, fallback, tools, engine>>

Audio ==
  /\ Next1("audio") /\ Take
  /\ burst' = TRUE
  /\ started' = (started \/ (api = "beta" /\ ~burst))
  /\ UNCHANGED <<rest, vad, current, greeting, greeted, hangupAfter, farewell,
                 waiting, loop, tasks, engine>>

\* Beta's response.audio.done clears the burst before the end is announced.
AudioEnds ==
  /\ Next1("audio_done") /\ Take
  /\ AudioDone(burst /\ api = "ga", "next")
  /\ UNCHANGED <<rest, greeting, hangupAfter, started, timer, fallback, tools,
                 engine>>

\* Mutant: the end of a response does not end its audio.
DoneKeepsBurst == Finish("done") /\ UNCHANGED speech

DoneEndsAudio == AudioDone(burst, "done")

Done ==
  /\ Next1("done") /\ Take
  /\ started' = FALSE
  /\ DoneEndsAudio
  /\ UNCHANGED <<rest, greeting, hangupAfter, timer, fallback, tools, engine>>

ToolCall ==
  /\ \/ Next1("call_hangup") /\ tools' = tools \cup {"hangup"}
     \/ Next1("call_other") /\ tools' = tools \cup {"other"}
  /\ Take
  /\ UNCHANGED <<rest, vad, markers, speech, loop, reconnect, timer, fallback,
                 engine>>

GreetingProtected ==
  IF current # None THEN current = greeting /\ ~greeted
  ELSE greeting # None /\ ~greeted

\* The caller speaks into a greeting, or into a response that has just begun.
SpeechIgnored ==
  /\ Next1("speech") /\ Take
  /\ GreetingProtected \/ (current # None /\ started)
  /\ UNCHANGED <<rest, vad, markers, speech, loop, tasks, engine>>

\* The caller interrupts: the response is cancelled, if it is still generated,
\* and the end of its audio is announced.
SpeechInterrupts ==
  /\ Next1("speech") /\ ~GreetingProtected
  /\ IF current # None /\ current = active /\ link = "up"
     THEN /\ active' = None /\ phase' = "none"
          /\ inbox' = Append(Tail(inbox), Ev("done", active))
     ELSE Take /\ UNCHANGED <<active, phase>>
  /\ IF current = None \/ link = "up" THEN AudioDone(burst, "next")
     ELSE UNCHANGED <<speech, loop, finish>>
  /\ UNCHANGED <<api, link, mayCall, made, heard, turns, drops, prov, greeting,
                 hangupAfter, started, timer, fallback, tools, engine>>

\* The socket is closed under the loop.
ConnectionClosed ==
  /\ rx = "idle" /\ inbox = <<>> /\ link = "lost"
  /\ AudioDone(burst, "close")
  /\ UNCHANGED <<rest, inbox, greeting, hangupAfter, started, timer, fallback,
                 tools, engine>>

----------------------------------------------------------------------------
(* Tasks beside the loop.                                                  *)

\* hangup_call marks the session, then the farewell is requested.
HangupTool ==
  /\ "hangup" \in tools
  /\ tools' = tools \ {"hangup"}
  /\ wantsEnd' = TRUE /\ hangupAfter' = TRUE
  /\ Request(FALSE)
  /\ asked' = (asked \/ made' # made)
  /\ UNCHANGED <<api, link, vad, heard, turns, drops, current, greeting,
                 greeted, started, speech, prov, loop, reconnect, timer,
                 fallback, caller, hungup>>

\* The result of another tool is sent, and a response to it requested.
OtherTool ==
  /\ "other" \in tools
  /\ tools' = tools \ {"other"}
  /\ Request(FALSE)
  /\ UNCHANGED <<api, link, vad, heard, turns, drops, markers, speech, prov,
                 loop, reconnect, timer, fallback, engine>>

StaleTool ==
  /\ "stale" \in tools
  /\ tools' = tools \ {"stale"}
  /\ UNCHANGED <<service, markers, speech, prov, loop, reconnect, timer,
                 fallback, engine>>

\* Mutant: the timeout is never due.
NeverDue == FALSE

TimerDue == timer = "armed"

TimerFires ==
  /\ TimerDue
  /\ timer' = "hangup"
  /\ UNCHANGED <<service, markers, speech, prov, loop, reconnect, fallback,
                 tools, engine>>

TimerHangsUp ==
  /\ timer = "hangup"
  /\ HangUp
  /\ timer' = "over"
  /\ UNCHANGED <<service, markers, speech, prov, loop, reconnect, fallback,
                 tools>>

\* A new socket: the session is configured again, with turn detection on.
Reconnect ==
  /\ reconnect = "connect" /\ Open
  /\ reconnect' = "no"
  /\ link' = "up" /\ vad' = TRUE /\ burst' = FALSE
  /\ rx' = "idle" /\ cont' = "next"
  /\ UNCHANGED <<api, response, heard, turns, drops, markers, farewell,
                 waiting, prov, timer, fallback, tools, engine>>

\* The session was stopped while the connection was being made.
ReconnectTooLate ==
  /\ reconnect = "connect" /\ prov = "stopped"
  /\ reconnect' = "no"
  /\ link' = "up" /\ vad' = TRUE
  /\ rx' = "idle" /\ cont' = "next"
  /\ UNCHANGED <<api, response, heard, turns, drops, markers, speech, prov,
                 timer, fallback, tools, engine>>

\* Five attempts fail, or the session is being stopped between two.
ReconnectFails ==
  /\ reconnect = "connect"
  /\ reconnect' = "exhausted"
  /\ UNCHANGED <<service, markers, speech, prov, loop, timer, fallback, tools,
                 engine>>

----------------------------------------------------------------------------
(* The end of the call.                                                    *)

CallerLeaves ==
  /\ caller = "up" /\ caller' = "gone"
  /\ UNCHANGED <<service, markers, speech, prov, loop, tasks, wantsEnd, hungup,
                 asked>>

\* stop_session cancels the receive loop and awaits it.  The loop's last act
\* still announces the end of the audio, unless it was at it already.
StopBegins ==
  /\ caller = "gone" /\ Open
  /\ prov' = "stopping"
  /\ IF rx = "off" THEN UNCHANGED <<speech, loop>>
     ELSE IF cont = "close"
     THEN rx' = "off" /\ cont' = "next" /\ burst' = FALSE /\ UNCHANGED <<farewell, waiting>>
     ELSE /\ IF rx = "idle" /\ burst /\ wantsEnd
             THEN rx' = "drain" /\ cont' = "close" /\ UNCHANGED speech
             ELSE /\ burst' = FALSE /\ waiting' = FALSE /\ farewell' = None
                  /\ IF waiting THEN rx' = "hangup" /\ cont' = "close"
                     ELSE rx' = "off" /\ cont' = "next"
  /\ UNCHANGED <<service, markers, tasks, engine>>

StopTasks == fallback' = "off" /\ tools' = {} /\ timer' = "off"

\* The other tasks are cancelled and the socket is closed.
StopEnds ==
  /\ prov = "stopping" /\ rx = "off"
  /\ prov' = "stopped"
  /\ StopTasks
  /\ link' = IF link = "up" THEN "closed" ELSE link
  /\ Forget /\ made' = 0 /\ turns' = 0 /\ inbox' = <<>>
  /\ burst' = FALSE
  /\ UNCHANGED <<api, drops, markers, farewell, waiting, loop, reconnect,
                 engine>>

----------------------------------------------------------------------------

Start == DisableVad \/ SendGreeting \/ FirstRequest
Receive ==
  \/ Created \/ Audio \/ AudioEnds \/ Done \/ ToolCall
  \/ SpeechIgnored \/ SpeechInterrupts \/ ConnectionClosed
  \/ Drained \/ HungUp
RunTool == HangupTool \/ OtherTool \/ StaleTool
Timer == TimerFires \/ TimerHangsUp
Reconnection == Reconnect \/ ReconnectTooLate \/ ReconnectFails
Cleanup == StopBegins \/ StopEnds

Next ==
  \/ CallerSpeaks \/ CallerLeaves \/ Answer \/ Generate \/ UseTool \/ Stall
  \/ Drop \/ Start \/ FallbackFires \/ Receive \/ RunTool \/ Timer
  \/ Reconnection \/ Cleanup

Spec == Init /\ [][Next]_vars

\* Every task of the engine that can run does, a timeout passes, and the
\* service goes on with a response unless it stalls.
Fairness ==
  /\ WF_vars(Start) /\ WF_vars(Receive) /\ WF_vars(RunTool)
  /\ WF_vars(Timer) /\ WF_vars(FallbackFires)
  /\ WF_vars(Reconnection) /\ WF_vars(Cleanup) /\ WF_vars(Generate)

FairSpec == Spec /\ Fairness

----------------------------------------------------------------------------
(* What the caller and the engine are owed.                                *)

\* The engine hangs up only on a caller the model has said goodbye to: no
\* response, interruption or lost connection is taken for the end of a
\* farewell nobody asked for.
HangupWanted == hungup => wantsEnd

\* A stopped session does nothing more: no timeout that would hang up, no
\* fallback, no tool call, and the caller's audio is not held back.
StoppedIsQuiet ==
  prov = "stopped" => /\ timer # "armed" /\ timer # "hangup"
                      /\ fallback = "off" /\ tools = {} /\ ~burst

\* A farewell the service has taken ends the call: spoken, silent, stalled or
\* interrupted, as long as the connection lasts.
CallEnds == asked ~> (caller = "gone" \/ drops > 0)

\* Turn detection comes back after every greeting, also one that was refused,
\* stalled or interrupted, so that the caller is heard.
VadReturns == ~vad ~> (vad \/ link # "up" \/ caller = "gone")

\* The caller's audio is held back only while agent audio may still come:
\* cancelled and lost responses, whose end is never announced, do not hold it.
InputReturns ==
  rx = "off" \/ (rx = "idle" /\ inbox = <<>> /\ active = None /\ link = "up")
    => ~burst

\* Whatever the receive loop was doing when the connection broke: once it has
\* ended, the connection is being made again or was given up.
ConnectionReturns ==
  rx = "off" /\ Open => reconnect # "no"

=============================================================================
