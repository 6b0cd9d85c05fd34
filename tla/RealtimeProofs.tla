--------------------------- MODULE RealtimeProofs ---------------------------
(***************************************************************************)
(* What holds of a realtime session for any number of turns, lost          *)
(* connections and faults: the engine hangs up only on a caller the model  *)
(* wanted to end the call with, a loop that has ended is being reconnected,*)
(* a stopped session is quiet, every variable has its type, and the        *)
(* caller's audio is held back only while agent audio may still come.      *)
(* Each is shown by an invariant of its own; its lemma has one case per    *)
(* action that touches what the invariant is about.                        *)
(***************************************************************************)
EXTENDS RealtimeSession, TLAPS

----------------------------------------------------------------------------
(* A hangup is wanted.                                                     *)

\* Everything that leads to a hangup comes after the hangup tool: the farewell
\* that is awaited, the waits inside the engine, and the timeout.
HangupInv ==
  /\ hangupAfter => wantsEnd
  /\ waiting => wantsEnd
  /\ rx \in {"drain", "hangup"} => wantsEnd
  /\ timer \in {"armed", "hangup"} => wantsEnd
  /\ hungup => wantsEnd

\* Every step of the provider and of the engine keeps HangupInv.
LEMMA HangupStep == HangupInv /\ [Next]_vars => HangupInv'
<1> SUFFICES ASSUME HangupInv, [Next]_vars PROVE HangupInv'
  OBVIOUS
<1>1. CASE CallerSpeaks
  BY <1>1 DEF CallerSpeaks, speech, markers, loop, tasks, engine,
  HangupInv
<1>2. CASE CallerLeaves
  BY <1>2 DEF CallerLeaves, service, markers, speech, loop, tasks,
  response, HangupInv
<1>3. CASE Answer
  BY <1>3 DEF Answer, Create, markers, speech, loop, tasks, engine,
  HangupInv
<1>4. CASE Generate
  BY <1>4 DEF Generate, Speak, Spoken, Complete, markers, speech, loop,
  tasks, engine, Ends, HangupInv
<1>5. CASE UseTool
  BY <1>5 DEF UseTool, CallTool, markers, speech, loop, tasks, engine,
  Ends, HangupInv
<1>6. CASE Stall
  BY <1>6 DEF Stall, markers, speech, loop, tasks, engine, HangupInv
<1>7. CASE Drop
  BY <1>7 DEF Drop, Forget, markers, speech, loop, engine, HangupInv
<1>8. CASE DisableVad
  BY <1>8 DEF DisableVad, response, markers, speech, loop, tasks, engine,
  HangupInv
<1>9. CASE SendGreeting
  BY <1>9 DEF SendGreeting, Request, markers, speech, loop, engine,
  CanCreate, Create, response, HangupInv
<1>10. CASE FirstRequest
  BY <1>10 DEF FirstRequest, Request, markers, speech, loop, tasks,
  engine, CanCreate, Create, response, HangupInv
<1>11. CASE FallbackFires
  BY <1>11 DEF FallbackFires, ReEnableVad, response, speech, loop, engine,
  HangupInv
<1>12. CASE Created
  BY <1>12 DEF Created, Next1, Take, IsFarewell, rest, loop, engine,
  HangupInv
<1>13. CASE Audio
  BY <1>13 DEF Audio, Next1, Take, rest, loop, tasks, engine, HangupInv
<1>14. CASE AudioEnds
  BY <1>14 DEF AudioEnds, Next1, Take, AudioDone, rest, engine, Wait,
  FarewellDone, finish, Finish, AfterDone, Reschedule, ReEnableVad,
  HangupInv
<1>15. CASE Done
  BY <1>15 DEF Done, Next1, Take, DoneEndsAudio, rest, engine, AudioDone,
  Wait, FarewellDone, finish, Finish, AfterDone, Reschedule, ReEnableVad,
  HangupInv
<1>16. CASE ToolCall
  BY <1>16 DEF ToolCall, Next1, Take, rest, markers, speech, loop, engine,
  HangupInv
<1>17. CASE SpeechIgnored
  BY <1>17 DEF SpeechIgnored, Next1, speech, Take, rest, markers, loop,
  tasks, engine, HangupInv
<1>18. CASE SpeechInterrupts
  BY <1>18 DEF SpeechInterrupts, Next1, speech, Take, AudioDone, loop,
  finish, engine, Wait, FarewellDone, Finish, AfterDone, Reschedule,
  ReEnableVad, HangupInv
<1>19. CASE ConnectionClosed
  BY <1>19 DEF ConnectionClosed, AudioDone, rest, engine, Wait,
  FarewellDone, finish, Finish, AfterDone, Reschedule, ReEnableVad,
  HangupInv
<1>20. CASE Drained
  BY <1>20 DEF Drained, HangUp, FarewellDone, response, Wait, Finish,
  finish, AfterDone, Reschedule, ReEnableVad, HangupInv
<1>21. CASE HungUp
  BY <1>21 DEF HungUp, HangUp, Finish, response, speech, finish,
  AfterDone, Reschedule, ReEnableVad, HangupInv
<1>22. CASE HangupTool
  BY <1>22 DEF HangupTool, Request, speech, loop, CanCreate, Create,
  response, HangupInv
<1>23. CASE OtherTool
  BY <1>23 DEF OtherTool, Request, markers, speech, loop, engine,
  CanCreate, Create, response, HangupInv
<1>24. CASE StaleTool
  BY <1>24 DEF StaleTool, service, markers, speech, loop, engine,
  response, HangupInv
<1>25. CASE TimerFires
  BY <1>25 DEF TimerFires, TimerDue, service, markers, speech, loop,
  engine, response, HangupInv
<1>26. CASE TimerHangsUp
  BY <1>26 DEF TimerHangsUp, HangUp, service, markers, speech, loop,
  response, HangupInv
<1>27. CASE Reconnect
  BY <1>27 DEF Reconnect, response, markers, engine, HangupInv
<1>28. CASE ReconnectTooLate
  BY <1>28 DEF ReconnectTooLate, response, markers, speech, engine,
  HangupInv
<1>29. CASE ReconnectFails
  BY <1>29 DEF ReconnectFails, service, markers, speech, loop, engine,
  response, HangupInv
<1>30. CASE StopBegins
  BY <1>30 DEF StopBegins, speech, loop, service, markers, tasks, engine,
  response, HangupInv
<1>31. CASE StopEnds
  BY <1>31 DEF StopEnds, StopTasks, Forget, markers, loop, engine,
  HangupInv
<1>32. CASE UNCHANGED vars
  BY <1>32 DEF vars, HangupInv, service, response, markers, speech, loop,
    tasks, engine
<1> QED
  BY <1>1, <1>2, <1>3, <1>4, <1>5, <1>6, <1>7, <1>8, <1>9, <1>10, <1>11,
  <1>12, <1>13, <1>14, <1>15, <1>16, <1>17, <1>18, <1>19, <1>20, <1>21,
  <1>22, <1>23, <1>24, <1>25, <1>26, <1>27, <1>28, <1>29, <1>30, <1>31,
  <1>32 DEF Next, Start, Receive, RunTool, Timer, Reconnection, Cleanup

\* The engine hangs up only on a caller the model has said goodbye to.
THEOREM HangupIsWanted == Spec => []HangupWanted
<1>1. Init => HangupInv
  BY DEF Init, HangupInv
<1>2. HangupInv => HangupWanted
  BY DEF HangupInv, HangupWanted
<1> QED
  BY <1>1, <1>2, HangupStep, PTL DEF Spec

----------------------------------------------------------------------------
(* A lost connection is looked after.                                      *)

\* A receive loop leaves a reconnection behind it, and a reconnection ends
\* with a receive loop or gives up; what the loop does after a wait in the
\* engine is one of three things.
ConnectionInv ==
  /\ ConnectionReturns
  /\ cont \in {"next", "done", "close"}

\* Every step of the provider and of the engine keeps ConnectionInv.
LEMMA ConnectionStep == ConnectionInv /\ [Next]_vars => ConnectionInv'
<1> SUFFICES ASSUME ConnectionInv, [Next]_vars PROVE ConnectionInv'
  OBVIOUS
<1>1. CASE CallerSpeaks
  BY <1>1 DEF CallerSpeaks, speech, markers, loop, tasks, engine, Open,
  ConnectionInv, ConnectionReturns
<1>2. CASE CallerLeaves
  BY <1>2 DEF CallerLeaves, service, markers, speech, loop, tasks,
  response, Open, ConnectionInv, ConnectionReturns
<1>3. CASE Answer
  BY <1>3 DEF Answer, Create, markers, speech, loop, tasks, engine, Open,
  ConnectionInv, ConnectionReturns
<1>4. CASE Generate
  BY <1>4 DEF Generate, Speak, Spoken, Complete, markers, speech, loop,
  tasks, engine, Ends, Open, ConnectionInv, ConnectionReturns
<1>5. CASE UseTool
  BY <1>5 DEF UseTool, CallTool, markers, speech, loop, tasks, engine,
  Ends, Open, ConnectionInv, ConnectionReturns
<1>6. CASE Stall
  BY <1>6 DEF Stall, markers, speech, loop, tasks, engine, Open,
  ConnectionInv, ConnectionReturns
<1>7. CASE Drop
  BY <1>7 DEF Drop, Forget, markers, speech, loop, engine, Open,
  ConnectionInv, ConnectionReturns
<1>8. CASE DisableVad
  BY <1>8 DEF DisableVad, response, markers, speech, loop, tasks, engine,
  Open, ConnectionInv, ConnectionReturns
<1>9. CASE SendGreeting
  BY <1>9 DEF SendGreeting, Request, markers, speech, loop, engine,
  CanCreate, Create, response, Open, ConnectionInv, ConnectionReturns
<1>10. CASE FirstRequest
  BY <1>10 DEF FirstRequest, Request, markers, speech, loop, tasks,
  engine, CanCreate, Create, response, Open, ConnectionInv,
  ConnectionReturns
<1>11. CASE FallbackFires
  BY <1>11 DEF FallbackFires, ReEnableVad, response, speech, loop, engine,
  Open, ConnectionInv, ConnectionReturns
<1>12. CASE Created
  BY <1>12 DEF Created, Next1, Take, IsFarewell, rest, loop, engine, Open,
  ConnectionInv, ConnectionReturns
<1>13. CASE Audio
  BY <1>13 DEF Audio, Next1, Take, rest, loop, tasks, engine, Open,
  ConnectionInv, ConnectionReturns
<1>14. CASE AudioEnds
  BY <1>14 DEF AudioEnds, Next1, Take, AudioDone, rest, engine, Wait,
  FarewellDone, finish, Finish, AfterDone, Reschedule, ReEnableVad, Open,
  ConnectionInv, ConnectionReturns
<1>15. CASE Done
  BY <1>15 DEF Done, Next1, Take, DoneEndsAudio, rest, engine, AudioDone,
  Wait, FarewellDone, finish, Finish, AfterDone, Reschedule, ReEnableVad,
  Open, ConnectionInv, ConnectionReturns
<1>16. CASE ToolCall
  BY <1>16 DEF ToolCall, Next1, Take, rest, markers, speech, loop, engine,
  Open, ConnectionInv, ConnectionReturns
<1>17. CASE SpeechIgnored
  BY <1>17 DEF SpeechIgnored, Next1, speech, Take, rest, markers, loop,
  tasks, engine, Open, ConnectionInv, ConnectionReturns
<1>18. CASE SpeechInterrupts
  BY <1>18 DEF SpeechInterrupts, Next1, speech, Take, AudioDone, loop,
  finish, engine, Wait, FarewellDone, Finish, AfterDone, Reschedule,
  ReEnableVad, Open, ConnectionInv, ConnectionReturns
<1>19. CASE ConnectionClosed
  BY <1>19 DEF ConnectionClosed, AudioDone, rest, engine, Wait,
  FarewellDone, finish, Finish, AfterDone, Reschedule, ReEnableVad, Open,
  ConnectionInv, ConnectionReturns
<1>20. CASE Drained
  BY <1>20 DEF Drained, HangUp, FarewellDone, response, Wait, Finish,
  finish, AfterDone, Reschedule, ReEnableVad, Open, ConnectionInv,
  ConnectionReturns
<1>21. CASE HungUp
  BY <1>21 DEF HungUp, HangUp, Finish, response, speech, finish,
  AfterDone, Reschedule, ReEnableVad, Open, ConnectionInv,
  ConnectionReturns
<1>22. CASE HangupTool
  BY <1>22 DEF HangupTool, Request, speech, loop, CanCreate, Create,
  response, Open, ConnectionInv, ConnectionReturns
<1>23. CASE OtherTool
  BY <1>23 DEF OtherTool, Request, markers, speech, loop, engine,
  CanCreate, Create, response, Open, ConnectionInv, ConnectionReturns
<1>24. CASE StaleTool
  BY <1>24 DEF StaleTool, service, markers, speech, loop, engine,
  response, Open, ConnectionInv, ConnectionReturns
<1>25. CASE TimerFires
  BY <1>25 DEF TimerFires, TimerDue, service, markers, speech, loop,
  engine, response, Open, ConnectionInv, ConnectionReturns
<1>26. CASE TimerHangsUp
  BY <1>26 DEF TimerHangsUp, HangUp, service, markers, speech, loop,
  response, Open, ConnectionInv, ConnectionReturns
<1>27. CASE Reconnect
  BY <1>27 DEF Reconnect, Open, response, markers, engine, ConnectionInv,
  ConnectionReturns
<1>28. CASE ReconnectTooLate
  BY <1>28 DEF ReconnectTooLate, response, markers, speech, engine, Open,
  ConnectionInv, ConnectionReturns
<1>29. CASE ReconnectFails
  BY <1>29 DEF ReconnectFails, service, markers, speech, loop, engine,
  response, Open, ConnectionInv, ConnectionReturns
<1>30. CASE StopBegins
  BY <1>30 DEF StopBegins, Open, speech, loop, service, markers, tasks,
  engine, response, ConnectionInv, ConnectionReturns
<1>31. CASE StopEnds
  BY <1>31 DEF StopEnds, StopTasks, Forget, markers, loop, engine, Open,
  ConnectionInv, ConnectionReturns
<1>32. CASE UNCHANGED vars
  BY <1>32 DEF vars, ConnectionInv, ConnectionReturns, Open, service,
    response, markers, speech, loop,
    tasks, engine
<1> QED
  BY <1>1, <1>2, <1>3, <1>4, <1>5, <1>6, <1>7, <1>8, <1>9, <1>10, <1>11,
  <1>12, <1>13, <1>14, <1>15, <1>16, <1>17, <1>18, <1>19, <1>20, <1>21,
  <1>22, <1>23, <1>24, <1>25, <1>26, <1>27, <1>28, <1>29, <1>30, <1>31,
  <1>32 DEF Next, Start, Receive, RunTool, Timer, Reconnection, Cleanup

\* While the session is open, a receive loop that has ended is being replaced
\* or was given up.
THEOREM ConnectionIsWatched == Spec => []ConnectionReturns
<1>1. Init => ConnectionInv
  BY DEF Init, ConnectionInv, ConnectionReturns
<1>2. ConnectionInv => ConnectionReturns
  BY DEF ConnectionInv
<1> QED
  BY <1>1, <1>2, ConnectionStep, PTL DEF Spec

----------------------------------------------------------------------------
(* A stopped session is quiet.                                             *)

\* Nothing is left that could arm a timeout or start a task again: no event,
\* no response, no turn of the caller, who is gone.
QuietInv ==
  /\ prov \in {"stopping", "stopped"} => caller = "gone"
  /\ StoppedIsQuiet
  /\ prov = "stopped" =>
       /\ inbox = <<>> /\ phase = "none" /\ ~heard
       /\ rx \notin {"drain", "hangup"}

\* A step of a stopped session - a reconnection that comes too late, a lost
\* socket - starts nothing.
LEMMA QuietStep == QuietInv /\ [Next]_vars => QuietInv'
<1> SUFFICES ASSUME QuietInv, [Next]_vars PROVE QuietInv'
  OBVIOUS
<1>1. CASE CallerSpeaks
  BY <1>1 DEF CallerSpeaks, speech, markers, loop, tasks, engine, Open,
  QuietInv, StoppedIsQuiet
<1>2. CASE CallerLeaves
  BY <1>2 DEF CallerLeaves, service, markers, speech, loop, tasks,
  response, Open, QuietInv, StoppedIsQuiet
<1>3. CASE Answer
  BY <1>3 DEF Answer, Create, markers, speech, loop, tasks, engine, Open,
  QuietInv, StoppedIsQuiet
<1>4. CASE Generate
  BY <1>4 DEF Generate, Speak, Spoken, Complete, markers, speech, loop,
  tasks, engine, Ends, Open, QuietInv, StoppedIsQuiet
<1>5. CASE UseTool
  BY <1>5 DEF UseTool, CallTool, markers, speech, loop, tasks, engine,
  Ends, Open, QuietInv, StoppedIsQuiet
<1>6. CASE Stall
  BY <1>6 DEF Stall, markers, speech, loop, tasks, engine, Open, QuietInv,
  StoppedIsQuiet
<1>7. CASE Drop
  BY <1>7 DEF Drop, Forget, markers, speech, loop, engine, Open, QuietInv,
  StoppedIsQuiet
<1>8. CASE DisableVad
  BY <1>8 DEF DisableVad, response, markers, speech, loop, tasks, engine,
  Open, QuietInv, StoppedIsQuiet
<1>9. CASE SendGreeting
  BY <1>9 DEF SendGreeting, Request, markers, speech, loop, engine,
  CanCreate, Create, response, Open, QuietInv, StoppedIsQuiet
<1>10. CASE FirstRequest
  BY <1>10 DEF FirstRequest, Request, markers, speech, loop, tasks,
  engine, CanCreate, Create, response, Open, QuietInv, StoppedIsQuiet
<1>11. CASE FallbackFires
  BY <1>11 DEF FallbackFires, ReEnableVad, response, speech, loop, engine,
  Open, QuietInv, StoppedIsQuiet
<1>12. CASE Created
  BY <1>12 DEF Created, Next1, Take, IsFarewell, rest, loop, engine, Open,
  QuietInv, StoppedIsQuiet
<1>13. CASE Audio
  BY <1>13 DEF Audio, Next1, Take, rest, loop, tasks, engine, Open,
  QuietInv, StoppedIsQuiet
<1>14. CASE AudioEnds
  BY <1>14 DEF AudioEnds, Next1, Take, AudioDone, rest, engine, Wait,
  FarewellDone, finish, Finish, AfterDone, Reschedule, ReEnableVad, Open,
  QuietInv, StoppedIsQuiet
<1>15. CASE Done
  BY <1>15 DEF Done, Next1, Take, DoneEndsAudio, rest, engine, AudioDone,
  Wait, FarewellDone, finish, Finish, AfterDone, Reschedule, ReEnableVad,
  Open, QuietInv, StoppedIsQuiet
<1>16. CASE ToolCall
  BY <1>16 DEF ToolCall, Next1, Take, rest, markers, speech, loop, engine,
  Open, QuietInv, StoppedIsQuiet
<1>17. CASE SpeechIgnored
  BY <1>17 DEF SpeechIgnored, Next1, speech, Take, rest, markers, loop,
  tasks, engine, Open, QuietInv, StoppedIsQuiet
<1>18. CASE SpeechInterrupts
  BY <1>18 DEF SpeechInterrupts, Next1, speech, Take, AudioDone, loop,
  finish, engine, Wait, FarewellDone, Finish, AfterDone, Reschedule,
  ReEnableVad, Open, QuietInv, StoppedIsQuiet
<1>19. CASE ConnectionClosed
  BY <1>19 DEF ConnectionClosed, AudioDone, rest, engine, Wait,
  FarewellDone, finish, Finish, AfterDone, Reschedule, ReEnableVad, Open,
  QuietInv, StoppedIsQuiet
<1>20. CASE Drained
  BY <1>20 DEF Drained, HangUp, FarewellDone, response, Wait, Finish,
  finish, AfterDone, Reschedule, ReEnableVad, Open, QuietInv,
  StoppedIsQuiet
<1>21. CASE HungUp
  BY <1>21 DEF HungUp, HangUp, Finish, response, speech, finish,
  AfterDone, Reschedule, ReEnableVad, Open, QuietInv, StoppedIsQuiet
<1>22. CASE HangupTool
  BY <1>22 DEF HangupTool, Request, speech, loop, CanCreate, Create,
  response, Open, QuietInv, StoppedIsQuiet
<1>23. CASE OtherTool
  BY <1>23 DEF OtherTool, Request, markers, speech, loop, engine,
  CanCreate, Create, response, Open, QuietInv, StoppedIsQuiet
<1>24. CASE StaleTool
  BY <1>24 DEF StaleTool, service, markers, speech, loop, engine,
  response, Open, QuietInv, StoppedIsQuiet
<1>25. CASE TimerFires
  BY <1>25 DEF TimerFires, TimerDue, service, markers, speech, loop,
  engine, response, Open, QuietInv, StoppedIsQuiet
<1>26. CASE TimerHangsUp
  BY <1>26 DEF TimerHangsUp, HangUp, service, markers, speech, loop,
  response, Open, QuietInv, StoppedIsQuiet
<1>27. CASE Reconnect
  BY <1>27 DEF Reconnect, Open, response, markers, engine, QuietInv,
  StoppedIsQuiet
<1>28. CASE ReconnectTooLate
  BY <1>28 DEF ReconnectTooLate, response, markers, speech, engine, Open,
  QuietInv, StoppedIsQuiet
<1>29. CASE ReconnectFails
  BY <1>29 DEF ReconnectFails, service, markers, speech, loop, engine,
  response, Open, QuietInv, StoppedIsQuiet
<1>30. CASE StopBegins
  BY <1>30 DEF StopBegins, Open, speech, loop, service, markers, tasks,
  engine, response, QuietInv, StoppedIsQuiet
<1>31. CASE StopEnds
  BY <1>31 DEF StopEnds, StopTasks, Forget, markers, loop, engine, Open,
  QuietInv, StoppedIsQuiet
<1>32. CASE UNCHANGED vars
  BY <1>32 DEF vars, QuietInv, StoppedIsQuiet, Open, service,
    response, markers, speech, loop,
    tasks, engine
<1> QED
  BY <1>1, <1>2, <1>3, <1>4, <1>5, <1>6, <1>7, <1>8, <1>9, <1>10, <1>11,
  <1>12, <1>13, <1>14, <1>15, <1>16, <1>17, <1>18, <1>19, <1>20, <1>21,
  <1>22, <1>23, <1>24, <1>25, <1>26, <1>27, <1>28, <1>29, <1>30, <1>31,
  <1>32 DEF Next, Start, Receive, RunTool, Timer, Reconnection, Cleanup

\* A stopped session has no timeout, no fallback and no tool call under way,
\* and does not hold the caller's audio back.
THEOREM StoppedSessionQuiet == Spec => []StoppedIsQuiet
<1>1. Init => QuietInv
  BY DEF Init, QuietInv, StoppedIsQuiet
<1>2. QuietInv => StoppedIsQuiet
  BY DEF QuietInv
<1> QED
  BY <1>1, <1>2, QuietStep, PTL DEF Spec

----------------------------------------------------------------------------
(* Types.                                                                  *)

\* The events the service sends.
LEMMA EventTypes ==
  /\ \A k \in EventKinds \ {"speech"} : \A r \in Responses : Ev(k, r) \in
       Event
  /\ Ev("speech", None) \in Event
BY DEF Ev, Event, EventKinds

\* What is put on the way are events.
LEMMA Queues ==
  ASSUME NEW q \in Seq(Event), NEW e \in Event, NEW f \in Event
  PROVE  /\ Append(q, e) \in Seq(Event)
         /\ q \o <<e, f>> \in Seq(Event)
         /\ q \o <<>> \o <<e>> \in Seq(Event)
         /\ q \o <<e>> \o <<f>> \in Seq(Event)
OBVIOUS

\* What is taken is an event, and leaves events.
LEMMA Heads ==
  ASSUME NEW q \in Seq(Event), q # <<>>
  PROVE  Head(q) \in Event /\ Tail(q) \in Seq(Event)
OBVIOUS

\* What a request to the service touches.
ResponseTypes ==
  /\ active \in Responses \cup {None} /\ made \in Responses \cup {None}
  /\ phase \in {"none", "created", "speaking", "spoken", "stuck"}
  /\ phase = "none" <=> active = None
  /\ inbox \in Seq(Event)

\* A response is numbered one above the last.
LEMMA CreateTypes ==
  ASSUME ResponseTypes, NEW calls \in BOOLEAN, Create(calls)
  PROVE  ResponseTypes' /\ mayCall' \in BOOLEAN
<1>1. made + 1 \in Responses
  BY DEF ResponseTypes, Responses, None
<1>2. inbox' \in Seq(Event)
  BY <1>1, EventTypes, Queues DEF Create, ResponseTypes, EventKinds
<1> QED
  BY <1>1, <1>2 DEF Create, ResponseTypes, Responses, None

\* A request creates a response or changes nothing.
LEMMA RequestTypes ==
  ASSUME ResponseTypes, mayCall \in BOOLEAN, NEW calls \in BOOLEAN,
  Request(calls)
  PROVE  ResponseTypes' /\ mayCall' \in BOOLEAN
<1>1. CASE Create(calls)
  BY <1>1, CreateTypes
<1>2. CASE UNCHANGED response
  BY <1>2 DEF response, ResponseTypes
<1> QED
  BY <1>1, <1>2 DEF Request

\* Every step keeps the types of the service.
LEMMA ServiceStep == TypeOK /\ [Next]_vars => ServiceTypes'
<1> SUFFICES ASSUME TypeOK, [Next]_vars
             PROVE  ServiceTypes'
  OBVIOUS
<1>1. CASE CallerSpeaks
  BY <1>1, RealtimeAssumption DEF CallerSpeaks, speech, markers, loop,
  tasks, engine, TypeOK, ServiceTypes, Responses, None
<1>2. CASE Answer
  <2> USE DEF TypeOK, ServiceTypes
  <2>1. Create(TRUE) /\ heard' = FALSE /\ UNCHANGED <<api, link, vad, turns,
        drops>>
    BY <1>2 DEF Answer
  <2>2. ResponseTypes
    BY DEF ResponseTypes
  <2>3. ResponseTypes' /\ mayCall' \in BOOLEAN
    BY <2>1, <2>2, CreateTypes
  <2> QED
    BY <2>1, <2>3 DEF ResponseTypes
<1>3. CASE Generate
  BY <1>3, RealtimeAssumption DEF Generate, Speak, Spoken, Complete,
  markers, speech, loop, tasks, engine, Ends, TypeOK, ServiceTypes,
  Responses, None
<1>4. CASE UseTool
  BY <1>4, RealtimeAssumption DEF UseTool, CallTool, markers, speech, loop,
  tasks, engine, Ends, TypeOK, ServiceTypes, Responses, None
<1>5. CASE Stall
  BY <1>5, RealtimeAssumption DEF Stall, markers, speech, loop, tasks,
  engine, TypeOK, ServiceTypes, Responses, None
<1>6. CASE Drop
  <2>1. active' = None /\ phase' = "none" /\ made' = made /\ drops <
        MaxDrops /\ drops' = drops + 1 /\ link' = "lost" /\ UNCHANGED <<api,
        turns>>
    BY <1>6 DEF Drop, Forget
  <2>2. mayCall' \in BOOLEAN /\ heard' \in BOOLEAN /\ vad' \in BOOLEAN
    BY <1>6 DEF Drop, Forget
  <2> QED
    BY <2>1, <2>2, RealtimeAssumption DEF TypeOK, ServiceTypes
<1>7. CASE DisableVad
  BY <1>7, RealtimeAssumption DEF DisableVad, response, markers, speech,
  loop, tasks, engine, TypeOK, ServiceTypes, Responses, None
<1>8. CASE SendGreeting
  <2> USE DEF TypeOK, ServiceTypes
  <2>1. Request(TRUE) /\ UNCHANGED <<api, link, heard, turns, drops>>
    BY <1>8 DEF SendGreeting
  <2>2. ResponseTypes /\ mayCall \in BOOLEAN
    BY DEF ResponseTypes
  <2>3. ResponseTypes' /\ mayCall' \in BOOLEAN
    BY <2>1, <2>2, RequestTypes
  <2>4. vad' = vad
    BY <1>8 DEF SendGreeting
  <2> QED
    BY <2>1, <2>3, <2>4 DEF ResponseTypes
<1>9. CASE FirstRequest
  <2> USE DEF TypeOK, ServiceTypes
  <2>1. Request(TRUE) /\ UNCHANGED <<api, link, heard, turns, drops>>
    BY <1>9 DEF FirstRequest
  <2>2. ResponseTypes /\ mayCall \in BOOLEAN
    BY DEF ResponseTypes
  <2>3. ResponseTypes' /\ mayCall' \in BOOLEAN
    BY <2>1, <2>2, RequestTypes
  <2>4. vad' = vad
    BY <1>9 DEF FirstRequest
  <2> QED
    BY <2>1, <2>3, <2>4 DEF ResponseTypes
<1>10. CASE FallbackFires
  BY <1>10, RealtimeAssumption DEF FallbackFires, ReEnableVad, response,
  speech, loop, engine, TypeOK, ServiceTypes, Responses, None
<1>11. CASE AudioEnds
  BY <1>11, RealtimeAssumption DEF AudioEnds, Next1, Take, AudioDone, rest,
  engine, Wait, FarewellDone, finish, Finish, AfterDone, Reschedule,
  ReEnableVad, TypeOK, ServiceTypes, Responses, None
<1>12. CASE Done
  BY <1>12, RealtimeAssumption DEF Done, Next1, Take, DoneEndsAudio, rest,
  engine, AudioDone, Wait, FarewellDone, finish, Finish, AfterDone,
  Reschedule, ReEnableVad, TypeOK, ServiceTypes, Responses, None
<1>13. CASE SpeechInterrupts
  BY <1>13, RealtimeAssumption DEF SpeechInterrupts, Next1, speech, Take,
  AudioDone, loop, finish, engine, Wait, FarewellDone, Finish, AfterDone,
  Reschedule, ReEnableVad, TypeOK, ServiceTypes, Responses, None
<1>14. CASE ConnectionClosed
  BY <1>14, RealtimeAssumption DEF ConnectionClosed, AudioDone, rest,
  engine, Wait, FarewellDone, finish, Finish, AfterDone, Reschedule,
  ReEnableVad, TypeOK, ServiceTypes, Responses, None
<1>15. CASE Drained
  <2>1. vad' \in {vad, TRUE}
    BY <1>15 DEF Drained, FarewellDone, Wait, Finish, finish, AfterDone,
    ReEnableVad, TypeOK, TaskTypes
  <2> QED
    BY <1>15, <2>1 DEF Drained, response, TypeOK, ServiceTypes
<1>16. CASE HungUp
  <2>1. vad' \in {vad, TRUE}
    BY <1>16 DEF HungUp, Finish, finish, AfterDone, ReEnableVad, TypeOK,
    TaskTypes
  <2> QED
    BY <1>16, <2>1 DEF HungUp, response, TypeOK, ServiceTypes
<1>17. CASE HangupTool
  <2> USE DEF TypeOK, ServiceTypes
  <2>1. Request(FALSE) /\ UNCHANGED <<api, link, heard, turns, drops>>
    BY <1>17 DEF HangupTool
  <2>2. ResponseTypes /\ mayCall \in BOOLEAN
    BY DEF ResponseTypes
  <2>3. ResponseTypes' /\ mayCall' \in BOOLEAN
    BY <2>1, <2>2, RequestTypes
  <2>4. vad' = vad
    BY <1>17 DEF HangupTool
  <2> QED
    BY <2>1, <2>3, <2>4 DEF ResponseTypes
<1>18. CASE OtherTool
  <2> USE DEF TypeOK, ServiceTypes
  <2>1. Request(FALSE) /\ UNCHANGED <<api, link, heard, turns, drops>>
    BY <1>18 DEF OtherTool
  <2>2. ResponseTypes /\ mayCall \in BOOLEAN
    BY DEF ResponseTypes
  <2>3. ResponseTypes' /\ mayCall' \in BOOLEAN
    BY <2>1, <2>2, RequestTypes
  <2>4. vad' = vad
    BY <1>18 DEF OtherTool
  <2> QED
    BY <2>1, <2>3, <2>4 DEF ResponseTypes
<1>19. CASE Reconnect
  BY <1>19, RealtimeAssumption DEF Reconnect, response, markers, engine,
  TypeOK, ServiceTypes, Responses, None
<1>20. CASE ReconnectTooLate
  BY <1>20, RealtimeAssumption DEF ReconnectTooLate, response, markers,
  speech, engine, TypeOK, ServiceTypes, Responses, None
<1>21. CASE StopEnds
  <2>1. active' = None /\ phase' = "none" /\ made' = None /\ turns' = 0 /\
        link' \in {link, "closed"} /\ UNCHANGED <<api, drops>>
    BY <1>21 DEF StopEnds, Forget, None
  <2>2. mayCall' \in BOOLEAN /\ heard' \in BOOLEAN /\ vad' \in BOOLEAN
    BY <1>21 DEF StopEnds, Forget
  <2> QED
    BY <2>1, <2>2, RealtimeAssumption DEF TypeOK, ServiceTypes
<1>22. CASE CallerLeaves \/ Created \/ Audio \/ ToolCall \/ SpeechIgnored
             \/ StaleTool \/ TimerFires \/ TimerHangsUp \/ ReconnectFails \/
             StopBegins \/ UNCHANGED vars
  <2>1. UNCHANGED <<api, link, vad, active, phase, mayCall, made, heard,
                  turns, drops>>
    BY <1>22 DEF CallerLeaves, service, markers, speech, loop, tasks,
    response, Created, Next1, Take, IsFarewell, rest, engine, Audio,
    ToolCall, SpeechIgnored, StaleTool, TimerFires, TimerDue, TimerHangsUp,
    HangUp, ReconnectFails, StopBegins, vars
  <2> QED
    BY <2>1 DEF TypeOK, ServiceTypes
<1> QED
  BY <1>1, <1>2, <1>3, <1>4, <1>5, <1>6, <1>7, <1>8, <1>9, <1>10, <1>11,
  <1>12, <1>13, <1>14, <1>15, <1>16, <1>17, <1>18, <1>19, <1>20, <1>21,
  <1>22 DEF Next, Start, Receive, RunTool, Timer, Reconnection, Cleanup

\* Only events are on their way.
LEMMA InboxStep == TypeOK /\ [Next]_vars => inbox' \in Seq(Event)
<1> SUFFICES ASSUME TypeOK, [Next]_vars
             PROVE  inbox' \in Seq(Event)
  OBVIOUS
<1>1. CASE CallerSpeaks
  BY <1>1, EventTypes, Queues, Heads DEF CallerSpeaks, speech, markers,
  loop, tasks, engine, TypeOK, ServiceTypes, EventKinds
<1>2. CASE Answer
  <2>1. ResponseTypes
    BY DEF TypeOK, ServiceTypes, ResponseTypes
  <2>2. Create(TRUE)
    BY <1>2 DEF Answer
  <2> QED
    BY <2>1, <2>2, CreateTypes DEF ResponseTypes
<1>3. CASE Generate
  BY <1>3, EventTypes, Queues, Heads DEF Generate, Speak, Spoken, Complete,
  markers, speech, loop, tasks, engine, Ends, TypeOK, ServiceTypes,
  EventKinds
<1>4. CASE UseTool
  <2>1. PICK k \in {"call_hangup", "call_other"} : CallTool(k)
    BY <1>4 DEF UseTool
  <2>2. Ev(k, active) \in Event /\ Ev("done", active) \in Event
    BY <2>1, EventTypes DEF CallTool, TypeOK, ServiceTypes, EventKinds
  <2> QED
    BY <2>1, <2>2, Queues DEF CallTool, Ends, TypeOK
<1>5. CASE Drop
  <2>1. <<>> \in Seq(Event)
    OBVIOUS
  <2> QED
    BY <1>5, <2>1 DEF Drop, TypeOK
<1>6. CASE SendGreeting
  <2>1. ResponseTypes /\ mayCall \in BOOLEAN
    BY DEF TypeOK, ServiceTypes, ResponseTypes
  <2>2. Request(TRUE)
    BY <1>6 DEF SendGreeting
  <2> QED
    BY <2>1, <2>2, RequestTypes DEF ResponseTypes
<1>7. CASE FirstRequest
  <2>1. ResponseTypes /\ mayCall \in BOOLEAN
    BY DEF TypeOK, ServiceTypes, ResponseTypes
  <2>2. Request(TRUE)
    BY <1>7 DEF FirstRequest
  <2> QED
    BY <2>1, <2>2, RequestTypes DEF ResponseTypes
<1>8. CASE Created
  BY <1>8, EventTypes, Queues, Heads DEF Created, Next1, Take, IsFarewell,
  rest, loop, engine, TypeOK, ServiceTypes, EventKinds
<1>9. CASE Audio
  BY <1>9, EventTypes, Queues, Heads DEF Audio, Next1, Take, rest, loop,
  tasks, engine, TypeOK, ServiceTypes, EventKinds
<1>10. CASE AudioEnds
  BY <1>10, EventTypes, Queues, Heads DEF AudioEnds, Next1, Take, AudioDone,
  rest, engine, Wait, FarewellDone, finish, Finish, AfterDone, Reschedule,
  ReEnableVad, TypeOK, ServiceTypes, EventKinds
<1>11. CASE Done
  BY <1>11, EventTypes, Queues, Heads DEF Done, Next1, Take, DoneEndsAudio,
  rest, engine, AudioDone, Wait, FarewellDone, finish, Finish, AfterDone,
  Reschedule, ReEnableVad, TypeOK, ServiceTypes, EventKinds
<1>12. CASE ToolCall
  BY <1>12, EventTypes, Queues, Heads DEF ToolCall, Next1, Take, rest,
  markers, speech, loop, engine, TypeOK, ServiceTypes, EventKinds
<1>13. CASE SpeechIgnored
  BY <1>13, EventTypes, Queues, Heads DEF SpeechIgnored, Next1, speech,
  Take, rest, markers, loop, tasks, engine, TypeOK, ServiceTypes, EventKinds
<1>14. CASE SpeechInterrupts
  BY <1>14, EventTypes, Queues, Heads DEF SpeechInterrupts, Next1, speech,
  Take, AudioDone, loop, finish, engine, Wait, FarewellDone, Finish,
  AfterDone, Reschedule, ReEnableVad, TypeOK, ServiceTypes, EventKinds
<1>15. CASE HangupTool
  <2>1. ResponseTypes /\ mayCall \in BOOLEAN
    BY DEF TypeOK, ServiceTypes, ResponseTypes
  <2>2. Request(FALSE)
    BY <1>15 DEF HangupTool
  <2> QED
    BY <2>1, <2>2, RequestTypes DEF ResponseTypes
<1>16. CASE OtherTool
  <2>1. ResponseTypes /\ mayCall \in BOOLEAN
    BY DEF TypeOK, ServiceTypes, ResponseTypes
  <2>2. Request(FALSE)
    BY <1>16 DEF OtherTool
  <2> QED
    BY <2>1, <2>2, RequestTypes DEF ResponseTypes
<1>17. CASE StopEnds
  BY <1>17, EventTypes, Queues, Heads DEF StopEnds, StopTasks, Forget,
  markers, loop, engine, TypeOK, ServiceTypes, EventKinds
<1>18. CASE CallerLeaves \/ Stall \/ DisableVad \/ FallbackFires \/
             ConnectionClosed \/ Drained \/ HungUp \/ StaleTool \/
             TimerFires \/ TimerHangsUp \/ Reconnect \/ ReconnectTooLate \/
             ReconnectFails \/ StopBegins \/ UNCHANGED vars
  <2>1. UNCHANGED <<inbox>>
    BY <1>18 DEF CallerLeaves, service, markers, speech, loop, tasks,
    response, Stall, engine, DisableVad, FallbackFires, ReEnableVad,
    ConnectionClosed, AudioDone, rest, Wait, FarewellDone, finish, Finish,
    AfterDone, Reschedule, Drained, HangUp, HungUp, StaleTool, TimerFires,
    TimerDue, TimerHangsUp, Reconnect, ReconnectTooLate, ReconnectFails,
    StopBegins, vars
  <2> QED
    BY <2>1 DEF TypeOK
<1> QED
  BY <1>1, <1>2, <1>3, <1>4, <1>5, <1>6, <1>7, <1>8, <1>9, <1>10, <1>11,
  <1>12, <1>13, <1>14, <1>15, <1>16, <1>17, <1>18 DEF Next, Start, Receive,
  RunTool, Timer, Reconnection, Cleanup

\* Every step keeps the types of the provider; a farewell is awaited exactly
\* while its response is known, and only after the hangup tool.
LEMMA ProviderStep == TypeOK /\ [Next]_vars => ProviderTypes'
<1> SUFFICES ASSUME TypeOK, [Next]_vars
             PROVE  ProviderTypes'
  OBVIOUS
<1>1. CASE FallbackFires
  BY <1>1 DEF FallbackFires, ReEnableVad, response, speech, loop, engine,
  TypeOK, ProviderTypes, TaskTypes, Responses, None
<1>2. CASE Created
  <2>1. Head(inbox).of \in Responses
    BY <1>2, Heads DEF Created, Next1, TypeOK, Event
  <2> QED
    BY <1>2, <2>1 DEF Created, IsFarewell, TypeOK, ProviderTypes, rest,
    Responses, None
<1>3. CASE Audio
  BY <1>3 DEF Audio, Next1, Take, rest, loop, tasks, engine, TypeOK,
  ProviderTypes, TaskTypes, Responses, None
<1>4. CASE AudioEnds
  BY <1>4 DEF AudioEnds, Next1, Take, AudioDone, rest, engine, Wait,
  FarewellDone, finish, Finish, AfterDone, Reschedule, ReEnableVad, TypeOK,
  ProviderTypes, TaskTypes, Responses, None
<1>5. CASE Done
  BY <1>5 DEF Done, Next1, Take, DoneEndsAudio, rest, engine, AudioDone,
  Wait, FarewellDone, finish, Finish, AfterDone, Reschedule, ReEnableVad,
  TypeOK, ProviderTypes, TaskTypes, Responses, None
<1>6. CASE SpeechInterrupts
  BY <1>6 DEF SpeechInterrupts, Next1, speech, Take, AudioDone, loop,
  finish, engine, Wait, FarewellDone, Finish, AfterDone, Reschedule,
  ReEnableVad, TypeOK, ProviderTypes, TaskTypes, Responses, None
<1>7. CASE ConnectionClosed
  BY <1>7 DEF ConnectionClosed, AudioDone, rest, engine, Wait, FarewellDone,
  finish, Finish, AfterDone, Reschedule, ReEnableVad, TypeOK, ProviderTypes,
  TaskTypes, Responses, None
<1>8. CASE Drained
  BY <1>8 DEF Drained, HangUp, FarewellDone, response, Wait, Finish, finish,
  AfterDone, Reschedule, ReEnableVad, TypeOK, ProviderTypes, TaskTypes,
  Responses, None
<1>9. CASE HungUp
  BY <1>9 DEF HungUp, HangUp, Finish, response, speech, finish, AfterDone,
  Reschedule, ReEnableVad, TypeOK, ProviderTypes, TaskTypes, Responses, None
<1>10. CASE HangupTool
  BY <1>10 DEF HangupTool, Request, speech, loop, CanCreate, Create,
  response, TypeOK, ProviderTypes, TaskTypes, Responses, None
<1>11. CASE Reconnect
  BY <1>11 DEF Reconnect, response, markers, engine, TypeOK, ProviderTypes,
  TaskTypes, Responses, None
<1>12. CASE StopBegins
  BY <1>12 DEF StopBegins, speech, loop, service, markers, tasks, engine,
  response, TypeOK, ProviderTypes, TaskTypes, Responses, None
<1>13. CASE StopEnds
  BY <1>13 DEF StopEnds, StopTasks, Forget, markers, loop, engine, TypeOK,
  ProviderTypes, TaskTypes, Responses, None
<1>14. CASE CallerSpeaks \/ CallerLeaves \/ Answer \/ Generate \/ UseTool
             \/ Stall \/ Drop \/ DisableVad \/ SendGreeting \/ FirstRequest
             \/ ToolCall \/ SpeechIgnored \/ OtherTool \/ StaleTool \/
             TimerFires \/ TimerHangsUp \/ ReconnectTooLate \/
             ReconnectFails \/ UNCHANGED vars
  <2>1. UNCHANGED <<current, greeting, greeted, farewell, waiting,
                  hangupAfter, burst, started>>
    BY <1>14 DEF CallerSpeaks, speech, markers, loop, tasks, engine,
    CallerLeaves, service, response, Answer, Create, Generate, Speak,
    Spoken, Complete, Ends, UseTool, CallTool, Stall, Drop, Forget,
    DisableVad, SendGreeting, Request, CanCreate, FirstRequest, ToolCall,
    Next1, Take, rest, SpeechIgnored, OtherTool, StaleTool, TimerFires,
    TimerDue, TimerHangsUp, HangUp, ReconnectTooLate, ReconnectFails, vars
  <2> QED
    BY <2>1 DEF TypeOK, ProviderTypes
<1> QED
  BY <1>1, <1>2, <1>3, <1>4, <1>5, <1>6, <1>7, <1>8, <1>9, <1>10, <1>11,
  <1>12, <1>13, <1>14 DEF Next, Start, Receive, RunTool, Timer,
  Reconnection, Cleanup

\* Every step keeps the types of the tasks.
LEMMA TaskStep == TypeOK /\ [Next]_vars => TaskTypes'
<1> SUFFICES ASSUME TypeOK, [Next]_vars
             PROVE  TaskTypes'
  OBVIOUS
<1>1. CASE Drop
  BY <1>1 DEF Drop, Forget, markers, speech, loop, engine, TypeOK,
  TaskTypes, Open
<1>2. CASE DisableVad
  BY <1>2 DEF DisableVad, response, markers, speech, loop, tasks, engine,
  TypeOK, TaskTypes, Open
<1>3. CASE SendGreeting
  BY <1>3 DEF SendGreeting, Request, markers, speech, loop, engine,
  CanCreate, Create, response, TypeOK, TaskTypes, Open
<1>4. CASE FirstRequest
  BY <1>4 DEF FirstRequest, Request, markers, speech, loop, tasks, engine,
  CanCreate, Create, response, TypeOK, TaskTypes, Open
<1>5. CASE FallbackFires
  BY <1>5 DEF FallbackFires, ReEnableVad, response, speech, loop, engine,
  TypeOK, TaskTypes, Open
<1>6. CASE Created
  BY <1>6 DEF Created, Next1, Take, IsFarewell, rest, loop, engine, TypeOK,
  TaskTypes, Open
<1>7. CASE AudioEnds
  BY <1>7 DEF AudioEnds, Next1, Take, AudioDone, rest, engine, Wait,
  FarewellDone, finish, Finish, AfterDone, Reschedule, ReEnableVad, TypeOK,
  TaskTypes, Open
<1>8. CASE Done
  BY <1>8 DEF Done, Next1, Take, DoneEndsAudio, rest, engine, AudioDone,
  Wait, FarewellDone, finish, Finish, AfterDone, Reschedule, ReEnableVad,
  TypeOK, TaskTypes, Open
<1>9. CASE ToolCall
  BY <1>9 DEF ToolCall, Next1, Take, rest, markers, speech, loop, engine,
  TypeOK, TaskTypes, Open
<1>10. CASE SpeechInterrupts
  BY <1>10 DEF SpeechInterrupts, Next1, speech, Take, AudioDone, loop,
  finish, engine, Wait, FarewellDone, Finish, AfterDone, Reschedule,
  ReEnableVad, TypeOK, TaskTypes, Open
<1>11. CASE ConnectionClosed
  BY <1>11 DEF ConnectionClosed, AudioDone, rest, engine, Wait,
  FarewellDone, finish, Finish, AfterDone, Reschedule, ReEnableVad, TypeOK,
  TaskTypes, Open
<1>12. CASE Drained
  BY <1>12 DEF Drained, HangUp, FarewellDone, response, Wait, Finish,
  finish, AfterDone, Reschedule, ReEnableVad, TypeOK, TaskTypes, Open
<1>13. CASE HungUp
  BY <1>13 DEF HungUp, HangUp, Finish, response, speech, finish, AfterDone,
  Reschedule, ReEnableVad, TypeOK, TaskTypes, Open
<1>14. CASE HangupTool
  BY <1>14 DEF HangupTool, Request, speech, loop, CanCreate, Create,
  response, TypeOK, TaskTypes, Open
<1>15. CASE OtherTool
  BY <1>15 DEF OtherTool, Request, markers, speech, loop, engine, CanCreate,
  Create, response, TypeOK, TaskTypes, Open
<1>16. CASE StaleTool
  BY <1>16 DEF StaleTool, service, markers, speech, loop, engine, response,
  TypeOK, TaskTypes, Open
<1>17. CASE TimerFires
  BY <1>17 DEF TimerFires, TimerDue, service, markers, speech, loop, engine,
  response, TypeOK, TaskTypes, Open
<1>18. CASE TimerHangsUp
  BY <1>18 DEF TimerHangsUp, HangUp, service, markers, speech, loop,
  response, TypeOK, TaskTypes, Open
<1>19. CASE Reconnect
  BY <1>19 DEF Reconnect, response, markers, engine, TypeOK, TaskTypes, Open
<1>20. CASE ReconnectTooLate
  BY <1>20 DEF ReconnectTooLate, response, markers, speech, engine, TypeOK,
  TaskTypes, Open
<1>21. CASE ReconnectFails
  BY <1>21 DEF ReconnectFails, service, markers, speech, loop, engine,
  response, TypeOK, TaskTypes, Open
<1>22. CASE StopBegins
  BY <1>22 DEF StopBegins, speech, loop, service, markers, tasks, engine,
  response, TypeOK, TaskTypes, Open
<1>23. CASE StopEnds
  BY <1>23 DEF StopEnds, StopTasks, Forget, markers, loop, engine, TypeOK,
  TaskTypes, Open
<1>24. CASE CallerSpeaks \/ CallerLeaves \/ Answer \/ Generate \/ UseTool
             \/ Stall \/ Audio \/ SpeechIgnored \/ UNCHANGED vars
  <2>1. UNCHANGED <<prov, rx, cont, reconnect, timer, fallback, tools>>
    BY <1>24 DEF CallerSpeaks, speech, markers, loop, tasks, engine,
    CallerLeaves, service, response, Answer, Create, Generate, Speak,
    Spoken, Complete, Ends, UseTool, CallTool, Stall, Audio, Next1, Take,
    rest, SpeechIgnored, vars
  <2> QED
    BY <2>1 DEF TypeOK, TaskTypes
<1> QED
  BY <1>1, <1>2, <1>3, <1>4, <1>5, <1>6, <1>7, <1>8, <1>9, <1>10, <1>11,
  <1>12, <1>13, <1>14, <1>15, <1>16, <1>17, <1>18, <1>19, <1>20, <1>21,
  <1>22, <1>23, <1>24 DEF Next, Start, Receive, RunTool, Timer,
  Reconnection, Cleanup

\* Every step keeps the types of the engine.
LEMMA EngineStep == TypeOK /\ [Next]_vars => EngineTypes'
<1> SUFFICES ASSUME TypeOK, [Next]_vars
             PROVE  EngineTypes'
  OBVIOUS
<1>1. CASE CallerLeaves
  BY <1>1 DEF CallerLeaves, service, markers, speech, loop, tasks, response,
  TypeOK, EngineTypes, TaskTypes
<1>2. CASE Drained
  BY <1>2 DEF Drained, HangUp, FarewellDone, response, Wait, Finish, finish,
  AfterDone, Reschedule, ReEnableVad, TypeOK, EngineTypes, TaskTypes
<1>3. CASE HungUp
  BY <1>3 DEF HungUp, HangUp, Finish, response, speech, finish, AfterDone,
  Reschedule, ReEnableVad, TypeOK, EngineTypes, TaskTypes
<1>4. CASE HangupTool
  BY <1>4 DEF HangupTool, Request, speech, loop, CanCreate, Create,
  response, TypeOK, EngineTypes, TaskTypes
<1>5. CASE TimerHangsUp
  BY <1>5 DEF TimerHangsUp, HangUp, service, markers, speech, loop,
  response, TypeOK, EngineTypes, TaskTypes
<1>6. CASE CallerSpeaks \/ Answer \/ Generate \/ UseTool \/ Stall \/ Drop
             \/ DisableVad \/ SendGreeting \/ FirstRequest \/ FallbackFires
             \/ Created \/ Audio \/ AudioEnds \/ Done \/ ToolCall \/
             SpeechIgnored \/ SpeechInterrupts \/ ConnectionClosed \/
             OtherTool \/ StaleTool \/ TimerFires \/ Reconnect \/
             ReconnectTooLate \/ ReconnectFails \/ StopBegins \/ StopEnds \/
             UNCHANGED vars
  <2>1. UNCHANGED <<caller, wantsEnd, hungup, asked>>
    BY <1>6 DEF CallerSpeaks, speech, markers, loop, tasks, engine, Answer,
    Create, Generate, Speak, Spoken, Complete, Ends, UseTool, CallTool,
    Stall, Drop, Forget, DisableVad, response, SendGreeting, Request,
    CanCreate, FirstRequest, FallbackFires, ReEnableVad, Created, Next1,
    Take, IsFarewell, rest, Audio, AudioEnds, AudioDone, Wait, FarewellDone,
    finish, Finish, AfterDone, Reschedule, Done, DoneEndsAudio, ToolCall,
    SpeechIgnored, SpeechInterrupts, ConnectionClosed, OtherTool, StaleTool,
    service, TimerFires, TimerDue, Reconnect, ReconnectTooLate,
    ReconnectFails, StopBegins, StopEnds, StopTasks, vars
  <2> QED
    BY <2>1 DEF TypeOK, EngineTypes
<1> QED
  BY <1>1, <1>2, <1>3, <1>4, <1>5, <1>6 DEF Next, Start, Receive, RunTool,
  Timer, Reconnection, Cleanup

\* Every variable has its type; the farewell that is awaited is a response,
\* and was asked for by the hangup tool.
THEOREM RealtimeTypes == Spec => []TypeOK
<1>1. Init => TypeOK
  <2>1. Init => ServiceTypes
    <3>1. Init => {vad, heard, mayCall} \subseteq BOOLEAN
      BY DEF Init
    <3>2. Init => /\ api \in {"beta", "ga"} /\ link = "up" /\ phase = "none"
                  /\ active = None /\ made = None /\ turns = 0 /\ drops = 0
      BY DEF Init, None
    <3> QED
      BY <3>1, <3>2, RealtimeAssumption DEF ServiceTypes
  <2>2. Init => inbox \in Seq(Event)
    BY DEF Init
  <2>3. Init => ProviderTypes /\ TaskTypes /\ EngineTypes
    BY DEF Init, ProviderTypes, TaskTypes, EngineTypes, None
  <2> QED
    BY <2>1, <2>2, <2>3 DEF TypeOK
<1>2. TypeOK /\ [Next]_vars => TypeOK'
  BY ServiceStep, InboxStep, ProviderStep, TaskStep, EngineStep DEF TypeOK
<1> QED
  BY <1>1, <1>2, PTL DEF Spec

----------------------------------------------------------------------------
(* The caller is heard again.                                             *)

\* A connection that is not up carries no response and no turn; a loop that
\* has ended, or is about to, of a session that goes on has handled every
\* event of a lost connection; agent audio comes in only while the loop is at
\* work.
LoopInv ==
  /\ link # "up" => active = None /\ ~heard
  /\ reconnect = "connect" /\ Open => rx = "off"
  /\ Open /\ (rx = "off" \/ cont = "close") => inbox = <<>> /\ link = "lost"
  /\ burst => rx \in {"idle", "drain"}

\* Every step keeps LoopInv: a reconnection starts from an empty queue.
LEMMA LoopStep == TypeOK /\ QuietInv /\ LoopInv /\ [Next]_vars => LoopInv'
<1> SUFFICES ASSUME TypeOK, QuietInv, LoopInv, [Next]_vars
             PROVE  LoopInv'
  OBVIOUS
<1>1. CASE CallerSpeaks
  BY <1>1 DEF CallerSpeaks, speech, markers, loop, tasks, engine, TypeOK,
  ServiceTypes, TaskTypes, Open, QuietInv, StoppedIsQuiet, LoopInv
<1>2. CASE Answer
  BY <1>2 DEF Answer, Create, markers, speech, loop, tasks, engine, TypeOK,
  ServiceTypes, TaskTypes, Open, QuietInv, StoppedIsQuiet, LoopInv
<1>3. CASE Generate
  BY <1>3 DEF Generate, Speak, Spoken, Complete, markers, speech, loop,
  tasks, engine, Ends, TypeOK, ServiceTypes, TaskTypes, Open, QuietInv,
  StoppedIsQuiet, LoopInv
<1>4. CASE UseTool
  BY <1>4 DEF UseTool, CallTool, markers, speech, loop, tasks, engine, Ends,
  TypeOK, ServiceTypes, TaskTypes, Open, QuietInv, StoppedIsQuiet, LoopInv
<1>5. CASE Drop
  BY <1>5 DEF Drop, Forget, markers, speech, loop, engine, TypeOK,
  ServiceTypes, TaskTypes, Open, QuietInv, StoppedIsQuiet, LoopInv
<1>6. CASE DisableVad
  BY <1>6 DEF DisableVad, response, markers, speech, loop, tasks, engine,
  TypeOK, ServiceTypes, TaskTypes, Open, QuietInv, StoppedIsQuiet, LoopInv
<1>7. CASE SendGreeting
  BY <1>7 DEF SendGreeting, Request, markers, speech, loop, engine,
  CanCreate, Create, response, TypeOK, ServiceTypes, TaskTypes, Open,
  QuietInv, StoppedIsQuiet, LoopInv
<1>8. CASE FirstRequest
  BY <1>8 DEF FirstRequest, Request, markers, speech, loop, tasks, engine,
  CanCreate, Create, response, TypeOK, ServiceTypes, TaskTypes, Open,
  QuietInv, StoppedIsQuiet, LoopInv
<1>9. CASE Created
  BY <1>9 DEF Created, Next1, Take, IsFarewell, rest, loop, engine, TypeOK,
  ServiceTypes, TaskTypes, Open, QuietInv, StoppedIsQuiet, LoopInv
<1>10. CASE Audio
  BY <1>10 DEF Audio, Next1, Take, rest, loop, tasks, engine, TypeOK,
  ServiceTypes, TaskTypes, Open, QuietInv, StoppedIsQuiet, LoopInv
<1>11. CASE AudioEnds
  BY <1>11 DEF AudioEnds, Next1, Take, AudioDone, rest, engine, Wait,
  FarewellDone, finish, Finish, AfterDone, Reschedule, ReEnableVad, TypeOK,
  ServiceTypes, TaskTypes, Open, QuietInv, StoppedIsQuiet, LoopInv
<1>12. CASE Done
  BY <1>12 DEF Done, Next1, Take, DoneEndsAudio, rest, engine, AudioDone,
  Wait, FarewellDone, finish, Finish, AfterDone, Reschedule, ReEnableVad,
  TypeOK, ServiceTypes, TaskTypes, Open, QuietInv, StoppedIsQuiet, LoopInv
<1>13. CASE ToolCall
  BY <1>13 DEF ToolCall, Next1, Take, rest, markers, speech, loop, engine,
  TypeOK, ServiceTypes, TaskTypes, Open, QuietInv, StoppedIsQuiet, LoopInv
<1>14. CASE SpeechIgnored
  BY <1>14 DEF SpeechIgnored, Next1, speech, Take, rest, markers, loop,
  tasks, engine, TypeOK, ServiceTypes, TaskTypes, Open, QuietInv,
  StoppedIsQuiet, LoopInv
<1>15. CASE SpeechInterrupts
  BY <1>15 DEF SpeechInterrupts, Next1, speech, Take, AudioDone, loop,
  finish, engine, Wait, FarewellDone, Finish, AfterDone, Reschedule,
  ReEnableVad, TypeOK, ServiceTypes, TaskTypes, Open, QuietInv,
  StoppedIsQuiet, LoopInv
<1>16. CASE ConnectionClosed
  BY <1>16 DEF ConnectionClosed, AudioDone, rest, engine, Wait,
  FarewellDone, finish, Finish, AfterDone, Reschedule, ReEnableVad, TypeOK,
  ServiceTypes, TaskTypes, Open, QuietInv, StoppedIsQuiet, LoopInv
<1>17. CASE Drained
  BY <1>17 DEF Drained, HangUp, FarewellDone, response, Wait, Finish,
  finish, AfterDone, Reschedule, ReEnableVad, TypeOK, ServiceTypes,
  TaskTypes, Open, QuietInv, StoppedIsQuiet, LoopInv
<1>18. CASE HungUp
  BY <1>18 DEF HungUp, HangUp, Finish, response, speech, finish, AfterDone,
  Reschedule, ReEnableVad, TypeOK, ServiceTypes, TaskTypes, Open, QuietInv,
  StoppedIsQuiet, LoopInv
<1>19. CASE HangupTool
  BY <1>19 DEF HangupTool, Request, speech, loop, CanCreate, Create,
  response, TypeOK, ServiceTypes, TaskTypes, Open, QuietInv, StoppedIsQuiet,
  LoopInv
<1>20. CASE OtherTool
  BY <1>20 DEF OtherTool, Request, markers, speech, loop, engine, CanCreate,
  Create, response, TypeOK, ServiceTypes, TaskTypes, Open, QuietInv,
  StoppedIsQuiet, LoopInv
<1>21. CASE Reconnect
  BY <1>21 DEF Reconnect, response, markers, engine, TypeOK, ServiceTypes,
  TaskTypes, Open, QuietInv, StoppedIsQuiet, LoopInv
<1>22. CASE ReconnectTooLate
  BY <1>22 DEF ReconnectTooLate, response, markers, speech, engine, TypeOK,
  ServiceTypes, TaskTypes, Open, QuietInv, StoppedIsQuiet, LoopInv
<1>23. CASE ReconnectFails
  BY <1>23 DEF ReconnectFails, service, markers, speech, loop, engine,
  response, TypeOK, ServiceTypes, TaskTypes, Open, QuietInv, StoppedIsQuiet,
  LoopInv
<1>24. CASE StopBegins
  BY <1>24 DEF StopBegins, speech, loop, service, markers, tasks, engine,
  response, TypeOK, ServiceTypes, TaskTypes, Open, QuietInv, StoppedIsQuiet,
  LoopInv
<1>25. CASE StopEnds
  BY <1>25 DEF StopEnds, StopTasks, Forget, markers, loop, engine, TypeOK,
  ServiceTypes, TaskTypes, Open, QuietInv, StoppedIsQuiet, LoopInv
<1>26. CASE CallerLeaves \/ Stall \/ FallbackFires \/ StaleTool \/
             TimerFires \/ TimerHangsUp \/ UNCHANGED vars
  <2>1. UNCHANGED <<link, active, heard, reconnect, prov, rx, inbox,
                  cont, burst>>
    BY <1>26 DEF CallerLeaves, service, markers, speech, loop, tasks,
    response, Stall, engine, FallbackFires, ReEnableVad, StaleTool,
    TimerFires, TimerDue, TimerHangsUp, HangUp, vars
  <2> QED
    BY <2>1 DEF LoopInv, Open
<1> QED
  BY <1>1, <1>2, <1>3, <1>4, <1>5, <1>6, <1>7, <1>8, <1>9, <1>10, <1>11,
  <1>12, <1>13, <1>14, <1>15, <1>16, <1>17, <1>18, <1>19, <1>20, <1>21,
  <1>22, <1>23, <1>24, <1>25, <1>26 DEF Next, Start, Receive, RunTool,
  Timer, Reconnection, Cleanup

\* On the way, the end of the response follows its audio.
AudioEnded(q) ==
  \A i \in 1..Len(q) : q[i].kind = "audio" =>
    \E j \in (i + 1)..Len(q) : q[j].kind = "done"

\* The end of a response is on its way.
EndAhead(q) == \E j \in 1..Len(q) : q[j].kind = "done"

\* While no response is generated, audio that has come in, or is on its way,
\* has the end of its response behind it.
BurstInv ==
  link = "up" /\ active = None =>
    /\ AudioEnded(inbox)
    /\ burst /\ rx = "idle" => EndAhead(inbox)

\* An event is taken: what is left has its ends, also that of audio just
\* taken.
LEMMA EndTail ==
  ASSUME NEW q \in Seq(Event), q # <<>>, AudioEnded(q)
  PROVE  /\ AudioEnded(Tail(q))
         /\ Head(q).kind = "audio" => EndAhead(Tail(q))
<1>1. AudioEnded(Tail(q))
  <2> SUFFICES ASSUME NEW i \in 1..Len(Tail(q)), Tail(q)[i].kind = "audio"
               PROVE  \E j \in (i + 1)..Len(Tail(q)) : Tail(q)[j].kind =
               "done"
    BY DEF AudioEnded
  <2>1. i + 1 \in 1..Len(q) /\ q[i + 1].kind = "audio"
    OBVIOUS
  <2>2. PICK j \in (i + 2)..Len(q) : q[j].kind = "done"
    BY <2>1 DEF AudioEnded
  <2>3. j - 1 \in (i + 1)..Len(Tail(q)) /\ Tail(q)[j - 1] = q[j]
    BY <2>2
  <2> QED
    BY <2>2, <2>3
<1>2. ASSUME Head(q).kind = "audio" PROVE EndAhead(Tail(q))
  <2>1. PICK j \in 2..Len(q) : q[j].kind = "done"
    BY <1>2 DEF AudioEnded
  <2>2. j - 1 \in 1..Len(Tail(q)) /\ Tail(q)[j - 1] = q[j]
    BY <2>1
  <2> QED
    BY <2>1, <2>2 DEF EndAhead
<1> QED
  BY <1>1, <1>2

\* The end stays on its way until it is the one that is taken.
LEMMA AheadTail ==
  ASSUME NEW q \in Seq(Event), q # <<>>, EndAhead(q), Head(q).kind # "done"
  PROVE  EndAhead(Tail(q))
<1>1. PICK j \in 1..Len(q) : q[j].kind = "done"
  BY DEF EndAhead
<1>2. j - 1 \in 1..Len(Tail(q)) /\ Tail(q)[j - 1] = q[j]
  BY <1>1
<1> QED
  BY <1>1, <1>2 DEF EndAhead

\* Any event but audio may follow.
LEMMA EndAppend ==
  ASSUME NEW q \in Seq(Event), NEW e \in Event, e.kind # "audio",
  AudioEnded(q)
  PROVE  /\ AudioEnded(Append(q, e))
         /\ EndAhead(q) => EndAhead(Append(q, e))
BY DEF AudioEnded, EndAhead

\* A response that ends puts its end behind everything.
LEMMA DoneAppend ==
  ASSUME NEW q \in Seq(Event), NEW e \in Event, e.kind = "done"
  PROVE  AudioEnded(Append(q, e)) /\ EndAhead(Append(q, e))
<1>1. Len(Append(q, e)) = Len(q) + 1 /\ Append(q, e)[Len(q) + 1] = e
  OBVIOUS
<1>2. EndAhead(Append(q, e))
  BY <1>1 DEF EndAhead
<1>3. AudioEnded(Append(q, e))
  BY <1>1 DEF AudioEnded
<1> QED
  BY <1>2, <1>3

\* The ways the service sends two events.
LEMMA Appends ==
  ASSUME NEW q \in Seq(Event), NEW e \in Event, NEW f \in Event
  PROVE  /\ q \o <<e, f>> = Append(Append(q, e), f)
         /\ q \o <<>> \o <<f>> = Append(q, f)
         /\ q \o <<e>> \o <<f>> = Append(Append(q, e), f)
         /\ Append(q, e) \in Seq(Event)
OBVIOUS

\* After a request a response is generated, or nothing changed.
LEMMA RequestActive ==
  ASSUME TypeOK, NEW calls \in BOOLEAN, Request(calls)
  PROVE  active' # None \/ UNCHANGED response
BY DEF Request, Create, TypeOK, ServiceTypes, Responses, None

\* The end of a response, an interruption, a cancellation: each puts the end
\* of the audio on the way before the response is forgotten, and only that
\* end, or a closed connection, is what the audio is waiting for.
LEMMA BurstStep ==
  TypeOK /\ QuietInv /\ LoopInv /\ BurstInv /\ [Next]_vars => BurstInv'
<1> SUFFICES ASSUME TypeOK, QuietInv, LoopInv, BurstInv, [Next]_vars
             PROVE  BurstInv'
  OBVIOUS
<1>1. CASE CallerSpeaks
  <2>1. Ev("speech", None) \in Event /\ Ev("speech", None).kind = "speech"
    BY EventTypes DEF Ev
  <2>2. ~burst /\ burst' = burst /\ link = "up"
    BY <1>1 DEF CallerSpeaks, speech
  <2>3. CASE active' = None /\ active # None
    <3>1. Ev("done", active) \in Event /\ Ev("done", active).kind = "done"
      BY <2>3, EventTypes DEF Ev, EventKinds, TypeOK, ServiceTypes
    <3>2. inbox' = Append(Append(inbox, Ev("speech", None)), Ev("done",
          active))
      BY <1>1, <2>1, <2>3, <3>1, Appends DEF CallerSpeaks, TypeOK
    <3>3. AudioEnded(inbox')
      BY <2>1, <3>1, <3>2, Appends, DoneAppend DEF TypeOK
    <3> QED
      BY <2>2, <3>3 DEF BurstInv
  <2>4. CASE active' = active
    <3>1. CASE active = None
      <4>1. inbox' = Append(inbox, Ev("speech", None)) /\ AudioEnded(inbox)
        BY <1>1, <2>2, <3>1 DEF CallerSpeaks, BurstInv
      <4> QED
        BY <2>1, <2>2, <4>1, EndAppend DEF BurstInv, TypeOK
    <3> QED
      BY <2>4, <3>1 DEF BurstInv
  <2> QED
    BY <1>1, <2>3, <2>4 DEF CallerSpeaks
<1>2. CASE Answer
  <2>1. active' # None
    BY <1>2 DEF Answer, Create, TypeOK, ServiceTypes, Responses, None
  <2> QED
    BY <2>1 DEF BurstInv
<1>3. CASE Generate
  <2>1. active # None
    BY <1>3 DEF Generate, Speak, Spoken, Complete, TypeOK, ServiceTypes
  <2>2. CASE Complete
    <3>1. Ev("done", active) \in Event /\ Ev("done", active).kind = "done"
      BY <2>1, EventTypes DEF Ev, EventKinds, TypeOK, ServiceTypes
    <3>2. inbox' = Append(inbox, Ev("done", active))
      BY <2>2, <3>1, Appends DEF Complete, Ends, TypeOK
    <3> QED
      BY <3>1, <3>2, DoneAppend DEF BurstInv, TypeOK
  <2>3. CASE Speak \/ Spoken
    BY <2>1, <2>3 DEF Speak, Spoken, BurstInv
  <2> QED
    BY <1>3, <2>2, <2>3 DEF Generate
<1>4. CASE UseTool
  <2>1. PICK k \in {"call_hangup", "call_other"} : CallTool(k)
    BY <1>4 DEF UseTool
  <2>2. Ev(k, active) \in Event /\ Ev("done", active) \in Event /\
        Ev("done", active).kind = "done"
    BY <2>1, EventTypes DEF Ev, CallTool, TypeOK, ServiceTypes, EventKinds
  <2>3. inbox' = Append(Append(inbox, Ev(k, active)), Ev("done", active)) /\
        Append(inbox, Ev(k, active)) \in Seq(Event)
    BY <2>1, <2>2, Appends DEF CallTool, Ends, TypeOK
  <2> QED
    BY <2>2, <2>3, DoneAppend DEF BurstInv
<1>5. CASE Drop
  BY <1>5 DEF Drop, Forget, markers, speech, loop, engine, TypeOK,
  ServiceTypes, TaskTypes, Open, LoopInv, BurstInv
<1>6. CASE SendGreeting
  <2>1. Request(TRUE) /\ UNCHANGED <<link, burst, rx>>
    BY <1>6 DEF SendGreeting, speech, loop
  <2>2. active' # None \/ UNCHANGED <<active, inbox>>
    BY <2>1, RequestActive DEF response
  <2> QED
    BY <2>1, <2>2 DEF BurstInv
<1>7. CASE FirstRequest
  <2>1. Request(TRUE) /\ UNCHANGED <<link, burst, rx>>
    BY <1>7 DEF FirstRequest, speech, loop
  <2>2. active' # None \/ UNCHANGED <<active, inbox>>
    BY <2>1, RequestActive DEF response
  <2> QED
    BY <2>1, <2>2 DEF BurstInv
<1>8. CASE Created
  <2>1. inbox # <<>> /\ Head(inbox).kind = "created" /\ inbox' = Tail(inbox)
        /\ rx = "idle" /\ UNCHANGED <<link, active>>
    BY <1>8 DEF Created, Next1, Take, rest
  <2>2. UNCHANGED <<burst, rx>>
    BY <1>8 DEF Created, loop
  <2> QED
    BY <2>1, <2>2, EndTail, AheadTail DEF BurstInv, TypeOK
<1>9. CASE Audio
  <2>1. inbox # <<>> /\ Head(inbox).kind = "audio" /\ inbox' = Tail(inbox)
        /\ rx = "idle" /\ UNCHANGED <<link, active>>
    BY <1>9 DEF Audio, Next1, Take, rest
  <2>2. rx' = rx
    BY <1>9 DEF Audio, loop
  <2> QED
    BY <2>1, <2>2, EndTail, AheadTail DEF BurstInv, TypeOK
<1>10. CASE AudioEnds
  <2>1. inbox # <<>> /\ Head(inbox).kind = "audio_done" /\ inbox' =
        Tail(inbox) /\ rx = "idle" /\ UNCHANGED <<link, active>>
    BY <1>10 DEF AudioEnds, Next1, Take, rest
  <2>2. ~burst' \/ rx' # "idle"
    BY <1>10 DEF AudioEnds, AudioDone, FarewellDone, Wait, Finish, TypeOK,
    TaskTypes
  <2> QED
    BY <2>1, <2>2, EndTail, AheadTail DEF BurstInv, TypeOK
<1>11. CASE Done
  <2>1. inbox # <<>> /\ Head(inbox).kind = "done" /\ inbox' = Tail(inbox) /\
        rx = "idle" /\ UNCHANGED <<link, active>>
    BY <1>11 DEF Done, Next1, Take, rest
  <2>2. ~burst' \/ rx' # "idle"
    BY <1>11 DEF Done, DoneEndsAudio, AudioDone, FarewellDone, Wait, Finish,
    TypeOK, TaskTypes
  <2> QED
    BY <2>1, <2>2, EndTail, AheadTail DEF BurstInv, TypeOK
<1>12. CASE ToolCall
  <2>1. inbox # <<>> /\ Head(inbox).kind \in {"call_hangup", "call_other"}
        /\ inbox' = Tail(inbox) /\ rx = "idle" /\ UNCHANGED <<link, active>>
    BY <1>12 DEF ToolCall, Next1, Take, rest
  <2>2. UNCHANGED <<burst, rx>>
    BY <1>12 DEF ToolCall, loop, speech
  <2> QED
    BY <2>1, <2>2, EndTail, AheadTail DEF BurstInv, TypeOK
<1>13. CASE SpeechIgnored
  <2>1. inbox # <<>> /\ Head(inbox).kind = "speech" /\ inbox' = Tail(inbox)
        /\ rx = "idle" /\ UNCHANGED <<link, active>>
    BY <1>13 DEF SpeechIgnored, Next1, Take, rest
  <2>2. UNCHANGED <<burst, rx>>
    BY <1>13 DEF SpeechIgnored, loop, speech
  <2> QED
    BY <2>1, <2>2, EndTail, AheadTail DEF BurstInv, TypeOK
<1>14. CASE SpeechInterrupts
  <2>1. inbox # <<>> /\ Head(inbox).kind = "speech" /\ rx = "idle" /\ link'
        = link
    BY <1>14 DEF SpeechInterrupts, Next1, rest
  <2>2. link = "up" => (burst' /\ rx' = "idle" => FALSE)
    BY <1>14 DEF SpeechInterrupts, AudioDone, FarewellDone, Wait, Finish,
    TypeOK, TaskTypes
  <2>3. CASE active' = active /\ inbox' = Tail(inbox)
    BY <2>1, <2>2, <2>3, EndTail DEF BurstInv, TypeOK
  <2>4. CASE active # None /\ inbox' = Append(Tail(inbox), Ev("done", active))
    <3>1. Ev("done", active) \in Event /\ Ev("done", active).kind = "done"
      BY <2>4, EventTypes DEF Ev, EventKinds, TypeOK, ServiceTypes
    <3>2. AudioEnded(inbox')
      BY <2>1, <2>4, <3>1, Heads, DoneAppend DEF TypeOK
    <3> QED
      BY <2>1, <2>2, <3>2 DEF BurstInv
  <2> QED
    BY <1>14, <2>3, <2>4 DEF SpeechInterrupts, Take
<1>15. CASE ConnectionClosed
  BY <1>15 DEF ConnectionClosed, AudioDone, rest, engine, Wait,
  FarewellDone, finish, Finish, AfterDone, Reschedule, ReEnableVad, TypeOK,
  ServiceTypes, TaskTypes, Open, LoopInv, BurstInv
<1>16. CASE Drained
  BY <1>16 DEF Drained, HangUp, FarewellDone, response, Wait, Finish,
  finish, AfterDone, Reschedule, ReEnableVad, TypeOK, ServiceTypes,
  TaskTypes, Open, LoopInv, BurstInv
<1>17. CASE HungUp
  BY <1>17 DEF HungUp, HangUp, Finish, response, speech, finish, AfterDone,
  Reschedule, ReEnableVad, TypeOK, ServiceTypes, TaskTypes, Open, LoopInv,
  BurstInv
<1>18. CASE HangupTool
  <2>1. Request(FALSE) /\ UNCHANGED <<link, burst, rx>>
    BY <1>18 DEF HangupTool, speech, loop
  <2>2. active' # None \/ UNCHANGED <<active, inbox>>
    BY <2>1, RequestActive DEF response
  <2> QED
    BY <2>1, <2>2 DEF BurstInv
<1>19. CASE OtherTool
  <2>1. Request(FALSE) /\ UNCHANGED <<link, burst, rx>>
    BY <1>19 DEF OtherTool, speech, loop
  <2>2. active' # None \/ UNCHANGED <<active, inbox>>
    BY <2>1, RequestActive DEF response
  <2> QED
    BY <2>1, <2>2 DEF BurstInv
<1>20. CASE Reconnect
  <2>1. inbox' = <<>> /\ ~burst'
    BY <1>20 DEF Reconnect, response, speech, TypeOK, TaskTypes, LoopInv, Open
  <2>2. AudioEnded(<<>>)
    BY DEF AudioEnded
  <2> QED
    BY <2>1, <2>2 DEF BurstInv
<1>21. CASE ReconnectTooLate
  <2>1. inbox' = <<>> /\ ~burst'
    BY <1>21 DEF ReconnectTooLate, response, speech, TypeOK, TaskTypes,
    QuietInv, StoppedIsQuiet
  <2>2. AudioEnded(<<>>)
    BY DEF AudioEnded
  <2> QED
    BY <2>1, <2>2 DEF BurstInv
<1>22. CASE StopBegins
  BY <1>22 DEF StopBegins, speech, loop, service, markers, tasks, engine,
  response, TypeOK, ServiceTypes, TaskTypes, Open, LoopInv, BurstInv
<1>23. CASE StopEnds
  BY <1>23 DEF StopEnds, StopTasks, Forget, markers, loop, engine, TypeOK,
  ServiceTypes, TaskTypes, Open, LoopInv, BurstInv
<1>24. CASE CallerLeaves \/ Stall \/ DisableVad \/ FallbackFires \/
             StaleTool \/ TimerFires \/ TimerHangsUp \/ ReconnectFails \/
             UNCHANGED vars
  <2>1. UNCHANGED <<link, active, inbox, burst, rx>>
    BY <1>24 DEF CallerLeaves, service, markers, speech, loop, tasks,
    response, Stall, engine, DisableVad, FallbackFires, ReEnableVad,
    StaleTool, TimerFires, TimerDue, TimerHangsUp, HangUp, ReconnectFails,
    vars
  <2> QED
    BY <2>1 DEF BurstInv
<1> QED
  BY <1>1, <1>2, <1>3, <1>4, <1>5, <1>6, <1>7, <1>8, <1>9, <1>10, <1>11,
  <1>12, <1>13, <1>14, <1>15, <1>16, <1>17, <1>18, <1>19, <1>20, <1>21,
  <1>22, <1>23, <1>24 DEF Next, Start, Receive, RunTool, Timer,
  Reconnection, Cleanup

\* The caller's audio is held back only while agent audio may still come,
\* whatever was cancelled, interrupted, refused or lost.
THEOREM InputIsReturned == Spec => []InputReturns
<1>1. Init => QuietInv /\ LoopInv /\ BurstInv
  <2>1. AudioEnded(<<>>)
    BY DEF AudioEnded
  <2> QED
    BY <2>1 DEF Init, QuietInv, StoppedIsQuiet, LoopInv, Open, BurstInv
<1>2. TypeOK /\ QuietInv /\ LoopInv /\ BurstInv => InputReturns
  <2>1. ~EndAhead(<<>>)
    BY DEF EndAhead
  <2> QED
    BY <2>1 DEF LoopInv, BurstInv, InputReturns
<1> QED
  BY <1>1, <1>2, RealtimeTypes, QuietStep, LoopStep, BurstStep, PTL DEF Spec

=============================================================================
