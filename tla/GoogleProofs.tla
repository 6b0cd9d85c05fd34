----------------------------- MODULE GoogleProofs -----------------------------
(* Proofs about GoogleLiveSession: its types, and that the engine is told to *)
(* end a call only while that is wanted and somebody has asked for it,       *)
(* whatever Google's service sends and in whatever order.                    *)
EXTENDS GoogleLiveSession, TLAPS

----------------------------------------------------------------------------
(* What a message holds, and what it does.                                 *)

LEMMA PartTypes ==
  ASSUME NEW m \in Parts
  PROVE  /\ m.user \in UserTexts /\ m.said \in ModelTexts /\ m.note \in ModelTexts
         /\ m.audio \in BOOLEAN
<1>1. Silence.user \in UserTexts /\ Silence.said \in ModelTexts /\ Silence.note \in ModelTexts
      /\ Silence.audio \in BOOLEAN
      BY DEF Silence, UserTexts, ModelTexts
<1>2. CASE m \in {Silence, [Silence EXCEPT !.audio = TRUE]}
      BY <1>1, <1>2 DEF Silence
<1>3. ASSUME NEW t \in UserTexts, m = [Silence EXCEPT !.user = t]
      PROVE  m.user \in UserTexts /\ m.said \in ModelTexts /\ m.note \in ModelTexts /\ m.audio \in BOOLEAN
      BY <1>1, <1>3 DEF Silence
<1>4. ASSUME NEW t \in ModelTexts, m = [Silence EXCEPT !.said = t]
      PROVE  m.user \in UserTexts /\ m.said \in ModelTexts /\ m.note \in ModelTexts /\ m.audio \in BOOLEAN
      BY <1>1, <1>4 DEF Silence
<1>5. ASSUME NEW t \in ModelTexts, m = [Silence EXCEPT !.note = t]
      PROVE  m.user \in UserTexts /\ m.said \in ModelTexts /\ m.note \in ModelTexts /\ m.audio \in BOOLEAN
      BY <1>1, <1>5 DEF Silence
<1> QED BY <1>2, <1>3, <1>4, <1>5 DEF Parts

LEMMA JoinedTypes ==
  ASSUME NEW S, NEW a \in S, NEW b \in S
  PROVE  /\ Joined(a, b) \subseteq S
         /\ b = "none" => Joined(a, b) = {a}
BY DEF Joined

\* What a message does to the flags that hang the call up: speech may take a
\* goodbye back, the end of a turn may find one.
LEMMA ContentFlags ==
  ASSUME TypeOK, NEW m \in Parts, NEW ends \in BOOLEAN, Content(m, ends)
  PROVE  \/ (armed' <=> armed) /\ (wantsEnd' <=> wantsEnd) /\ dog' = dog
         \/ ~armed' /\ ~wantsEnd' /\ dog' = dog /\ ~hangupAfter
         \/ /\ armed' /\ wantsEnd'
            /\ dog' = IF dog \in {"off", "over"} THEN "watch" ELSE dog
            /\ \/ userEnd' # "none"
               \/ markers /\ heard \in {"bye", "end"}
               \/ lastHeard # "none"
<1> DEFINE Final(s) == IF s # "none" THEN s ELSE noted
           User(h) == IF h # "none" THEN h ELSE lastHeard
           Keeps == ~Disarms(m.user)
           Arms(h, s) == /\ ends /\ Final(s) # "none"
                         /\ ~(armed /\ Keeps) /\ ~(wantsEnd /\ Keeps)
                         /\ SaidGoodbye(User(h), userEnd', Final(s), farewell')
<1>1. PICK h \in Joined(heard, m.user), s \in Joined(said, m.said) :
        /\ userEnd' = IF m.user # "none" /\ userEnd = "none"
                      THEN UserIntent(h) ELSE userEnd
        /\ armed' = ((armed /\ Keeps) \/ Arms(h, s))
        /\ wantsEnd' = ((wantsEnd /\ Keeps) \/ Arms(h, s))
        /\ IF Arms(h, s) THEN EnsureWatchdog ELSE UNCHANGED dog
      BY DEF Content
<1>3. ~Keeps => ~hangupAfter
      BY DEF Disarms
<1>4. ASSUME Arms(h, s)
      PROVE  \/ userEnd' # "none"
             \/ markers /\ heard \in {"bye", "end"}
             \/ lastHeard # "none"
  <2>1. markers /\ (UserIntent(User(h)) # "none" \/ userEnd' # "none")
        BY <1>4 DEF SaidGoodbye
  <2>2. CASE h = "none"
        BY <2>1, <2>2 DEF UserIntent
  <2>3. CASE h # "none" /\ m.user = "none"
    <3>1. h \in {heard, "none"}
          BY <1>1, <2>3 DEF Joined
    <3> QED BY <2>1, <2>3, <3>1 DEF UserIntent
  <2>4. CASE h # "none" /\ m.user # "none"
        BY <1>1, <2>1, <2>4
  <2> QED BY <2>2, <2>3, <2>4
<1>5. /\ Arms(h, s) => dog' = IF dog \in {"off", "over"} THEN "watch" ELSE dog
      /\ ~Arms(h, s) => dog' = dog
      BY <1>1 DEF EnsureWatchdog
<1>6. /\ armed' <=> (armed /\ Keeps) \/ Arms(h, s)
      /\ wantsEnd' <=> (wantsEnd /\ Keeps) \/ Arms(h, s)
      BY <1>1
<1> HIDE DEF Keeps, Arms
<1>7. CASE Arms(h, s)
      BY <1>4, <1>5, <1>6, <1>7
<1>8. CASE ~Arms(h, s) /\ Keeps
      BY <1>5, <1>6, <1>8
<1>9. CASE ~Arms(h, s) /\ ~Keeps
      BY <1>3, <1>5, <1>6, <1>9
<1> QED BY <1>7, <1>8, <1>9

\* What it does to the loop.
LEMMA ContentLoop ==
  ASSUME TypeOK, NEW m \in Parts, NEW ends \in BOOLEAN, Content(m, ends)
  PROVE  /\ rx = "idle" /\ prov = "live"
         /\ spoken' \in BOOLEAN /\ burst' \in BOOLEAN
         /\ emitted' \in BOOLEAN /\ started' \in BOOLEAN
         /\ hangupAfter' \in BOOLEAN /\ (hangupAfter' => hangupAfter)
         /\ \/ rx' = "idle"
            \/ rx' = "drain" /\ wantsEnd'
            \/ rx' = "ready" /\ hangupAfter
<1>1. PICK h \in Joined(heard, m.user), s \in Joined(said, m.said) :
        LET talks == spoken \/ m.said # "none" \/ m.note # "none" \/ m.audio
            plays == burst \/ m.audio
        IN /\ burst' = (plays /\ ~ends)
           /\ IF ~ends
              THEN spoken' = talks /\ UNCHANGED <<emitted, hangupAfter, rx>>
              ELSE IF plays /\ wantsEnd'
              THEN /\ spoken' = talks /\ rx' = "drain"
                   /\ UNCHANGED <<emitted, hangupAfter>>
              ELSE Conclude(plays, talks)
      BY DEF Content
<1>2. rx = "idle" /\ prov = "live"
      BY DEF Content, Receives
<1>3. started' \in BOOLEAN /\ burst' \in BOOLEAN
      BY <1>1 DEF Content, AudioOutput
<1>4. spoken' \in BOOLEAN /\ emitted' \in BOOLEAN
      BY <1>1 DEF Conclude, TypeOK
<1>5. hangupAfter' \in BOOLEAN /\ (hangupAfter' => hangupAfter)
      BY <1>1 DEF Conclude, TypeOK
<1>6. rx' = "idle" \/ (rx' = "drain" /\ wantsEnd') \/ (rx' = "ready" /\ hangupAfter)
      BY <1>1, <1>2 DEF Conclude
<1> QED BY <1>2, <1>3, <1>4, <1>5, <1>6

----------------------------------------------------------------------------
(* Types.                                                                  *)

TextTypes ==
  /\ markers \in BOOLEAN /\ link \in {"up", "abnormal", "normal", "closed"}
  /\ heard \in UserTexts /\ lastHeard \in {"none", "bye", "end"}
  /\ said \in ModelTexts /\ noted \in ModelTexts
  /\ userEnd \in {"none", "bye", "end"} /\ farewell \in BOOLEAN

FlagTypes ==
  /\ spoken \in BOOLEAN /\ burst \in BOOLEAN
  /\ armed \in BOOLEAN /\ started \in BOOLEAN /\ emitted \in BOOLEAN
  /\ ready \in BOOLEAN /\ hangupAfter \in BOOLEAN

TaskTypes ==
  /\ prov \in {"setup", "live", "draining", "cancelling", "stopped"}
  /\ rx \in {"idle", "tool", "drain", "ready", "lost", "off"}
  /\ dog \in {"off", "watch", "drain", "ready", "over"}
  /\ wantsEnd \in BOOLEAN /\ called \in BOOLEAN
  /\ ended \in {"no", "caller", "agent", "lost"}
  /\ (hangupAfter => armed) /\ (armed => dog # "off")

LEMMA InitTypes == Init => TypeOK
BY DEF Init, TypeOK, UserTexts, ModelTexts

LEMMA NextTypes == TypeOK /\ [Next]_vars => TypeOK'
<1> SUFFICES ASSUME TypeOK, [Next]_vars PROVE TypeOK'
    OBVIOUS
<1> USE DEF TypeOK, TextTypes, FlagTypes, TaskTypes, UserTexts, ModelTexts, UserIntent
<1> USE DEF service, transcripts, turn, fallback, tasks, call
<1>1. ASSUME NEW m \in Parts, NEW ends \in BOOLEAN, Content(m, ends) PROVE TypeOK'
  <2>1. /\ \A h \in Joined(heard, m.user) : h \in UserTexts
        /\ \A s \in Joined(said, m.said) : s \in ModelTexts
        /\ \A n \in Joined(IF ends THEN "none" ELSE noted, m.note) : n \in ModelTexts
        BY PartTypes, JoinedTypes
  <2>2. TextTypes'
        BY <1>1, <2>1 DEF Content, IsFarewell
  <2>3. armed' \in BOOLEAN /\ wantsEnd' \in BOOLEAN
        BY <1>1 DEF Content
  <2>4. FlagTypes'
        BY <1>1, <2>3, ContentLoop DEF Content
  <2>5. /\ prov' \in {"setup", "live", "draining", "cancelling", "stopped"}
        /\ called' \in BOOLEAN /\ ended' \in {"no", "caller", "agent", "lost"}
        BY <1>1 DEF Content
  <2>6. rx' \in {"idle", "tool", "drain", "ready", "lost", "off"}
        BY <1>1, ContentLoop
  <2>7. hangupAfter' => armed'
        BY <1>1, ContentFlags, ContentLoop
  <2>8. /\ dog' \in {"off", "watch", "drain", "ready", "over"}
        /\ armed' => dog' # "off"
        BY <1>1, ContentFlags
  <2> QED BY <2>2, <2>3, <2>4, <2>5, <2>6, <2>7, <2>8
<1>2. CASE HangupTool
  <2>1. TextTypes'
        BY <1>2 DEF HangupTool, Receives, EnsureWatchdog
  <2>2. FlagTypes'
        BY <1>2 DEF HangupTool, Receives, EnsureWatchdog
  <2>3. TaskTypes'
        BY <1>2 DEF HangupTool, Receives, EnsureWatchdog
  <2> QED BY <2>1, <2>2, <2>3
<1>3. CASE OtherTool
      BY <1>3 DEF OtherTool, Receives
<1>4. CASE LinkCloses
      BY <1>4 DEF LinkCloses
<1>5. CASE CallerLeaves
      BY <1>5 DEF CallerLeaves
<1>6. CASE Drained
  <2>1. TextTypes'
        BY <1>6 DEF Drained, HangUp, Conclude
  <2>2. FlagTypes'
        BY <1>6 DEF Drained, HangUp, Conclude
  <2>3. TaskTypes'
        BY <1>6 DEF Drained, HangUp, Conclude
  <2> QED BY <2>1, <2>2, <2>3
<1>7. CASE FarewellOver
  <2>1. TextTypes'
        BY <1>7 DEF FarewellOver, HangUp
  <2>2. FlagTypes'
        BY <1>7 DEF FarewellOver, HangUp
  <2>3. TaskTypes'
        BY <1>7 DEF FarewellOver, HangUp
  <2> QED BY <2>1, <2>2, <2>3
<1>8. CASE ToolReturns
      BY <1>8 DEF ToolReturns
<1>9. CASE LoopEnds
      BY <1>9 DEF LoopEnds
<1>10. CASE LoopBreaks
      BY <1>10 DEF LoopBreaks
<1>11. CASE Disconnected
      BY <1>11 DEF Disconnected, HangUp
<1>12. CASE DogLeaves
      BY <1>12 DEF DogLeaves
<1>13. CASE DogNoAudio
      BY <1>13 DEF DogNoAudio, Due, FlushUser
<1>14. CASE DogIdle
  <2>1. TextTypes'
        BY <1>14 DEF DogIdle, Due, FlushUser
  <2>2. FlagTypes'
        BY <1>14 DEF DogIdle, Due, FlushUser
  <2>3. TaskTypes'
        BY <1>14 DEF DogIdle, Due, FlushUser
  <2> QED BY <2>1, <2>2, <2>3
<1>15. CASE DogDrained
      BY <1>15 DEF DogDrained, HangUp, FlushUser
<1>16. CASE DogHangsUp
      BY <1>16 DEF DogHangsUp, HangUp
<1>17. CASE SetupComplete
      BY <1>17 DEF SetupComplete
<1>18. CASE SetupTimesOut
  <2>1. TextTypes'
        BY <1>18 DEF SetupTimesOut, StopSession
  <2>2. FlagTypes'
        BY <1>18 DEF SetupTimesOut, StopSession
  <2>3. TaskTypes'
        BY <1>18 DEF SetupTimesOut, StopSession
  <2> QED BY <2>1, <2>2, <2>3
<1>19. CASE StopBegins
  <2>1. TextTypes'
        BY <1>19 DEF StopBegins
  <2>2. FlagTypes'
        BY <1>19 DEF StopBegins
  <2>3. TaskTypes'
        BY <1>19 DEF StopBegins
  <2> QED BY <2>1, <2>2, <2>3
<1>20. CASE StopDrained
      BY <1>20 DEF StopDrained
<1>21. CASE StopEnds
  <2>1. TextTypes'
        BY <1>21 DEF StopEnds, StopSession
  <2>2. FlagTypes'
        BY <1>21 DEF StopEnds, StopSession
  <2>3. TaskTypes'
        BY <1>21 DEF StopEnds, StopSession
  <2> QED BY <2>1, <2>2, <2>3
<1>22. CASE UNCHANGED vars
      BY <1>22 DEF vars
<1> QED
  BY <1>1, <1>2, <1>3, <1>4, <1>5, <1>6, <1>7, <1>8, <1>9, <1>10,
     <1>11, <1>12, <1>13, <1>14, <1>15, <1>16, <1>17, <1>18, <1>19,
     <1>20, <1>21, <1>22
  DEF Next, Loop, Watchdog, Setup, Stop

----------------------------------------------------------------------------
(* A call is ended for a reason.                                           *)

\* The provider's flag and the engine's agree, and a call is to end because
\* hangup_call was executed or the caller has said goodbye: also a goodbye that
\* is still in the buffers has been noted.
Grounds ==
  /\ armed <=> wantsEnd
  /\ wantsEnd => called \/ userEnd # "none"
  /\ (markers /\ heard \in {"bye", "end"}) \/ lastHeard # "none" => userEnd # "none"

\* A session that has stopped has no task left: its flags may disagree then.
SessionInv ==
  /\ hangupAfter => called
  /\ prov = "stopped" => rx = "off" /\ dog = "over"
  /\ prov # "stopped" => Grounds

LEMMA InitSession == Init => SessionInv
BY DEF Init, SessionInv, Grounds

LEMMA NextSession == TypeOK /\ SessionInv /\ [Next]_vars => SessionInv'
<1> SUFFICES ASSUME TypeOK, SessionInv, [Next]_vars PROVE SessionInv'
    OBVIOUS
<1> USE DEF SessionInv, TypeOK, Grounds, UserTexts, ModelTexts, UserIntent
<1> USE DEF service, transcripts, turn, fallback, tasks, call
<1>1. ASSUME NEW m \in Parts, NEW ends \in BOOLEAN, Content(m, ends) PROVE SessionInv'
  <2>2. rx = "idle" /\ prov = "live" /\ (hangupAfter' => hangupAfter)
        BY <1>1, ContentLoop
  <2>3. UNCHANGED <<markers, prov, called>>
        BY <1>1 DEF Content
  <2>4. PICK h \in Joined(heard, m.user) :
          /\ userEnd' = IF m.user # "none" /\ userEnd = "none"
                        THEN UserIntent(h) ELSE userEnd
          /\ heard' = IF ends THEN "none" ELSE h
          /\ lastHeard' = IF ends THEN UserIntent(IF h # "none" THEN h ELSE lastHeard)
                          ELSE lastHeard
        BY <1>1 DEF Content
  <2>5. m.user = "none" => h \in {heard, "none"}
        BY <2>4 DEF Joined
  <2>6. userEnd # "none" => userEnd' # "none"
        BY <2>4
  <2>7. markers /\ h \in {"bye", "end"} => userEnd' # "none"
        BY <2>2, <2>4, <2>5
  <2>8. (markers /\ heard' \in {"bye", "end"}) \/ lastHeard' # "none"
          => userEnd' # "none"
        BY <2>2, <2>4, <2>6, <2>7
  <2>9. (armed' <=> wantsEnd') /\ (wantsEnd' => called \/ userEnd' # "none")
        BY <1>1, <2>2, <2>3, <2>6, ContentFlags
  <2> QED BY <2>2, <2>3, <2>8, <2>9
<1>2. CASE HangupTool
      BY <1>2 DEF HangupTool, Receives, EnsureWatchdog
<1>3. CASE OtherTool
      BY <1>3 DEF OtherTool, Receives
<1>4. CASE LinkCloses
      BY <1>4 DEF LinkCloses
<1>5. CASE CallerLeaves
      BY <1>5 DEF CallerLeaves
<1>6. CASE Drained
      BY <1>6 DEF Drained, HangUp, Conclude
<1>7. CASE FarewellOver
      BY <1>7 DEF FarewellOver, HangUp
<1>8. CASE ToolReturns
      BY <1>8 DEF ToolReturns
<1>9. CASE LoopEnds
      BY <1>9 DEF LoopEnds
<1>10. CASE LoopBreaks
      BY <1>10 DEF LoopBreaks
<1>11. CASE Disconnected
      BY <1>11 DEF Disconnected, HangUp
<1>12. CASE DogLeaves
      BY <1>12 DEF DogLeaves
<1>13. CASE DogNoAudio
      BY <1>13 DEF DogNoAudio, Due, FlushUser
<1>14. CASE DogIdle
      BY <1>14 DEF DogIdle, Due, FlushUser
<1>15. CASE DogDrained
      BY <1>15 DEF DogDrained, HangUp, FlushUser
<1>16. CASE DogHangsUp
      BY <1>16 DEF DogHangsUp, HangUp
<1>17. CASE SetupComplete
      BY <1>17 DEF SetupComplete
<1>18. CASE SetupTimesOut
      BY <1>18 DEF SetupTimesOut, StopSession
<1>19. CASE StopBegins
      BY <1>19 DEF StopBegins
<1>20. CASE StopDrained
      BY <1>20 DEF StopDrained
<1>21. CASE StopEnds
      BY <1>21 DEF StopEnds, StopSession
<1>22. CASE UNCHANGED vars
      BY <1>22 DEF vars
<1> QED
  BY <1>1, <1>2, <1>3, <1>4, <1>5, <1>6, <1>7, <1>8, <1>9, <1>10,
     <1>11, <1>12, <1>13, <1>14, <1>15, <1>16, <1>17, <1>18, <1>19,
     <1>20, <1>21, <1>22
  DEF Next, Loop, Watchdog, Setup, Stop

Wanted == Told => wantsEnd' /\ (called \/ userEnd' # "none")

LEMMA StepWanted == TypeOK /\ SessionInv /\ [Next]_vars => Wanted
<1> SUFFICES ASSUME TypeOK, SessionInv, [Next]_vars PROVE Wanted
    OBVIOUS
<1> USE DEF Wanted, Told, SessionInv, Grounds, TypeOK, UserTexts, ModelTexts, UserIntent
<1> USE DEF service, transcripts, turn, fallback, tasks, call
<1>1. ASSUME NEW m \in Parts, NEW ends \in BOOLEAN, Content(m, ends) PROVE Wanted
  <2>1. rx = "idle" /\ (rx' \in {"drain", "ready"} => wantsEnd' \/ hangupAfter)
        BY <1>1, ContentLoop
  <2>2. dog' \in {"drain", "ready"} => dog # "watch"
        BY <1>1, ContentFlags
  <2>3. hangupAfter => wantsEnd'
        BY <1>1, ContentFlags, ContentLoop
  <2>4. SessionInv'
        BY <1>1, NextSession DEF Next
  <2>5. prov' = "live" /\ called' = called
        BY <1>1, ContentLoop DEF Content
  <2> QED BY <2>1, <2>2, <2>3, <2>4, <2>5
<1>2. CASE HangupTool
      BY <1>2 DEF HangupTool, Receives, EnsureWatchdog
<1>3. CASE OtherTool
      BY <1>3 DEF OtherTool, Receives
<1>4. CASE LinkCloses
      BY <1>4 DEF LinkCloses
<1>5. CASE CallerLeaves
      BY <1>5 DEF CallerLeaves
<1>6. CASE Drained
      BY <1>6 DEF Drained, HangUp, Conclude
<1>7. CASE FarewellOver
      BY <1>7 DEF FarewellOver, HangUp
<1>8. CASE ToolReturns
      BY <1>8 DEF ToolReturns
<1>9. CASE LoopEnds
      BY <1>9 DEF LoopEnds
<1>10. CASE LoopBreaks
      BY <1>10 DEF LoopBreaks
<1>11. CASE Disconnected
      BY <1>11 DEF Disconnected, HangUp
<1>12. CASE DogLeaves
      BY <1>12 DEF DogLeaves
<1>13. CASE DogNoAudio
      BY <1>13 DEF DogNoAudio, Due, FlushUser
<1>14. CASE DogIdle
      BY <1>14 DEF DogIdle, Due, FlushUser
<1>15. CASE DogDrained
      BY <1>15 DEF DogDrained, HangUp, FlushUser
<1>16. CASE DogHangsUp
      BY <1>16 DEF DogHangsUp, HangUp
<1>17. CASE SetupComplete
      BY <1>17 DEF SetupComplete
<1>18. CASE SetupTimesOut
      BY <1>18 DEF SetupTimesOut, StopSession
<1>19. CASE StopBegins
      BY <1>19 DEF StopBegins
<1>20. CASE StopDrained
      BY <1>20 DEF StopDrained
<1>21. CASE StopEnds
      BY <1>21 DEF StopEnds, StopSession
<1>22. CASE UNCHANGED vars
      BY <1>22 DEF vars
<1> QED
  BY <1>1, <1>2, <1>3, <1>4, <1>5, <1>6, <1>7, <1>8, <1>9, <1>10,
     <1>11, <1>12, <1>13, <1>14, <1>15, <1>16, <1>17, <1>18, <1>19,
     <1>20, <1>21, <1>22
  DEF Next, Loop, Watchdog, Setup, Stop

\* Every reachable state of a session has its types: a hang-up that was asked
\* for is armed, and what is armed has a watchdog (_maybe_arm_cleanup_after_tts,
\* _handle_tool_call, _ensure_hangup_fallback_watchdog).
THEOREM GoogleTypes == Spec => []TypeOK
BY InitTypes, NextTypes, PTL DEF Spec

\* The engine is told to end a call, by the loop or by the watchdog, only while
\* cleanup_after_tts is set, and only if the model has called hangup_call or the
\* caller has said goodbye: what speech takes back is all of a goodbye
\* (_maybe_disarm_cleanup_after_tts_fallback_on_user_speech).
THEOREM NobodyCutOff == Spec => CallerNotCutOff
<1>1. TypeOK /\ SessionInv /\ [Next]_vars
        => [Told => wantsEnd' /\ (called \/ userEnd' # "none")]_vars
      BY StepWanted DEF Wanted
<1> QED
  BY <1>1, InitTypes, NextTypes, InitSession, NextSession, PTL
  DEF Spec, CallerNotCutOff
=============================================================================
