-------------------------- MODULE TransferPartyProofs --------------------------
(* Proofs about AttendedTransfer: the caller talks to one party at a time,   *)
(* to somebody as long as the call goes on, and leaves no mapping behind,    *)
(* for any number of transfers of one call and every fault, as long as the   *)
(* agent's answer and the no-answer guard do not race the tools (Timely).    *)
EXTENDS TransferProofs, FiniteSetTheorems

\* No agent answers while the tool still waits for the id of the channel or
\* while a cancellation is under way, and the requests of a no-answer guard do
\* not outlast a turn of the model.
Timely == Punctual /\ "slow_guard" \notin Timing

----------------------------------------------------------------------------
(* One transfer at a time.                                                 *)

\* The handler of the leg's answer is at work.
Working(g) == answer[g] \notin {"none", "over"}

\* A leg whose handler is at work, or that is in the bridge, is the answered leg
\* of the session's action: two such legs are the same one.
OneTransfer(g) ==
  /\ Working(g) \/ g \in talking => action = Adopt(g)
  /\ g \in talking => answer[g] \in {"bridged", "over"}
  /\ answer[g] \in {"detached", "bridged"} \/ g \in talking => ~ai

\* A leg that may still answer is the last one dialled, and the action is
\* waiting for it: no tool and no handler is about to reset the action.
Awaited(g) ==
  leg[g] = "ringing" \/ HasStart(events, g) =>
    /\ action.on /\ ~action.answered /\ action.leg \in {g, NoLeg}
    /\ g = callee
    /\ tool = "idle" \/ (tool = "dial" /\ ~HasStart(events, g))

\* A guard that is giving a transfer up finds no other transfer in its way.
GuardAtWork(g) ==
  guard[g] \in {"hungup", "unheld"} =>
    /\ action.on => action.leg = g /\ ~action.answered
    /\ tool \in {"idle", "cancel", "uncancel"}
    /\ g \in dropped

\* The action is written, the leg it is for is not known yet.
Dialling == tool \in {"dial", "refused", "unhold"}

\* What the tool being executed knows of the action.
ToolAtWork ==
  /\ tool = "hold" => ~action.on
  /\ tool \in {"cancel", "uncancel"} => ~action.answered
  /\ Dialling => action.on /\ action.leg = NoLeg /\ ~action.answered
  /\ action.on /\ action.leg = NoLeg => Dialling \/ cleanup = "done"

\* How far the cleanup has come.
CallAtWork ==
  /\ cleanup \notin {"no", "begun"} => ~ai
  /\ ~stored => cleanup = "done"
  /\ cleanup = "no" => bridge

PartyInv ==
  /\ \A g \in Legs : OneTransfer(g) /\ Awaited(g) /\ GuardAtWork(g)
  /\ ToolAtWork /\ CallAtWork

LEMMA InitParty == Init => PartyInv
BY DEF Init, PartyInv, OneTransfer, Working, Awaited, HasStart, GuardAtWork,
       ToolAtWork, Dialling, CallAtWork, NoAction

LEMMA NextParty ==
  ASSUME Timely
  PROVE  TransferInv /\ LegsInv /\ PartyInv /\ [Next]_vars => PartyInv'
<1> SUFFICES ASSUME TransferInv, LegsInv, PartyInv, [Next]_vars PROVE PartyInv'
    OBVIOUS
<1> TypeOK
    BY DEF TransferInv
<1> USE LegsTyped, LegNumbers DEF NoLeg, Caller
<1> USE DEF LegsInv, LegInv, ReportedOnce, DialledInOrder, Fresh, DroppedStaysDown
<1> USE DEF PartyInv, OneTransfer, Working, Awaited, GuardAtWork, Dialling,
            ToolAtWork, CallAtWork, Adopt
<1> USE DEF TransferInv, TypeOK, DialTypes, AsteriskTypes, SessionTypes,
            EngineTypes, ToolTypes
<1> USE DEF asterisk, session, agent, tools
<1>1. CASE CallerLeaves
  <2>1. Quiet
        BY <1>1, SendQuiet DEF CallerLeaves
  <2> QED BY <1>1, <2>1 DEF Quiet, CallerLeaves
<1>2. CASE Request
  <2>1. Quiet
        BY <1>2, SameQuiet DEF Request
  <2> QED BY <1>2, <2>1 DEF Quiet, Request, Timely
<1>3. CASE Cancel
  <2>1. \A l \in Legs : ~HasStart(events, l)
        BY <1>3, StartsAreAnswers DEF Cancel, Timely, Punctual
  <2>2. action.leg \in Legs
        BY <1>3 DEF Cancel
  <2>3. Hangup(action.leg)
        BY <1>3, <2>2 DEF Cancel
  <2>4. Quiet /\ HungUp(action.leg)
        BY <2>2, <2>3, HangupQuiet
  <2>5. talking' \subseteq talking
        BY <2>3 DEF Hangup
  <2>6. /\ dropped' = dropped \cup {action.leg}
        /\ tool' = "cancel" /\ ~action.answered
        /\ UNCHANGED <<guard, callee, stored, action, cleanup, ai, bridge>>
        /\ CancelWaiter(action.leg)
        BY <1>3, <2>2 DEF Cancel
  <2> QED BY <2>1, <2>2, <2>4, <2>5, <2>6 DEF HungUp, Quiet, CancelWaiter
<1>4. CASE BlindTransfer
  <2>1. Quiet
        BY <1>4, SendQuiet, SameQuiet DEF BlindTransfer
  <2> QED BY <1>4, <2>1 DEF Quiet, BlindTransfer
<1>5. CASE Speak
  <2>1. Quiet
        BY <1>5, SameQuiet DEF Speak
  <2> QED BY <1>5, <2>1 DEF Quiet, Speak
<1>6. CASE SpeakEnd
  <2>1. Quiet
        BY <1>6, SameQuiet DEF SpeakEnd
  <2> QED BY <1>6, <2>1 DEF Quiet, SpeakEnd
<1>7. CASE Dial
  <2>1. Quiet
        BY <1>7, SameQuiet DEF Dial
  <2> QED BY <1>7, <2>1 DEF Quiet, Dial, NoAction
<1>8. CASE Dialled
  <2>1. Quiet
        BY <1>8, SameQuiet DEF Dialled
  <2> QED BY <1>8, <2>1 DEF Quiet, Dialled, Arm, Return
<1>9. CASE DialledTooLate
  <2>1. Quiet
        BY <1>9, SameQuiet DEF DialledTooLate
  <2> QED BY <1>9, <2>1 DEF Quiet, DialledTooLate, Return
<1>10. CASE RefusedUnhold
  <2>1. Quiet
        BY <1>10, SameQuiet DEF RefusedUnhold
  <2> QED BY <1>10, <2>1 DEF Quiet, RefusedUnhold
<1>11. CASE RefusedReturn
  <2>1. Quiet
        BY <1>11, SameQuiet DEF RefusedReturn
  <2> QED BY <1>11, <2>1 DEF Quiet, RefusedReturn, Return, NoAction
<1>12. CASE CancelUnhold
  <2>1. Quiet
        BY <1>12, SameQuiet DEF CancelUnhold
  <2> QED BY <1>12, <2>1 DEF Quiet, CancelUnhold
<1>13. CASE CancelReturn
  <2>1. Quiet
        BY <1>13, SameQuiet DEF CancelReturn
  <2> QED BY <1>13, <2>1 DEF Quiet, CancelReturn, Return, NoAction
<1>14. ASSUME NEW g \in Legs, AnsweredInVain(g) PROVE PartyInv'
  <2>1. Quiet /\ HungUp(g) /\ HasStart(events, g) /\ ~HasStart(events', g)
        BY <1>14, VainQuiet DEF AnsweredInVain
  <2>2. talking' \subseteq talking
        BY <1>14 DEF AnsweredInVain, DeliverAndHangup
  <2> QED BY <1>14, <2>1, <2>2 DEF Quiet, HungUp, AnsweredInVain, Goes
<1>15. ASSUME NEW g \in Legs, Answered(g) PROVE PartyInv'
  <2>1. Quiet /\ HasStart(events, g) /\ ~HasStart(events', g)
        BY <1>15, DeliverQuiet, StartTaken DEF Answered
  <2>2. action.on /\ ~action.answered /\ callee = g /\ tool = "idle"
        BY <2>1
  <2>3. \A l \in Legs : ~Working(l) /\ l \notin talking
        BY <2>2
  <2>4. \A l \in Legs : leg[l] # "ringing" /\ (HasStart(events, l) => l = g)
        BY <2>1, <2>2
  <2>5. /\ action' = Adopt(g) /\ answer' = [answer EXCEPT ![g] = "announce"]
        /\ UNCHANGED <<leg, talking, bridge, stored, guard, ai, cleanup, tool,
                       callee, dropped>>
        BY <1>15 DEF Answered, Goes
  <2>6. \A l \in Legs : OneTransfer(l)'
        BY <2>3, <2>5
  <2>7. \A l \in Legs : Awaited(l)'
    <3> SUFFICES ASSUME NEW l \in Legs PROVE leg'[l] # "ringing" /\ ~HasStart(events', l)
        OBVIOUS
    <3>1. HasStart(events', l) => HasStart(events, l)
          BY <2>1 DEF Quiet
    <3> QED BY <3>1, <2>1, <2>4, <2>5
  <2>8. \A l \in Legs : GuardAtWork(l)'
    <3> SUFFICES ASSUME NEW l \in Legs, guard[l] \in {"hungup", "unheld"} PROVE FALSE
        BY <2>5
    <3>1. l = g
          BY <2>2, <2>1
    <3> QED BY <3>1, <2>1
  <2> QED BY <2>2, <2>5, <2>6, <2>7, <2>8
<1>16. ASSUME NEW g \in Legs, NEW d \in {"yes", "no"}, Digit(g, d) PROVE PartyInv'
  <2>1. Deliver(d, g)
        BY <1>16 DEF Digit
  <2>2. Quiet
        BY <2>1, DeliverQuiet
  <2> QED BY <1>16, <2>2 DEF Quiet, Digit, Goes
<1>17. ASSUME NEW p \in Legs \cup {Caller}, ChannelEnds(p) PROVE PartyInv'
  <2>1. Quiet
        BY <1>17, DeliverQuiet DEF ChannelEnds
  <2> QED BY <1>17, <2>1 DEF Quiet, ChannelEnds
<1>18. CASE CleanupSilences
  <2>1. Quiet
        BY <1>18, SameQuiet DEF CleanupSilences
  <2> QED BY <1>18, <2>1 DEF Quiet, CleanupSilences
<1>19. CASE CleanupBridge
  <2>1. Quiet
        BY <1>19, SameQuiet DEF CleanupBridge
  <2> QED BY <1>19, <2>1 DEF Quiet, CleanupBridge
<1>20. CASE CleanupLegs
  <2>1. \/ \E g \in Legs : Quiet /\ HungUp(g) /\ talking' \subseteq talking
        \/ Quiet /\ UNCHANGED <<leg, talking>>
        BY <1>20, HangupQuiet, SameQuiet DEF CleanupLegs, ActionLegs, Hangup
  <2>2. \A l \in Legs : leg'[l] = "ringing" => leg[l] = "ringing"
        BY <2>1 DEF HungUp
  <2>3. Quiet /\ talking' \subseteq talking
        BY <2>1
  <2> QED BY <1>20, <2>2, <2>3 DEF Quiet, CleanupLegs
<1>21. CASE CleanupCaller
  <2>1. Quiet
        BY <1>21, SendQuiet, SameQuiet DEF CleanupCaller
  <2> QED BY <1>21, <2>1 DEF Quiet, CleanupCaller
<1>22. CASE CleanupRemoves
  <2>1. Quiet
        BY <1>22, SameQuiet DEF CleanupRemoves
  <2> QED BY <1>22, <2>1 DEF Quiet, CleanupRemoves, ForgetMappings
<1>23. ASSUME NEW g \in Legs, LegAnswers(g) PROVE PartyInv'
  <2>1. \A l \in Legs : HasStart(events', l) => HasStart(events, l) \/ l = g
        BY <1>23, StartSent DEF LegAnswers
  <2> QED BY <1>23, <2>1 DEF LegAnswers, Timely, Punctual
<1>24. ASSUME NEW g \in Legs, LegEnds(g) PROVE PartyInv'
  <2>1. Quiet
        BY <1>24, SendQuiet, SameQuiet DEF LegEnds
  <2> QED BY <1>24, <2>1 DEF Quiet, LegEnds
<1>25. ASSUME NEW g \in Legs, AnnounceFails(g) PROVE PartyInv'
  <2>1. Quiet /\ HungUp(g) /\ talking' \subseteq talking
        BY <1>25, HangupQuiet DEF AnnounceFails, Drop, Hangup
  <2> QED BY <1>25, <2>1 DEF HungUp, Quiet, AnnounceFails, Drop, Unregister, Goes
<1>26. ASSUME NEW g \in Legs, NEW d \in {"yes", "no"}, AgentPresses(g, d) PROVE PartyInv'
  <2>1. Quiet
        BY <1>26, SendQuiet DEF AgentPresses
  <2> QED BY <1>26, <2>1 DEF Quiet, AgentPresses
<1>27. ASSUME NEW g \in Legs, Announced(g) PROVE PartyInv'
  <2>1. Quiet
        BY <1>27, SameQuiet DEF Announced
  <2> QED BY <1>27, <2>1 DEF Quiet, Announced, Goes
<1>28. ASSUME NEW g \in Legs, Prompted(g) PROVE PartyInv'
  <2>1. Quiet
        BY <1>28, SameQuiet DEF Prompted
  <2> QED BY <1>28, <2>1 DEF Quiet, Prompted, Goes
<1>29. ASSUME NEW g \in Legs, WaitTimesOut(g) PROVE PartyInv'
  <2>1. Quiet
        BY <1>29, SameQuiet DEF WaitTimesOut
  <2> QED BY <1>29, <2>1 DEF Quiet, WaitTimesOut, Goes
<1>30. ASSUME NEW g \in Legs, DecideWithoutSession(g) PROVE PartyInv'
  <2>1. Quiet
        BY <1>30, SameQuiet DEF DecideWithoutSession
  <2> QED BY <1>30, <2>1 DEF Quiet, DecideWithoutSession, Goes
<1>31. ASSUME NEW g \in Legs, Decline(g) PROVE PartyInv'
  <2>1. Quiet /\ HungUp(g) /\ talking' \subseteq talking
        BY <1>31, HangupQuiet DEF Decline, Drop, Hangup
  <2> QED BY <1>31, <2>1 DEF HungUp, Quiet, Decline, Drop, Unregister, Goes
<1>32. ASSUME NEW g \in Legs, AbortUnhold(g) PROVE PartyInv'
  <2>1. Quiet
        BY <1>32, SameQuiet DEF AbortUnhold
  <2> QED BY <1>32, <2>1 DEF Quiet, AbortUnhold, Goes
<1>33. ASSUME NEW g \in Legs, Apologize(g) PROVE PartyInv'
  <2>1. Quiet
        BY <1>33, SameQuiet DEF Apologize
  <2> QED BY <1>33, <2>1 DEF Quiet, Apologize, Goes
<1>34. ASSUME NEW g \in Legs, Resume(g) PROVE PartyInv'
  <2>1. Quiet
        BY <1>34, SameQuiet DEF Resume
  <2> QED BY <1>34, <2>1 DEF Quiet, Resume, ResumeAi, Unregister, Goes, NoAction
<1>35. ASSUME NEW g \in Legs, Accept(g) PROVE PartyInv'
  <2>1. Quiet
        BY <1>35, SameQuiet DEF Accept
  <2> QED BY <1>35, <2>1 DEF Quiet, Accept, Goes
<1>36. ASSUME NEW g \in Legs, Detach(g) PROVE PartyInv'
  <2>1. Quiet
        BY <1>36, SameQuiet DEF Detach
  <2> QED BY <1>36, <2>1 DEF Quiet, Detach, StopAi, Goes
<1>37. ASSUME NEW g \in Legs, Connect(g) PROVE PartyInv'
  <2>1. Quiet
        BY <1>37, SameQuiet DEF Connect
  <2> QED BY <1>37, <2>1 DEF Quiet, Connect, Goes
<1>38. ASSUME NEW g \in Legs, Connected(g) PROVE PartyInv'
  <2>1. Quiet
        BY <1>38, SameQuiet DEF Connected
  <2>2. /\ answer[g] = "bridged" /\ answer' = [answer EXCEPT ![g] = "over"]
        /\ stored' = TRUE
        /\ UNCHANGED <<leg, talking, bridge, guard, ai, cleanup, tool, callee,
                       dropped>>
        BY <1>38 DEF Connected, Goes
  <2>3. action = Adopt(g) /\ action' = Adopt(g)
        BY <1>38, <2>2 DEF Connected
  <2>4. action' = action
        BY <2>3
  <2> QED BY <2>1, <2>2, <2>4 DEF Quiet
<1>39. ASSUME NEW g \in Legs, GuardLeaves(g) PROVE PartyInv'
  <2>1. Quiet
        BY <1>39, SameQuiet DEF GuardLeaves
  <2> QED BY <1>39, <2>1 DEF Quiet, GuardLeaves, GuardGoes, CancelWaiter, Unregister
<1>40. ASSUME NEW g \in Legs, GuardHangsUp(g) PROVE PartyInv'
  <2>1. Hangup(g) /\ ~HasStart(events, g)
        BY <1>40, NonePending DEF GuardHangsUp, GuardDue
  <2>2. Quiet /\ HungUp(g)
        BY <2>1, HangupQuiet
  <2>3. talking' \subseteq talking
        BY <2>1 DEF Hangup
  <2>4. \A l \in Legs : answer'[l] = answer[l] \/ (answer[l] = "wait" /\ answer'[l] = "over")
        BY <1>40 DEF GuardHangsUp, CancelWaiter
  <2>5. /\ guard' = [guard EXCEPT ![g] = "hungup"] /\ dropped' = dropped \cup {g}
        /\ action.on /\ action.leg = g /\ ~action.answered
        /\ UNCHANGED <<bridge, stored, action, ai, cleanup, tool, callee>>
        BY <1>40 DEF GuardHangsUp, GuardUnanswered, GuardGoes
  <2>6. tool \in {"idle", "cancel", "uncancel"}
        BY <2>5 DEF ToolState
  <2>9. \A l \in Legs : guard[l] \in {"hungup", "unheld"} => l = g
        BY <2>5
  <2>10. \A l \in Legs : GuardAtWork(l)'
        BY <2>5, <2>6, <2>9
  <2>7. \A l \in Legs : OneTransfer(l)'
        BY <2>3, <2>4, <2>5
  <2>8. \A l \in Legs : Awaited(l)'
        BY <2>2, <2>5 DEF Quiet, HungUp
  <2> QED BY <2>5, <2>7, <2>8, <2>10
<1>41. ASSUME NEW g \in Legs, GuardUnholds(g) PROVE PartyInv'
  <2>1. Quiet
        BY <1>41, SameQuiet DEF GuardUnholds
  <2> QED BY <1>41, <2>1 DEF Quiet, GuardUnholds, GuardGoes
<1>42. ASSUME NEW g \in Legs, GuardResumes(g) PROVE PartyInv'
  <2>1. Quiet
        BY <1>42, SameQuiet DEF GuardResumes
  <2> QED BY <1>42, <2>1 DEF Quiet, GuardResumes, GuardGoes, NoAction
<1>43. CASE UNCHANGED vars
      BY <1>43 DEF vars, HasStart, Once
<1> QED
  BY <1>1, <1>2, <1>3, <1>4, <1>5, <1>6, <1>7, <1>8, <1>9, <1>10,
     <1>11, <1>12, <1>13, <1>14, <1>15, <1>16, <1>17, <1>18, <1>19,
     <1>20, <1>21, <1>22, <1>23, <1>24, <1>25, <1>26, <1>27, <1>28,
     <1>29, <1>30, <1>31, <1>32, <1>33, <1>34, <1>35, <1>36, <1>37,
     <1>38, <1>39, <1>40, <1>41, <1>42, <1>43
  DEF Next, Tool, Delivery, Cleanup, Handler, Guard

\* The caller never talks to two parties: not to an agent while the provider
\* session runs, and not to the agents of two transfers (attended_transfer and
\* _handle_attended_transfer_answered share one current_action per session).
THEOREM OnePartyAtATime ==
  ASSUME Timely
  PROVE  Spec => []OneParty
<1>1. TransferInv /\ PartyInv => OneParty
  <2> SUFFICES ASSUME TransferInv, PartyInv PROVE OneParty
      OBVIOUS
  <2> talking \subseteq Legs
      BY DEF TransferInv, TypeOK, AsteriskTypes
  <2>1. CASE talking = {}
        BY <2>1, FS_EmptySet DEF OneParty
  <2>2. ASSUME NEW g \in talking PROVE OneParty
    <3>1. \A h \in talking : Adopt(h) = Adopt(g)
          BY <2>2 DEF PartyInv, OneTransfer
    <3>2. \A h \in talking : h = g
          BY <3>1 DEF Adopt
    <3>3. talking = {g} /\ Cardinality({g}) = 1
          BY <2>2, <3>2, FS_Singleton
    <3>4. ~ai
          BY <2>2 DEF PartyInv, OneTransfer
    <3> QED BY <3>3, <3>4 DEF OneParty
  <2> QED BY <2>1, <2>2
<1> QED
  BY <1>1, InitTypes, NextTypes, InitLegs, NextLegs, InitParty, NextParty, PTL
  DEF Spec, Timely

----------------------------------------------------------------------------
(* Nobody is left alone.                                                   *)

HasEnd(s, g) == \E i \in 1..Len(s) : s[i] = Ev("end", g)

\* A step takes no report of the end of a leg.
EndsKept == \A l \in Legs : HasEnd(events, l) => HasEnd(events', l)

\* What a report appended to the queue, or taken from it, does to the reports
\* of ended legs.
LEMMA EndAppended ==
  ASSUME NEW s \in Seq(Event), NEW e \in Event, NEW l \in Legs
  PROVE  HasEnd(Append(s, e), l) <=> HasEnd(s, l) \/ e = Ev("end", l)
<1>1. /\ Len(Append(s, e)) = Len(s) + 1 /\ Len(s) \in Nat
      /\ \A i \in 1..Len(s) : Append(s, e)[i] = s[i]
      /\ Append(s, e)[Len(s) + 1] = e
      BY AppendProperties, LenProperties
<1>2. \A i \in 1..(Len(s) + 1) : i \in 1..Len(s) \/ i = Len(s) + 1
      BY <1>1
<1>3. 1..Len(s) \subseteq 1..(Len(s) + 1) /\ Len(s) + 1 \in 1..(Len(s) + 1)
      BY <1>1
<1> QED BY <1>1, <1>2, <1>3 DEF HasEnd

LEMMA EndTail ==
  ASSUME NEW s \in Seq(Event), s # <<>>, NEW l \in Legs, HasEnd(s, l)
  PROVE  HasEnd(Tail(s), l) \/ Head(s) = Ev("end", l)
<1>1. /\ Len(s) \in Nat \ {0} /\ Len(Tail(s)) = Len(s) - 1
      /\ Head(s) = s[1]
      /\ \A i \in 1..(Len(s) - 1) : Tail(s)[i] = s[i + 1]
      BY HeadTailProperties, LenProperties, EmptySeq
<1>2. PICK i \in 1..Len(s) : s[i] = Ev("end", l)
      BY DEF HasEnd
<1>3. CASE i = 1
      BY <1>1, <1>2, <1>3
<1>4. CASE i # 1
  <2>1. i - 1 \in 1..(Len(s) - 1) /\ (i - 1) + 1 = i
        BY <1>1, <1>4
  <2>2. Tail(s)[i - 1] = Ev("end", l)
        BY <1>1, <1>2, <2>1
  <2> QED BY <1>1, <2>1, <2>2 DEF HasEnd
<1> QED BY <1>3, <1>4

LEMMA SameEnds == events' = events => EndsKept
BY DEF EndsKept

LEMMA SendEnds ==
  ASSUME TypeOK, NEW k \in {"start", "yes", "no", "end"},
         NEW p \in Legs \cup {Caller}, Send(k, p)
  PROVE  EndsKept /\ (k = "end" /\ p \in Legs => HasEnd(events', p))
BY EvTyped, EndAppended DEF Send, EndsKept, TypeOK, AsteriskTypes

LEMMA DeliverEnds ==
  ASSUME TypeOK, NEW k \in {"start", "yes", "no", "end"},
         NEW p \in Legs \cup {Caller}, Deliver(k, p)
  PROVE  \A l \in Legs :
           HasEnd(events, l) => HasEnd(events', l) \/ (k = "end" /\ p = l)
<1>1. events \in Seq(Event)
      BY DEF TypeOK, AsteriskTypes
<1>2. \A l \in Legs : Ev(k, p) = Ev("end", l) => k = "end" /\ p = l
      BY DEF Ev
<1> QED BY <1>1, <1>2, EndTail DEF Deliver

LEMMA StartsHead ==
  ASSUME TypeOK, NEW g \in Legs, events # <<>>, Head(events) = Ev("start", g)
  PROVE  HasStart(events, g)
BY StartTail DEF TypeOK, AsteriskTypes

LEMMA HangupEnds ==
  ASSUME TypeOK, NEW g \in Legs, Hangup(g)
  PROVE  EndsKept
BY SendEnds, SameEnds DEF Hangup

LEMMA VainEnds ==
  ASSUME TypeOK, NEW g \in Legs, DeliverAndHangup("start", g)
  PROVE  EndsKept
<1>1. /\ events \in Seq(Event) /\ events # <<>>
      /\ Head(events) = Ev("start", g)
      BY DEF TypeOK, AsteriskTypes, DeliverAndHangup
<1>2. Tail(events) \in Seq(Event) /\ Ev("end", g) \in Event
      BY <1>1, EventsTyped, EvTyped
<1>3. \A l \in Legs : Ev("start", g) # Ev("end", l)
      BY DEF Ev
<1>4. \A l \in Legs : HasEnd(events, l) => HasEnd(Tail(events), l)
      BY <1>1, <1>3, EndTail
<1>5. CASE leg[g] = "up"
  <2>1. events' = Append(Tail(events), Ev("end", g))
        BY <1>5 DEF DeliverAndHangup
  <2>2. \A l \in Legs : HasEnd(Tail(events), l) => HasEnd(events', l)
        BY <1>2, <2>1, EndAppended
  <2> QED BY <1>4, <2>2 DEF EndsKept
<1>6. CASE leg[g] # "up"
      BY <1>4, <1>6 DEF DeliverAndHangup, EndsKept
<1> QED BY <1>5, <1>6

\* The engine learns of the end of the leg, and resolves it to the call.
Followed(g) == g \in mapped /\ (leg[g] = "up" \/ HasEnd(events, g))

\* The stages of a handler that may still come to connect its leg.
InHand == {"announce", "prompt", "wait", "yes", "accept", "detached", "bridged"}

\* A leg that has answered is mapped, and either up or its end is on its way.
Watched(g) ==
  /\ HasStart(events, g) \/ answer[g] \in InHand => Followed(g)
  /\ leg[g] = "ringing" /\ tool # "dial" => g \in mapped

\* An agent has the caller, or is about to, or has just left.
TakenOver ==
  /\ action.on /\ action.answered
  /\ Followed(action.leg)
  /\ \/ answer[action.leg] = "detached"
     \/ /\ answer[action.leg] \in {"bridged", "over"}
        /\ action.leg \in talking \/ HasEnd(events, action.leg)

WatchInv == cleanup = "no" => \A g \in Legs : Watched(g)
AloneInv == cleanup = "no" => ai \/ TakenOver

LEMMA NextWatch ==
  ASSUME Timely
  PROVE  TransferInv /\ LegsInv /\ PartyInv /\ WatchInv /\ [Next]_vars => WatchInv'
<1> SUFFICES ASSUME TransferInv, LegsInv, PartyInv, WatchInv, [Next]_vars
             PROVE  WatchInv'
    OBVIOUS
<1> TypeOK
    BY DEF TransferInv
<1> USE LegsTyped, LegNumbers DEF NoLeg, Caller
<1> USE DEF LegsInv, LegInv, ReportedOnce, DialledInOrder, Fresh, DroppedStaysDown
<1> USE DEF PartyInv, OneTransfer, Working, Awaited, GuardAtWork, Dialling,
            ToolAtWork, CallAtWork, Adopt
<1> USE DEF TransferInv, TypeOK, DialTypes, AsteriskTypes, SessionTypes,
            EngineTypes, ToolTypes
<1> USE DEF asterisk, session, agent, tools
<1> USE DEF WatchInv, Watched, Followed, InHand
<1>1. CASE CallerLeaves
  <2>1. Quiet /\ EndsKept
        BY <1>1, SendQuiet, SendEnds DEF CallerLeaves
  <2> QED BY <1>1, <2>1 DEF Quiet, EndsKept, CallerLeaves
<1>2. CASE Request
  <2>1. Quiet /\ EndsKept
        BY <1>2, SameQuiet, SameEnds DEF Request
  <2> QED BY <1>2, <2>1 DEF Quiet, EndsKept, Request
<1>3. CASE Cancel
  <2>1. \A l \in Legs : ~HasStart(events, l)
        BY <1>3, StartsAreAnswers DEF Cancel, Timely, Punctual
  <2>2. action.leg \in Legs
        BY <1>3 DEF Cancel
  <2>3. Hangup(action.leg)
        BY <1>3, <2>2 DEF Cancel
  <2>4. Quiet /\ HungUp(action.leg) /\ EndsKept
        BY <2>2, <2>3, HangupQuiet, HangupEnds
  <2>5. /\ mapped' = mapped \ {action.leg}
        /\ tool = "idle" /\ tool' = "cancel" /\ ~action.answered
        /\ cleanup' = cleanup
        /\ CancelWaiter(action.leg)
        BY <1>3, <2>2 DEF Cancel, Unregister
  <2> QED BY <2>1, <2>2, <2>4, <2>5 DEF HungUp, Quiet, EndsKept, CancelWaiter
<1>4. CASE BlindTransfer
  <2>1. Quiet /\ EndsKept
        BY <1>4, SendQuiet, SameQuiet, SendEnds, SameEnds DEF BlindTransfer
  <2> QED BY <1>4, <2>1 DEF Quiet, EndsKept, BlindTransfer
<1>5. CASE Speak
  <2>1. Quiet /\ EndsKept
        BY <1>5, SameQuiet, SameEnds DEF Speak
  <2> QED BY <1>5, <2>1 DEF Quiet, EndsKept, Speak
<1>6. CASE SpeakEnd
  <2>1. Quiet /\ EndsKept
        BY <1>6, SameQuiet, SameEnds DEF SpeakEnd
  <2> QED BY <1>6, <2>1 DEF Quiet, EndsKept, SpeakEnd
<1>7. CASE Dial
  <2>1. Quiet /\ EndsKept
        BY <1>7, SameQuiet, SameEnds DEF Dial
  <2> QED BY <1>7, <2>1 DEF Quiet, EndsKept, Dial, NoAction
<1>8. CASE Dialled
  <2>1. Quiet /\ EndsKept
        BY <1>8, SameQuiet, SameEnds DEF Dialled
  <2> QED BY <1>8, <2>1 DEF Quiet, EndsKept, Dialled, Arm, Return
<1>9. CASE DialledTooLate
  <2>1. Quiet /\ EndsKept
        BY <1>9, SameQuiet, SameEnds DEF DialledTooLate
  <2> QED BY <1>9, <2>1 DEF Quiet, EndsKept, DialledTooLate, Return
<1>10. CASE RefusedUnhold
  <2>1. Quiet /\ EndsKept
        BY <1>10, SameQuiet, SameEnds DEF RefusedUnhold
  <2> QED BY <1>10, <2>1 DEF Quiet, EndsKept, RefusedUnhold
<1>11. CASE RefusedReturn
  <2>1. Quiet /\ EndsKept
        BY <1>11, SameQuiet, SameEnds DEF RefusedReturn
  <2> QED BY <1>11, <2>1 DEF Quiet, EndsKept, RefusedReturn, Return, NoAction
<1>12. CASE CancelUnhold
  <2>1. Quiet /\ EndsKept
        BY <1>12, SameQuiet, SameEnds DEF CancelUnhold
  <2> QED BY <1>12, <2>1 DEF Quiet, EndsKept, CancelUnhold
<1>13. CASE CancelReturn
  <2>1. Quiet /\ EndsKept
        BY <1>13, SameQuiet, SameEnds DEF CancelReturn
  <2> QED BY <1>13, <2>1 DEF Quiet, EndsKept, CancelReturn, Return, NoAction
<1>14. ASSUME NEW g \in Legs, AnsweredInVain(g) PROVE WatchInv'
  <2>1. Quiet /\ HungUp(g) /\ HasStart(events, g) /\ ~HasStart(events', g)
        BY <1>14, VainQuiet DEF AnsweredInVain
  <2>2. EndsKept
        BY <1>14, VainEnds DEF AnsweredInVain
  <2>3. /\ answer' = [answer EXCEPT ![g] = "over"]
        /\ mapped \ {g} \subseteq mapped'
        /\ UNCHANGED <<cleanup, tool>>
        BY <1>14 DEF AnsweredInVain, Unregister, Goes
  <2>4. ASSUME NEW l \in Legs, cleanup = "no" PROVE Watched(l)'
    <3>1. CASE l = g
      <4>1. ~HasStart(events', l) /\ answer'[l] = "over" /\ leg'[l] # "ringing"
            BY <2>1, <2>3, <3>1 DEF HungUp
      <4> QED BY <4>1
    <3>2. CASE l # g
      <4>1. /\ HasStart(events', l) => HasStart(events, l)
            /\ HasEnd(events, l) => HasEnd(events', l)
            /\ leg'[l] = leg[l] /\ answer'[l] = answer[l]
            /\ l \in mapped => l \in mapped'
            BY <2>1, <2>2, <2>3, <3>2 DEF Quiet, EndsKept, HungUp
      <4> QED BY <4>1, <2>3, <2>4
    <3> QED BY <3>1, <3>2
  <2> QED BY <2>3, <2>4
<1>15. ASSUME NEW g \in Legs, Answered(g) PROVE WatchInv'
  <2>1. Quiet /\ HasStart(events, g) /\ ~HasStart(events', g)
        BY <1>15, DeliverQuiet, StartTaken DEF Answered
  <2>2. EndsKept
        BY <1>15, DeliverEnds DEF Answered, EndsKept
  <2> QED BY <1>15, <2>1, <2>2 DEF Quiet, EndsKept, Answered, Goes
<1>16. ASSUME NEW g \in Legs, NEW d \in {"yes", "no"}, Digit(g, d) PROVE WatchInv'
  <2>1. Deliver(d, g)
        BY <1>16 DEF Digit
  <2>2. Quiet /\ EndsKept
        BY <2>1, DeliverQuiet, DeliverEnds DEF EndsKept
  <2> QED BY <1>16, <2>2 DEF Quiet, EndsKept, Digit, Goes
<1>17. ASSUME NEW p \in Legs \cup {Caller}, ChannelEnds(p) PROVE WatchInv'
  <2> SUFFICES ASSUME cleanup' = "no" PROVE WatchInv'
      OBVIOUS
  <2>1. Deliver("end", p) /\ cleanup = "no" /\ ~Resolves(p)
        BY <1>17 DEF ChannelEnds
  <2>2. Quiet
        BY <2>1, DeliverQuiet
  <2>3. p \notin mapped
        BY <2>1 DEF Resolves
  <2>4. \A l \in Legs : l \in mapped /\ HasEnd(events, l) => HasEnd(events', l)
        BY <2>1, <2>3, DeliverEnds
  <2> QED BY <1>17, <2>1, <2>2, <2>4 DEF Quiet, ChannelEnds
<1>18. CASE CleanupSilences
      BY <1>18 DEF CleanupSilences
<1>19. CASE CleanupBridge
      BY <1>19 DEF CleanupBridge
<1>20. CASE CleanupLegs
      BY <1>20 DEF CleanupLegs
<1>21. CASE CleanupCaller
      BY <1>21 DEF CleanupCaller
<1>22. CASE CleanupRemoves
      BY <1>22 DEF CleanupRemoves
<1>23. ASSUME NEW g \in Legs, LegAnswers(g) PROVE WatchInv'
  <2>1. \A l \in Legs : HasStart(events', l) => HasStart(events, l) \/ l = g
        BY <1>23, StartSent DEF LegAnswers
  <2>2. EndsKept
        BY <1>23, SendEnds DEF LegAnswers
  <2> QED BY <1>23, <2>1, <2>2 DEF LegAnswers, EndsKept, Timely, Punctual
<1>24. ASSUME NEW g \in Legs, LegEnds(g) PROVE WatchInv'
  <2>1. Quiet /\ EndsKept /\ (leg[g] = "up" => HasEnd(events', g))
        BY <1>24, SendQuiet, SameQuiet, SendEnds, SameEnds DEF LegEnds
  <2> QED BY <1>24, <2>1 DEF Quiet, EndsKept, LegEnds
<1>25. ASSUME NEW g \in Legs, AnnounceFails(g) PROVE WatchInv'
  <2>0. Hangup(g)
        BY <1>25 DEF AnnounceFails, Drop
  <2>1. Quiet /\ HungUp(g) /\ EndsKept
        BY <2>0, HangupQuiet, HangupEnds
  <2> QED BY <1>25, <2>1 DEF HungUp, Quiet, EndsKept, AnnounceFails, Drop, Unregister, Goes
<1>26. ASSUME NEW g \in Legs, NEW d \in {"yes", "no"}, AgentPresses(g, d) PROVE WatchInv'
  <2>1. Quiet /\ EndsKept
        BY <1>26, SendQuiet, SendEnds DEF AgentPresses
  <2> QED BY <1>26, <2>1 DEF Quiet, EndsKept, AgentPresses
<1>27. ASSUME NEW g \in Legs, Announced(g) PROVE WatchInv'
  <2>1. Quiet /\ EndsKept
        BY <1>27, SameQuiet, SameEnds DEF Announced
  <2> QED BY <1>27, <2>1 DEF Quiet, EndsKept, Announced, Goes
<1>28. ASSUME NEW g \in Legs, Prompted(g) PROVE WatchInv'
  <2>1. Quiet /\ EndsKept
        BY <1>28, SameQuiet, SameEnds DEF Prompted
  <2> QED BY <1>28, <2>1 DEF Quiet, EndsKept, Prompted, Goes
<1>29. ASSUME NEW g \in Legs, WaitTimesOut(g) PROVE WatchInv'
  <2>1. Quiet /\ EndsKept
        BY <1>29, SameQuiet, SameEnds DEF WaitTimesOut
  <2> QED BY <1>29, <2>1 DEF Quiet, EndsKept, WaitTimesOut, Goes
<1>30. ASSUME NEW g \in Legs, DecideWithoutSession(g) PROVE WatchInv'
  <2>1. Quiet /\ EndsKept
        BY <1>30, SameQuiet, SameEnds DEF DecideWithoutSession
  <2> QED BY <1>30, <2>1 DEF Quiet, EndsKept, DecideWithoutSession, Goes
<1>31. ASSUME NEW g \in Legs, Decline(g) PROVE WatchInv'
  <2>0. Hangup(g)
        BY <1>31 DEF Decline, Drop
  <2>1. Quiet /\ HungUp(g) /\ EndsKept
        BY <2>0, HangupQuiet, HangupEnds
  <2> QED BY <1>31, <2>1 DEF HungUp, Quiet, EndsKept, Decline, Drop, Unregister, Goes
<1>32. ASSUME NEW g \in Legs, AbortUnhold(g) PROVE WatchInv'
  <2>1. Quiet /\ EndsKept
        BY <1>32, SameQuiet, SameEnds DEF AbortUnhold
  <2> QED BY <1>32, <2>1 DEF Quiet, EndsKept, AbortUnhold, Goes
<1>33. ASSUME NEW g \in Legs, Apologize(g) PROVE WatchInv'
  <2>1. Quiet /\ EndsKept
        BY <1>33, SameQuiet, SameEnds DEF Apologize
  <2> QED BY <1>33, <2>1 DEF Quiet, EndsKept, Apologize, Goes
<1>34. ASSUME NEW g \in Legs, Resume(g) PROVE WatchInv'
  <2>1. Quiet /\ EndsKept
        BY <1>34, SameQuiet, SameEnds DEF Resume
  <2> QED BY <1>34, <2>1 DEF Quiet, EndsKept, Resume, ResumeAi, Unregister, Goes, NoAction
<1>35. ASSUME NEW g \in Legs, Accept(g) PROVE WatchInv'
  <2>1. Quiet /\ EndsKept
        BY <1>35, SameQuiet, SameEnds DEF Accept
  <2> QED BY <1>35, <2>1 DEF Quiet, EndsKept, Accept, Goes
<1>36. ASSUME NEW g \in Legs, Detach(g) PROVE WatchInv'
  <2>1. Quiet /\ EndsKept
        BY <1>36, SameQuiet, SameEnds DEF Detach
  <2> QED BY <1>36, <2>1 DEF Quiet, EndsKept, Detach, StopAi, Goes
<1>37. ASSUME NEW g \in Legs, Connect(g) PROVE WatchInv'
  <2>1. Quiet /\ EndsKept
        BY <1>37, SameQuiet, SameEnds DEF Connect
  <2> QED BY <1>37, <2>1 DEF Quiet, EndsKept, Connect, Goes
<1>38. ASSUME NEW g \in Legs, Connected(g) PROVE WatchInv'
  <2>1. Quiet /\ EndsKept
        BY <1>38, SameQuiet, SameEnds DEF Connected
  <2> QED BY <1>38, <2>1 DEF Quiet, EndsKept, Connected, Goes, Adopt
<1>39. ASSUME NEW g \in Legs, GuardLeaves(g) PROVE WatchInv'
  <2>1. Quiet /\ EndsKept
        BY <1>39, SameQuiet, SameEnds DEF GuardLeaves
  <2> QED BY <1>39, <2>1 DEF Quiet, EndsKept, GuardLeaves, GuardGoes, CancelWaiter, Unregister
<1>40. ASSUME NEW g \in Legs, GuardHangsUp(g) PROVE WatchInv'
  <2>1. Hangup(g) /\ ~HasStart(events, g)
        BY <1>40, NonePending DEF GuardHangsUp, GuardDue
  <2>2. Quiet /\ HungUp(g) /\ EndsKept
        BY <2>1, HangupQuiet, HangupEnds
  <2>3. \A l \in Legs : answer'[l] = answer[l] \/ (answer[l] = "wait" /\ answer'[l] = "over")
        BY <1>40 DEF GuardHangsUp, CancelWaiter
  <2>4. /\ mapped' = mapped \ {g} /\ ~action.answered
        /\ UNCHANGED <<cleanup, tool>>
        BY <1>40 DEF GuardHangsUp, GuardUnanswered, Unregister
  <2> QED BY <2>1, <2>2, <2>3, <2>4 DEF Quiet, HungUp, EndsKept
<1>41. ASSUME NEW g \in Legs, GuardUnholds(g) PROVE WatchInv'
  <2>1. Quiet /\ EndsKept
        BY <1>41, SameQuiet, SameEnds DEF GuardUnholds
  <2> QED BY <1>41, <2>1 DEF Quiet, EndsKept, GuardUnholds, GuardGoes
<1>42. ASSUME NEW g \in Legs, GuardResumes(g) PROVE WatchInv'
  <2>1. Quiet /\ EndsKept
        BY <1>42, SameQuiet, SameEnds DEF GuardResumes
  <2> QED BY <1>42, <2>1 DEF Quiet, EndsKept, GuardResumes, GuardGoes, NoAction
<1>43. CASE UNCHANGED vars
      BY <1>43 DEF vars, HasStart, Once, HasEnd
<1> QED
  BY <1>1, <1>2, <1>3, <1>4, <1>5, <1>6, <1>7, <1>8, <1>9, <1>10,
     <1>11, <1>12, <1>13, <1>14, <1>15, <1>16, <1>17, <1>18, <1>19,
     <1>20, <1>21, <1>22, <1>23, <1>24, <1>25, <1>26, <1>27, <1>28,
     <1>29, <1>30, <1>31, <1>32, <1>33, <1>34, <1>35, <1>36, <1>37,
     <1>38, <1>39, <1>40, <1>41, <1>42, <1>43
  DEF Next, Tool, Delivery, Cleanup, Handler, Guard

LEMMA InitAlone == Init => WatchInv /\ AloneInv
BY DEF Init, WatchInv, Watched, InHand, HasStart, AloneInv

LEMMA NextAlone ==
  ASSUME Timely
  PROVE  TransferInv /\ LegsInv /\ PartyInv /\ WatchInv /\ AloneInv /\ [Next]_vars
           => AloneInv'
<1> SUFFICES ASSUME TransferInv, LegsInv, PartyInv, WatchInv, AloneInv, [Next]_vars
             PROVE  AloneInv'
    OBVIOUS
<1> TypeOK
    BY DEF TransferInv
<1> USE LegsTyped, LegNumbers DEF NoLeg, Caller
<1> USE DEF PartyInv, OneTransfer, Working, Awaited, GuardAtWork, Dialling,
            ToolAtWork, CallAtWork, Adopt
<1> USE DEF TransferInv, TypeOK, DialTypes, AsteriskTypes, SessionTypes,
            EngineTypes, ToolTypes
<1> USE DEF asterisk, session, agent, tools
<1> USE DEF AloneInv, TakenOver, Followed
<1>1. CASE CallerLeaves
  <2>1. EndsKept
        BY <1>1, SendEnds DEF CallerLeaves
  <2> QED BY <1>1, <2>1 DEF EndsKept, CallerLeaves
<1>2. CASE Request
      BY <1>2 DEF Request
<1>3. CASE Cancel
      BY <1>3 DEF Cancel
<1>4. CASE BlindTransfer
      BY <1>4 DEF BlindTransfer
<1>5. CASE Speak
      BY <1>5 DEF Speak
<1>6. CASE SpeakEnd
  <2>1. EndsKept
        BY <1>6, SameEnds DEF SpeakEnd
  <2> QED BY <1>6, <2>1 DEF EndsKept, SpeakEnd
<1>7. CASE Dial
  <2>1. EndsKept
        BY <1>7, SameEnds DEF Dial
  <2> QED BY <1>7, <2>1 DEF EndsKept, Dial, NoAction
<1>8. CASE Dialled
  <2>1. EndsKept
        BY <1>8, SameEnds DEF Dialled
  <2> QED BY <1>8, <2>1 DEF EndsKept, Dialled, Arm, Return
<1>9. CASE DialledTooLate
  <2>1. EndsKept
        BY <1>9, SameEnds DEF DialledTooLate
  <2> QED BY <1>9, <2>1 DEF EndsKept, DialledTooLate, Return
<1>10. CASE RefusedUnhold
  <2>1. EndsKept
        BY <1>10, SameEnds DEF RefusedUnhold
  <2> QED BY <1>10, <2>1 DEF EndsKept, RefusedUnhold
<1>11. CASE RefusedReturn
  <2>1. EndsKept
        BY <1>11, SameEnds DEF RefusedReturn
  <2> QED BY <1>11, <2>1 DEF EndsKept, RefusedReturn, Return, NoAction
<1>12. CASE CancelUnhold
  <2>1. EndsKept
        BY <1>12, SameEnds DEF CancelUnhold
  <2> QED BY <1>12, <2>1 DEF EndsKept, CancelUnhold
<1>13. CASE CancelReturn
  <2>1. EndsKept
        BY <1>13, SameEnds DEF CancelReturn
  <2> QED BY <1>13, <2>1 DEF EndsKept, CancelReturn, Return, NoAction
<1>14. ASSUME NEW g \in Legs, AnsweredInVain(g) PROVE AloneInv'
  <2>1. HasStart(events, g)
        BY <1>14, StartsHead DEF AnsweredInVain, DeliverAndHangup
  <2>2. ~TakenOver
        BY <2>1
  <2> QED BY <1>14, <2>2 DEF AnsweredInVain
<1>15. ASSUME NEW g \in Legs, Answered(g) PROVE AloneInv'
  <2>1. HasStart(events, g)
        BY <1>15, StartsHead DEF Answered, Deliver
  <2>2. ~TakenOver
        BY <2>1
  <2> QED BY <1>15, <2>2 DEF Answered
<1>16. ASSUME NEW g \in Legs, NEW d \in {"yes", "no"}, Digit(g, d) PROVE AloneInv'
  <2>1. Deliver(d, g)
        BY <1>16 DEF Digit
  <2>2. EndsKept
        BY <2>1, DeliverEnds DEF EndsKept
  <2> QED BY <1>16, <2>2 DEF EndsKept, Digit, Goes
<1>17. ASSUME NEW p \in Legs \cup {Caller}, ChannelEnds(p) PROVE AloneInv'
  <2> SUFFICES ASSUME cleanup' = "no" PROVE AloneInv'
      OBVIOUS
  <2>1. Deliver("end", p) /\ cleanup = "no" /\ ~Resolves(p)
        BY <1>17 DEF ChannelEnds
  <2>3. p \notin mapped
        BY <2>1 DEF Resolves
  <2>4. \A l \in Legs : l \in mapped /\ HasEnd(events, l) => HasEnd(events', l)
        BY <2>1, <2>3, DeliverEnds
  <2> QED BY <1>17, <2>1, <2>4 DEF ChannelEnds
<1>18. CASE CleanupSilences
      BY <1>18 DEF CleanupSilences
<1>19. CASE CleanupBridge
      BY <1>19 DEF CleanupBridge
<1>20. CASE CleanupLegs
      BY <1>20 DEF CleanupLegs
<1>21. CASE CleanupCaller
      BY <1>21 DEF CleanupCaller
<1>22. CASE CleanupRemoves
      BY <1>22 DEF CleanupRemoves
<1>23. ASSUME NEW g \in Legs, LegAnswers(g) PROVE AloneInv'
  <2>1. ~TakenOver
        BY <1>23 DEF LegAnswers
  <2> QED BY <1>23, <2>1 DEF LegAnswers
<1>24. ASSUME NEW g \in Legs, LegEnds(g) PROVE AloneInv'
  <2>1. EndsKept /\ (leg[g] = "up" => HasEnd(events', g))
        BY <1>24, SendEnds, SameEnds DEF LegEnds
  <2> QED BY <1>24, <2>1 DEF EndsKept, LegEnds
<1>25. ASSUME NEW g \in Legs, AnnounceFails(g) PROVE AloneInv'
  <2>1. ~TakenOver
        BY <1>25 DEF AnnounceFails
  <2> QED BY <1>25, <2>1 DEF AnnounceFails, Drop
<1>26. ASSUME NEW g \in Legs, NEW d \in {"yes", "no"}, AgentPresses(g, d) PROVE AloneInv'
  <2>1. EndsKept
        BY <1>26, SendEnds DEF AgentPresses
  <2> QED BY <1>26, <2>1 DEF EndsKept, AgentPresses
<1>27. ASSUME NEW g \in Legs, Announced(g) PROVE AloneInv'
  <2>1. EndsKept
        BY <1>27, SameEnds DEF Announced
  <2> QED BY <1>27, <2>1 DEF EndsKept, Announced, Goes
<1>28. ASSUME NEW g \in Legs, Prompted(g) PROVE AloneInv'
  <2>1. EndsKept
        BY <1>28, SameEnds DEF Prompted
  <2> QED BY <1>28, <2>1 DEF EndsKept, Prompted, Goes
<1>29. ASSUME NEW g \in Legs, WaitTimesOut(g) PROVE AloneInv'
  <2>1. EndsKept
        BY <1>29, SameEnds DEF WaitTimesOut
  <2> QED BY <1>29, <2>1 DEF EndsKept, WaitTimesOut, Goes
<1>30. ASSUME NEW g \in Legs, DecideWithoutSession(g) PROVE AloneInv'
  <2>1. EndsKept
        BY <1>30, SameEnds DEF DecideWithoutSession
  <2> QED BY <1>30, <2>1 DEF EndsKept, DecideWithoutSession, Goes
<1>31. ASSUME NEW g \in Legs, Decline(g) PROVE AloneInv'
  <2>1. ~TakenOver
        BY <1>31 DEF Decline
  <2> QED BY <1>31, <2>1 DEF Decline, Drop
<1>32. ASSUME NEW g \in Legs, AbortUnhold(g) PROVE AloneInv'
  <2>1. EndsKept
        BY <1>32, SameEnds DEF AbortUnhold
  <2> QED BY <1>32, <2>1 DEF EndsKept, AbortUnhold, Goes
<1>33. ASSUME NEW g \in Legs, Apologize(g) PROVE AloneInv'
  <2>1. EndsKept
        BY <1>33, SameEnds DEF Apologize
  <2> QED BY <1>33, <2>1 DEF EndsKept, Apologize, Goes
<1>34. ASSUME NEW g \in Legs, Resume(g) PROVE AloneInv'
  <2>1. ~TakenOver
        BY <1>34 DEF Resume
  <2> QED BY <1>34, <2>1 DEF Resume
<1>35. ASSUME NEW g \in Legs, Accept(g) PROVE AloneInv'
  <2>1. EndsKept
        BY <1>35, SameEnds DEF Accept
  <2> QED BY <1>35, <2>1 DEF EndsKept, Accept, Goes
<1>36. ASSUME NEW g \in Legs, Detach(g) PROVE AloneInv'
  <2> SUFFICES ASSUME cleanup' = "no" PROVE TakenOver'
      OBVIOUS
  <2>1. action = Adopt(g) /\ Followed(g)
        BY <1>36 DEF Detach, WatchInv, Watched, InHand
  <2>2. answer' = [answer EXCEPT ![g] = "detached"]
        /\ UNCHANGED <<action, mapped, leg, events>>
        BY <1>36 DEF Detach, Goes
  <2> QED BY <2>1, <2>2 DEF HasEnd
<1>37. ASSUME NEW g \in Legs, Connect(g) PROVE AloneInv'
  <2> SUFFICES ASSUME cleanup' = "no" PROVE TakenOver'
      OBVIOUS
  <2>1. action = Adopt(g) /\ Followed(g) /\ bridge /\ cleanup = "no"
        BY <1>37 DEF Connect, WatchInv, Watched, InHand
  <2>2. answer' = [answer EXCEPT ![g] = "bridged"]
        /\ UNCHANGED <<action, mapped, leg, events>>
        BY <1>37 DEF Connect, Goes
  <2>3. leg[g] = "up" => g \in talking'
        BY <1>37, <2>1 DEF Connect
  <2> QED BY <2>1, <2>2, <2>3 DEF HasEnd
<1>38. ASSUME NEW g \in Legs, Connected(g) PROVE AloneInv'
  <2>1. action = Adopt(g) /\ action' = Adopt(g)
        BY <1>38 DEF Connected
  <2>2. answer[g] = "bridged" /\ answer' = [answer EXCEPT ![g] = "over"]
        /\ UNCHANGED <<ai, cleanup, mapped, leg, talking, events>>
        BY <1>38 DEF Connected, Goes
  <2> QED BY <2>1, <2>2 DEF HasEnd
<1>39. ASSUME NEW g \in Legs, GuardLeaves(g) PROVE AloneInv'
  <2>1. EndsKept
        BY <1>39, SameEnds DEF GuardLeaves
  <2> QED BY <1>39, <2>1 DEF EndsKept, GuardLeaves, GuardGoes, CancelWaiter, Unregister
<1>40. ASSUME NEW g \in Legs, GuardHangsUp(g) PROVE AloneInv'
  <2>1. ~TakenOver
        BY <1>40 DEF GuardHangsUp, GuardUnanswered
  <2> QED BY <1>40, <2>1 DEF GuardHangsUp
<1>41. ASSUME NEW g \in Legs, GuardUnholds(g) PROVE AloneInv'
  <2>1. EndsKept
        BY <1>41, SameEnds DEF GuardUnholds
  <2> QED BY <1>41, <2>1 DEF EndsKept, GuardUnholds, GuardGoes
<1>42. ASSUME NEW g \in Legs, GuardResumes(g) PROVE AloneInv'
  <2>1. EndsKept
        BY <1>42, SameEnds DEF GuardResumes
  <2> QED BY <1>42, <2>1 DEF EndsKept, GuardResumes, GuardGoes, NoAction
<1>43. CASE UNCHANGED vars
      BY <1>43 DEF vars, HasEnd
<1> QED
  BY <1>1, <1>2, <1>3, <1>4, <1>5, <1>6, <1>7, <1>8, <1>9, <1>10,
     <1>11, <1>12, <1>13, <1>14, <1>15, <1>16, <1>17, <1>18, <1>19,
     <1>20, <1>21, <1>22, <1>23, <1>24, <1>25, <1>26, <1>27, <1>28,
     <1>29, <1>30, <1>31, <1>32, <1>33, <1>34, <1>35, <1>36, <1>37,
     <1>38, <1>39, <1>40, <1>41, <1>42, <1>43
  DEF Next, Tool, Delivery, Cleanup, Handler, Guard

\* When nothing is at work on a call that goes on, the caller has the AI or an
\* agent to talk to: once the provider session is stopped (the handler of an
\* accepted transfer), the agent's leg is in the bridge, or its end ends the
\* call - the mapping it is resolved by is kept all along.
THEOREM NeverAlone ==
  ASSUME Timely
  PROVE  Spec => []NobodyAlone
<1>1. TransferInv /\ AloneInv => NobodyAlone
  <2> SUFFICES ASSUME TransferInv, AloneInv, AtRest, cleanup = "no", ~ai
               PROVE  talking # {}
      BY DEF NobodyAlone
  <2>1. action.leg \in Legs
        BY DEF TransferInv, TypeOK, SessionTypes, AloneInv, TakenOver, NoLeg
  <2>2. answer[action.leg] # "detached" /\ ~HasEnd(events, action.leg)
        BY <2>1 DEF AtRest, HasEnd
  <2> QED BY <2>2 DEF AloneInv, TakenOver
<1> QED
  BY <1>1, InitTypes, NextTypes, InitLegs, NextLegs, InitParty, NextParty,
     InitAlone, NextWatch, NextAlone, PTL
  DEF Spec, Timely

----------------------------------------------------------------------------
(* The mappings of a call that is over.                                    *)

\* A call that is over has no mapping, and no task that would add one: the tool
\* that dials finds no session, an answer that is handled later finds no action.
ReleasedInv ==
  cleanup = "done" =>
    /\ mapped = {} /\ tool # "hold"
    /\ stored => ~Dialling /\ (action.on => action.answered)

LEMMA NextReleased ==
  ASSUME Timely, "slow_hold" \notin Timing
  PROVE  TransferInv /\ LegsInv /\ PartyInv /\ ReleasedInv /\ [Next]_vars
           => ReleasedInv'
<1> SUFFICES ASSUME TransferInv, LegsInv, PartyInv, ReleasedInv, [Next]_vars
             PROVE  ReleasedInv'
    OBVIOUS
<1> TypeOK
    BY DEF TransferInv
<1> USE LegsTyped, LegNumbers DEF NoLeg, Caller
<1> USE DEF PartyInv, OneTransfer, Working, Awaited, GuardAtWork, Dialling,
            ToolAtWork, CallAtWork, Adopt
<1> USE DEF TransferInv, TypeOK, DialTypes, AsteriskTypes, SessionTypes,
            EngineTypes, ToolTypes
<1> USE DEF asterisk, session, agent, tools
<1> USE DEF ReleasedInv
<1>1. CASE CallerLeaves
      BY <1>1 DEF CallerLeaves
<1>2. CASE Request
      BY <1>2 DEF Request
<1>3. CASE Cancel
      BY <1>3 DEF Cancel
<1>4. CASE BlindTransfer
      BY <1>4 DEF BlindTransfer
<1>5. CASE Speak
      BY <1>5 DEF Speak
<1>6. CASE SpeakEnd
      BY <1>6 DEF SpeakEnd
<1>7. CASE Dial
      BY <1>7 DEF Dial
<1>8. CASE Dialled
      BY <1>8 DEF Dialled, Return, Arm
<1>9. CASE DialledTooLate
      BY <1>9 DEF DialledTooLate, Return
<1>10. CASE RefusedUnhold
      BY <1>10 DEF RefusedUnhold
<1>11. CASE RefusedReturn
      BY <1>11 DEF RefusedReturn, Return, NoAction
<1>12. CASE CancelUnhold
      BY <1>12 DEF CancelUnhold
<1>13. CASE CancelReturn
      BY <1>13 DEF CancelReturn, Return, NoAction
<1>14. ASSUME NEW g \in Legs, AnsweredInVain(g) PROVE ReleasedInv'
      BY <1>14 DEF AnsweredInVain, Unregister
<1>15. ASSUME NEW g \in Legs, Answered(g) PROVE ReleasedInv'
  <2>1. HasStart(events, g)
        BY <1>15, StartsHead DEF Answered, Deliver
  <2>2. action.on /\ ~action.answered
        BY <2>1
  <2> QED BY <1>15, <2>2 DEF Answered
<1>16. ASSUME NEW g \in Legs, NEW d \in {"yes", "no"}, Digit(g, d) PROVE ReleasedInv'
      BY <1>16 DEF Digit
<1>17. ASSUME NEW p \in Legs \cup {Caller}, ChannelEnds(p) PROVE ReleasedInv'
      BY <1>17 DEF ChannelEnds
<1>18. CASE CleanupSilences
      BY <1>18 DEF CleanupSilences
<1>19. CASE CleanupBridge
      BY <1>19 DEF CleanupBridge
<1>20. CASE CleanupLegs
      BY <1>20 DEF CleanupLegs
<1>21. CASE CleanupCaller
      BY <1>21 DEF CleanupCaller
<1>22. CASE CleanupRemoves
      BY <1>22 DEF CleanupRemoves, ForgetMappings
<1>23. ASSUME NEW g \in Legs, LegAnswers(g) PROVE ReleasedInv'
      BY <1>23 DEF LegAnswers
<1>24. ASSUME NEW g \in Legs, LegEnds(g) PROVE ReleasedInv'
      BY <1>24 DEF LegEnds
<1>25. ASSUME NEW g \in Legs, AnnounceFails(g) PROVE ReleasedInv'
      BY <1>25 DEF AnnounceFails, Drop, Unregister
<1>26. ASSUME NEW g \in Legs, NEW d \in {"yes", "no"}, AgentPresses(g, d) PROVE ReleasedInv'
      BY <1>26 DEF AgentPresses
<1>27. ASSUME NEW g \in Legs, Announced(g) PROVE ReleasedInv'
      BY <1>27 DEF Announced
<1>28. ASSUME NEW g \in Legs, Prompted(g) PROVE ReleasedInv'
      BY <1>28 DEF Prompted
<1>29. ASSUME NEW g \in Legs, WaitTimesOut(g) PROVE ReleasedInv'
      BY <1>29 DEF WaitTimesOut
<1>30. ASSUME NEW g \in Legs, DecideWithoutSession(g) PROVE ReleasedInv'
      BY <1>30 DEF DecideWithoutSession
<1>31. ASSUME NEW g \in Legs, Decline(g) PROVE ReleasedInv'
      BY <1>31 DEF Decline, Drop, Unregister
<1>32. ASSUME NEW g \in Legs, AbortUnhold(g) PROVE ReleasedInv'
      BY <1>32 DEF AbortUnhold
<1>33. ASSUME NEW g \in Legs, Apologize(g) PROVE ReleasedInv'
      BY <1>33 DEF Apologize
<1>34. ASSUME NEW g \in Legs, Resume(g) PROVE ReleasedInv'
      BY <1>34 DEF Resume, ResumeAi, NoAction, Unregister
<1>35. ASSUME NEW g \in Legs, Accept(g) PROVE ReleasedInv'
      BY <1>35 DEF Accept
<1>36. ASSUME NEW g \in Legs, Detach(g) PROVE ReleasedInv'
      BY <1>36 DEF Detach
<1>37. ASSUME NEW g \in Legs, Connect(g) PROVE ReleasedInv'
      BY <1>37 DEF Connect
<1>38. ASSUME NEW g \in Legs, Connected(g) PROVE ReleasedInv'
      BY <1>38 DEF Connected
<1>39. ASSUME NEW g \in Legs, GuardLeaves(g) PROVE ReleasedInv'
      BY <1>39 DEF GuardLeaves, Unregister
<1>40. ASSUME NEW g \in Legs, GuardHangsUp(g) PROVE ReleasedInv'
      BY <1>40 DEF GuardHangsUp, Unregister
<1>41. ASSUME NEW g \in Legs, GuardUnholds(g) PROVE ReleasedInv'
      BY <1>41 DEF GuardUnholds
<1>42. ASSUME NEW g \in Legs, GuardResumes(g) PROVE ReleasedInv'
      BY <1>42 DEF GuardResumes, NoAction
<1>43. CASE UNCHANGED vars
      BY <1>43 DEF vars
<1> QED
  BY <1>1, <1>2, <1>3, <1>4, <1>5, <1>6, <1>7, <1>8, <1>9, <1>10,
     <1>11, <1>12, <1>13, <1>14, <1>15, <1>16, <1>17, <1>18, <1>19,
     <1>20, <1>21, <1>22, <1>23, <1>24, <1>25, <1>26, <1>27, <1>28,
     <1>29, <1>30, <1>31, <1>32, <1>33, <1>34, <1>35, <1>36, <1>37,
     <1>38, <1>39, <1>40, <1>41, <1>42, <1>43
  DEF Next, Tool, Delivery, Cleanup, Handler, Guard

\* No agent channel stays mapped to a call that is over, whatever tools and
\* handlers _cleanup_call finds at work, unless the request that puts the caller
\* on hold outlasts the whole cleanup.
THEOREM MappingsGoWithTheCall ==
  ASSUME Timely, "slow_hold" \notin Timing
  PROVE  Spec => [](MappingsReleased /\ (cleanup = "done" => mapped = {}))
<1>1. ReleasedInv => MappingsReleased /\ (cleanup = "done" => mapped = {})
      BY DEF ReleasedInv, MappingsReleased
<1>2. Init => ReleasedInv
      BY DEF Init, ReleasedInv
<1> QED
  BY <1>1, <1>2, InitTypes, NextTypes, InitLegs, NextLegs, InitParty, NextParty,
     NextReleased, PTL
  DEF Spec, Timely
=============================================================================
