--------------------------- MODULE TransferProofs ---------------------------
(* Proofs about AttendedTransfer: its types, and that the teardown of a leg  *)
(* the engine hangs up never starts the cleanup of the call, for any number  *)
(* of transfers of one call.                                                 *)
EXTENDS AttendedTransfer, SequenceTheorems, TLAPS

----------------------------------------------------------------------------
(* Types.                                                                  *)

\* What the types need to last: the tool that dials has a leg to dial.
DialTypes ==
  /\ tool = "hold" => callee < MaxLegs
  /\ tool = "dial" => callee \in Legs

TransferInv == TypeOK /\ DialTypes

LEMMA EventsTyped ==
  ASSUME NEW s \in Seq(Event)
  PROVE  /\ \A e \in Event : Append(s, e) \in Seq(Event)
         /\ s # <<>> => /\ Head(s) \in Event
                        /\ Tail(s) \in Seq(Event)
OBVIOUS

LEMMA EvTyped ==
  ASSUME NEW k \in {"start", "yes", "no", "end"}, NEW p \in Legs \cup {Caller}
  PROVE  Ev(k, p) \in Event
BY DEF Ev, Event

\* A request that ends a leg leaves the channels and the events typed.
LEMMA SendTyped ==
  ASSUME events \in Seq(Event),
         NEW k \in {"start", "yes", "no", "end"}, NEW p \in Legs \cup {Caller},
         Send(k, p)
  PROVE  events' \in Seq(Event)
BY EvTyped, EventsTyped DEF Send

LEMMA HangupTyped ==
  ASSUME AsteriskTypes, NEW g \in Legs, Hangup(g)
  PROVE  /\ leg' \in [Legs -> LegState]
         /\ talking' \subseteq Legs
         /\ events' \in Seq(Event)
<1>1. CASE leg[g] \in {"ringing", "up"}
      BY <1>1, SendTyped DEF Hangup, AsteriskTypes, LegState
<1>2. CASE leg[g] \notin {"ringing", "up"}
      BY <1>2 DEF Hangup, AsteriskTypes
<1> QED BY <1>1, <1>2

LEMMA DeliverAndHangupTyped ==
  ASSUME AsteriskTypes, NEW k \in {"start"}, NEW g \in Legs,
         DeliverAndHangup(k, g)
  PROVE  /\ leg' \in [Legs -> LegState]
         /\ talking' \subseteq Legs
         /\ events' \in Seq(Event)
<1>1. events \in Seq(Event) /\ events # <<>>
      BY DEF AsteriskTypes, DeliverAndHangup
<1>2. Tail(events) \in Seq(Event) /\ Ev("end", g) \in Event
      BY <1>1, EventsTyped, EvTyped
<1>3. Append(Tail(events), Ev("end", g)) \in Seq(Event)
      BY <1>2, EventsTyped
<1>4. events' \in Seq(Event)
      BY <1>2, <1>3 DEF DeliverAndHangup
<1>5. leg' = [leg EXCEPT ![g] = "gone"] \/ leg' = leg
      BY DEF DeliverAndHangup
<1>6. talking' = talking \ {g} \/ talking' = talking
      BY DEF DeliverAndHangup
<1>7. leg' \in [Legs -> LegState] /\ talking' \subseteq Legs
      BY <1>5, <1>6 DEF AsteriskTypes, LegState
<1> QED BY <1>4, <1>7

LEMMA LegsTyped == 0 \notin Legs /\ Legs \subseteq Int
BY DEF Legs

LEMMA InitTypes == Init => TransferInv
<1> SUFFICES ASSUME Init PROVE TransferInv
    OBVIOUS
<1>1. events \in Seq(Event)
      BY DEF Init
<1>2. AsteriskTypes
      BY <1>1 DEF Init, AsteriskTypes, LegState
<1>3. SessionTypes
      BY DEF Init, SessionTypes, NoAction, NoLeg
<1>4. EngineTypes
      BY DEF Init, EngineTypes, AnswerState, GuardState, CleanupState
<1>5. ToolTypes /\ DialTypes
      BY DEF Init, ToolTypes, ToolState, DialTypes, NoLeg
<1> QED BY <1>2, <1>3, <1>4, <1>5 DEF TransferInv, TypeOK

LEMMA NextTypes == TransferInv /\ [Next]_vars => TransferInv'
<1> SUFFICES ASSUME TransferInv, [Next]_vars PROVE TransferInv'
    OBVIOUS
<1> USE TransferAssumption, LegsTyped DEF NoLeg, Caller
<1> USE DEF TransferInv, TypeOK, DialTypes, AsteriskTypes, SessionTypes, EngineTypes, ToolTypes
<1> USE DEF asterisk, session, agent, tools
<1>1. CASE CallerLeaves
  <2>1. events' \in Seq(Event)
        BY <1>1, SendTyped DEF CallerLeaves, AsteriskTypes
  <2>2. AsteriskTypes'
        BY <1>1, <2>1 DEF CallerLeaves, LegState
  <2>3. SessionTypes'
        BY <1>1 DEF CallerLeaves
  <2>4. EngineTypes'
        BY <1>1 DEF CallerLeaves
  <2>5. ToolTypes' /\ DialTypes'
        BY <1>1 DEF CallerLeaves
  <2> QED BY <2>2, <2>3, <2>4, <2>5 DEF TransferInv, TypeOK
<1>2. CASE Request
  <2>1. events' \in Seq(Event)
        BY <1>2 DEF Request, AsteriskTypes
  <2>2. AsteriskTypes'
        BY <1>2, <2>1 DEF Request, LegState
  <2>3. SessionTypes'
        BY <1>2 DEF Request
  <2>4. EngineTypes'
        BY <1>2 DEF Request
  <2>5. ToolTypes' /\ DialTypes'
        BY <1>2 DEF Request, ToolState
  <2> QED BY <2>2, <2>3, <2>4, <2>5 DEF TransferInv, TypeOK
<1>3. CASE Cancel
  <2>1. action.leg \in Legs \/ action.leg = NoLeg
        OBVIOUS
  <2>2. \/ /\ action.leg \in Legs /\ Hangup(action.leg)
           /\ dropped' = dropped \cup {action.leg}
        \/ UNCHANGED <<leg, talking, events, dropped>>
        BY <1>3, <2>1 DEF Cancel
  <2>3. /\ leg' \in [Legs -> LegState] /\ talking' \subseteq Legs
        /\ events' \in Seq(Event) /\ dropped' \subseteq Legs
        BY <2>2, HangupTyped
  <2>4. UNCHANGED <<caller, moh, bridge, callee, reply>> /\ tool' = "cancel"
        BY <1>3 DEF Cancel
  <2>5. AsteriskTypes' /\ ToolTypes' /\ DialTypes'
        BY <2>3, <2>4 DEF ToolState
  <2>6. SessionTypes'
        BY <1>3 DEF Cancel
  <2>7. /\ mapped' \subseteq Legs
        /\ digit' \in [Legs -> {"none", "yes", "no"}]
        /\ answer' \in [Legs -> AnswerState]
    <3>1. CASE action.leg \in Legs
      <4>1. /\ mapped' = mapped \ {action.leg}
            /\ digit' = [digit EXCEPT ![action.leg] = "none"]
            /\ CancelWaiter(action.leg)
            BY <1>3, <3>1 DEF Cancel, Unregister
      <4> QED BY <4>1 DEF CancelWaiter, AnswerState
    <3>2. CASE action.leg = NoLeg
      <4>1. UNCHANGED <<mapped, digit, answer>>
            BY <1>3, <3>2 DEF Cancel
      <4> QED BY <4>1
    <3> QED BY <2>1, <3>1, <3>2
  <2>8. EngineTypes'
        BY <1>3, <2>7 DEF Cancel
  <2> QED BY <2>5, <2>6, <2>8 DEF TransferInv, TypeOK
<1>4. CASE BlindTransfer
  <2>1. events' \in Seq(Event)
        BY <1>4, SendTyped DEF BlindTransfer, AsteriskTypes
  <2>2. AsteriskTypes'
        BY <1>4, <2>1 DEF BlindTransfer, LegState
  <2>3. SessionTypes'
        BY <1>4 DEF BlindTransfer, NoAction
  <2>4. EngineTypes'
        BY <1>4 DEF BlindTransfer
  <2>5. ToolTypes' /\ DialTypes'
        BY <1>4 DEF BlindTransfer
  <2> QED BY <2>2, <2>3, <2>4, <2>5 DEF TransferInv, TypeOK
<1>5. CASE Speak
  <2>1. events' \in Seq(Event)
        BY <1>5 DEF Speak, AsteriskTypes
  <2>2. AsteriskTypes'
        BY <1>5, <2>1 DEF Speak
  <2>3. SessionTypes'
        BY <1>5 DEF Speak, NoAction
  <2>4. EngineTypes'
        BY <1>5 DEF Speak
  <2>5. ToolTypes' /\ DialTypes'
        BY <1>5 DEF Speak, ToolState
  <2> QED BY <2>2, <2>3, <2>4, <2>5 DEF TransferInv, TypeOK
<1>6. CASE SpeakEnd
  <2>1. events' \in Seq(Event)
        BY <1>6 DEF SpeakEnd, AsteriskTypes
  <2>2. AsteriskTypes'
        BY <1>6, <2>1 DEF SpeakEnd
  <2>3. SessionTypes'
        BY <1>6 DEF SpeakEnd, NoAction
  <2>4. EngineTypes'
        BY <1>6 DEF SpeakEnd
  <2>5. ToolTypes' /\ DialTypes'
        BY <1>6 DEF SpeakEnd
  <2> QED BY <2>2, <2>3, <2>4, <2>5 DEF TransferInv, TypeOK
<1>7. CASE Dial
  <2>1. events' \in Seq(Event)
        BY <1>7 DEF Dial, AsteriskTypes
  <2>2. tool = "hold" /\ callee + 1 \in Legs
        BY <1>7 DEF Dial, Legs
  <2>3. AsteriskTypes'
        BY <1>7, <2>2, <2>1 DEF Dial, LegState
  <2>4. SessionTypes'
        BY <1>7, <2>2 DEF Dial, NoAction
  <2>5. EngineTypes'
        BY <1>7, <2>2 DEF Dial
  <2>6. ToolTypes' /\ DialTypes'
        BY <1>7, <2>2 DEF Dial, ToolState
  <2> QED BY <2>3, <2>4, <2>5, <2>6 DEF TransferInv, TypeOK
<1>8. CASE Dialled
  <2>1. events' \in Seq(Event)
        BY <1>8 DEF Dialled, Arm, Return, AsteriskTypes
  <2>2. AsteriskTypes'
        BY <1>8, <2>1 DEF Dialled
  <2>3. SessionTypes'
        BY <1>8 DEF Dialled, Arm, Return, NoAction
  <2>4. EngineTypes'
        BY <1>8 DEF Dialled, Arm, Return, AnswerState, GuardState, CleanupState
  <2>5. ToolTypes' /\ DialTypes'
        BY <1>8 DEF Dialled, Arm, Return, ToolState
  <2> QED BY <2>2, <2>3, <2>4, <2>5 DEF TransferInv, TypeOK
<1>9. CASE DialledTooLate
  <2>1. events' \in Seq(Event)
        BY <1>9 DEF DialledTooLate, Return, AsteriskTypes
  <2>2. AsteriskTypes'
        BY <1>9, <2>1 DEF DialledTooLate
  <2>3. SessionTypes'
        BY <1>9 DEF DialledTooLate
  <2>4. EngineTypes'
        BY <1>9 DEF DialledTooLate
  <2>5. ToolTypes' /\ DialTypes'
        BY <1>9 DEF DialledTooLate, Return, ToolState
  <2> QED BY <2>2, <2>3, <2>4, <2>5 DEF TransferInv, TypeOK
<1>10. CASE RefusedUnhold
  <2>1. events' \in Seq(Event)
        BY <1>10 DEF RefusedUnhold, AsteriskTypes
  <2>2. AsteriskTypes'
        BY <1>10, <2>1 DEF RefusedUnhold, LegState
  <2>3. SessionTypes'
        BY <1>10 DEF RefusedUnhold
  <2>4. EngineTypes'
        BY <1>10 DEF RefusedUnhold
  <2>5. ToolTypes' /\ DialTypes'
        BY <1>10 DEF RefusedUnhold, ToolState
  <2> QED BY <2>2, <2>3, <2>4, <2>5 DEF TransferInv, TypeOK
<1>11. CASE RefusedReturn
  <2>1. events' \in Seq(Event)
        BY <1>11 DEF RefusedReturn, Return, NoAction, AsteriskTypes
  <2>2. AsteriskTypes'
        BY <1>11, <2>1 DEF RefusedReturn
  <2>3. SessionTypes'
        BY <1>11 DEF RefusedReturn, Return, NoAction, NoAction
  <2>4. EngineTypes'
        BY <1>11 DEF RefusedReturn
  <2>5. ToolTypes' /\ DialTypes'
        BY <1>11 DEF RefusedReturn, Return, NoAction, ToolState
  <2> QED BY <2>2, <2>3, <2>4, <2>5 DEF TransferInv, TypeOK
<1>12. CASE CancelUnhold
  <2>1. events' \in Seq(Event)
        BY <1>12 DEF CancelUnhold, AsteriskTypes
  <2>2. AsteriskTypes'
        BY <1>12, <2>1 DEF CancelUnhold, LegState
  <2>3. SessionTypes'
        BY <1>12 DEF CancelUnhold
  <2>4. EngineTypes'
        BY <1>12 DEF CancelUnhold
  <2>5. ToolTypes' /\ DialTypes'
        BY <1>12 DEF CancelUnhold, ToolState
  <2> QED BY <2>2, <2>3, <2>4, <2>5 DEF TransferInv, TypeOK
<1>13. CASE CancelReturn
  <2>1. events' \in Seq(Event)
        BY <1>13 DEF CancelReturn, Return, NoAction, AsteriskTypes
  <2>2. AsteriskTypes'
        BY <1>13, <2>1 DEF CancelReturn
  <2>3. SessionTypes'
        BY <1>13 DEF CancelReturn, Return, NoAction, NoAction
  <2>4. EngineTypes'
        BY <1>13 DEF CancelReturn
  <2>5. ToolTypes' /\ DialTypes'
        BY <1>13 DEF CancelReturn, Return, NoAction, ToolState
  <2> QED BY <2>2, <2>3, <2>4, <2>5 DEF TransferInv, TypeOK
<1>14. ASSUME NEW g \in Legs, AnsweredInVain(g) PROVE TransferInv'
  <2>1. events' \in Seq(Event)
        BY <1>14, DeliverAndHangupTyped DEF AnsweredInVain, Goes, Unregister, AsteriskTypes
  <2>2. AsteriskTypes'
        BY <1>14, <2>1, DeliverAndHangupTyped DEF AnsweredInVain, Goes, Unregister, LegState
  <2>3. SessionTypes'
        BY <1>14 DEF AnsweredInVain
  <2>4. EngineTypes'
        BY <1>14 DEF AnsweredInVain, Goes, Unregister, AnswerState, GuardState, CleanupState
  <2>5. ToolTypes' /\ DialTypes'
        BY <1>14 DEF AnsweredInVain, Goes, Unregister, ToolState
  <2> QED BY <2>2, <2>3, <2>4, <2>5 DEF TransferInv, TypeOK
<1>15. ASSUME NEW g \in Legs, Answered(g) PROVE TransferInv'
  <2>1. events' \in Seq(Event)
        BY <1>15, EventsTyped DEF Answered, Deliver, Adopt, Goes, AsteriskTypes
  <2>2. AsteriskTypes'
        BY <1>15, <2>1 DEF Answered
  <2>3. SessionTypes'
        BY <1>15 DEF Answered, Deliver, Adopt, Goes, NoAction
  <2>4. EngineTypes'
        BY <1>15 DEF Answered, Deliver, Adopt, Goes, AnswerState, GuardState, CleanupState
  <2>5. ToolTypes' /\ DialTypes'
        BY <1>15 DEF Answered
  <2> QED BY <2>2, <2>3, <2>4, <2>5 DEF TransferInv, TypeOK
<1>16. ASSUME NEW g \in Legs, NEW d \in {"yes", "no"}, Digit(g, d) PROVE TransferInv'
  <2>1. events' \in Seq(Event)
        BY <1>16, EventsTyped DEF Digit, Deliver, Goes, AsteriskTypes
  <2>2. AsteriskTypes'
        BY <1>16, <2>1 DEF Digit
  <2>3. SessionTypes'
        BY <1>16 DEF Digit
  <2>4. EngineTypes'
        BY <1>16 DEF Digit, Deliver, Goes, AnswerState, GuardState, CleanupState
  <2>5. ToolTypes' /\ DialTypes'
        BY <1>16 DEF Digit
  <2> QED BY <2>2, <2>3, <2>4, <2>5 DEF TransferInv, TypeOK
<1>17. ASSUME NEW p \in Legs \cup {Caller}, ChannelEnds(p) PROVE TransferInv'
  <2>1. events' \in Seq(Event)
        BY <1>17, EventsTyped DEF ChannelEnds, Deliver, AsteriskTypes
  <2>2. AsteriskTypes'
        BY <1>17, <2>1 DEF ChannelEnds
  <2>3. SessionTypes'
        BY <1>17 DEF ChannelEnds
  <2>4. EngineTypes'
        BY <1>17 DEF ChannelEnds, Deliver, AnswerState, GuardState, CleanupState
  <2>5. ToolTypes' /\ DialTypes'
        BY <1>17 DEF ChannelEnds
  <2> QED BY <2>2, <2>3, <2>4, <2>5 DEF TransferInv, TypeOK
<1>18. CASE CleanupSilences
  <2>1. events' \in Seq(Event)
        BY <1>18 DEF CleanupSilences, AsteriskTypes
  <2>2. AsteriskTypes'
        BY <1>18, <2>1 DEF CleanupSilences
  <2>3. SessionTypes'
        BY <1>18 DEF CleanupSilences
  <2>4. EngineTypes'
        BY <1>18 DEF CleanupSilences, AnswerState, GuardState, CleanupState
  <2>5. ToolTypes' /\ DialTypes'
        BY <1>18 DEF CleanupSilences
  <2> QED BY <2>2, <2>3, <2>4, <2>5 DEF TransferInv, TypeOK
<1>19. CASE CleanupBridge
  <2>1. events' \in Seq(Event)
        BY <1>19 DEF CleanupBridge, AsteriskTypes
  <2>2. AsteriskTypes'
        BY <1>19, <2>1 DEF CleanupBridge, LegState
  <2>3. SessionTypes'
        BY <1>19 DEF CleanupBridge
  <2>4. EngineTypes'
        BY <1>19 DEF CleanupBridge, AnswerState, GuardState, CleanupState
  <2>5. ToolTypes' /\ DialTypes'
        BY <1>19 DEF CleanupBridge
  <2> QED BY <2>2, <2>3, <2>4, <2>5 DEF TransferInv, TypeOK
<1>20. CASE CleanupLegs
  <2>1. events' \in Seq(Event)
        BY <1>20, HangupTyped DEF CleanupLegs, ActionLegs, AsteriskTypes
  <2>2. AsteriskTypes'
        BY <1>20, <2>1, HangupTyped DEF CleanupLegs, ActionLegs, LegState
  <2>3. SessionTypes'
        BY <1>20 DEF CleanupLegs
  <2>4. EngineTypes'
        BY <1>20 DEF CleanupLegs, ActionLegs, AnswerState, GuardState, CleanupState
  <2>5. ToolTypes' /\ DialTypes'
        BY <1>20 DEF CleanupLegs
  <2> QED BY <2>2, <2>3, <2>4, <2>5 DEF TransferInv, TypeOK
<1>21. CASE CleanupCaller
  <2>1. events' \in Seq(Event)
        BY <1>21, SendTyped DEF CleanupCaller, AsteriskTypes
  <2>2. AsteriskTypes'
        BY <1>21, <2>1 DEF CleanupCaller, LegState
  <2>3. SessionTypes'
        BY <1>21 DEF CleanupCaller
  <2>4. EngineTypes'
        BY <1>21 DEF CleanupCaller, AnswerState, GuardState, CleanupState
  <2>5. ToolTypes' /\ DialTypes'
        BY <1>21 DEF CleanupCaller
  <2> QED BY <2>2, <2>3, <2>4, <2>5 DEF TransferInv, TypeOK
<1>22. CASE CleanupRemoves
  <2>1. events' \in Seq(Event)
        BY <1>22 DEF CleanupRemoves, ForgetMappings, AsteriskTypes
  <2>2. AsteriskTypes'
        BY <1>22, <2>1 DEF CleanupRemoves
  <2>3. SessionTypes'
        BY <1>22 DEF CleanupRemoves, ForgetMappings, NoAction
  <2>4. EngineTypes'
        BY <1>22 DEF CleanupRemoves, ForgetMappings, AnswerState, GuardState, CleanupState
  <2>5. ToolTypes' /\ DialTypes'
        BY <1>22 DEF CleanupRemoves, ForgetMappings, ToolState
  <2> QED BY <2>2, <2>3, <2>4, <2>5 DEF TransferInv, TypeOK
<1>23. ASSUME NEW g \in Legs, LegAnswers(g) PROVE TransferInv'
  <2>1. events' \in Seq(Event)
        BY <1>23, SendTyped DEF LegAnswers, AsteriskTypes
  <2>2. AsteriskTypes'
        BY <1>23, <2>1 DEF LegAnswers, LegState
  <2>3. SessionTypes'
        BY <1>23 DEF LegAnswers
  <2>4. EngineTypes'
        BY <1>23 DEF LegAnswers
  <2>5. ToolTypes' /\ DialTypes'
        BY <1>23 DEF LegAnswers
  <2> QED BY <2>2, <2>3, <2>4, <2>5 DEF TransferInv, TypeOK
<1>24. ASSUME NEW g \in Legs, LegEnds(g) PROVE TransferInv'
  <2>1. events' \in Seq(Event)
        BY <1>24, SendTyped DEF LegEnds, AsteriskTypes
  <2>2. AsteriskTypes'
        BY <1>24, <2>1 DEF LegEnds, LegState
  <2>3. SessionTypes'
        BY <1>24 DEF LegEnds
  <2>4. EngineTypes'
        BY <1>24 DEF LegEnds
  <2>5. ToolTypes' /\ DialTypes'
        BY <1>24 DEF LegEnds
  <2> QED BY <2>2, <2>3, <2>4, <2>5 DEF TransferInv, TypeOK
<1>25. ASSUME NEW g \in Legs, AnnounceFails(g) PROVE TransferInv'
  <2>1. events' \in Seq(Event)
        BY <1>25, HangupTyped DEF AnnounceFails, Drop, Unregister, Goes, AsteriskTypes
  <2>2. AsteriskTypes'
        BY <1>25, <2>1, HangupTyped DEF AnnounceFails, Drop, Unregister, Goes, LegState
  <2>3. SessionTypes'
        BY <1>25 DEF AnnounceFails, Drop
  <2>4. EngineTypes'
        BY <1>25 DEF AnnounceFails, Drop, Unregister, Goes, AnswerState, GuardState, CleanupState
  <2>5. ToolTypes' /\ DialTypes'
        BY <1>25 DEF AnnounceFails, Drop, Unregister, Goes, ToolState
  <2> QED BY <2>2, <2>3, <2>4, <2>5 DEF TransferInv, TypeOK
<1>26. ASSUME NEW g \in Legs, NEW d \in {"yes", "no"}, AgentPresses(g, d) PROVE TransferInv'
  <2>1. events' \in Seq(Event)
        BY <1>26, SendTyped DEF AgentPresses, AsteriskTypes
  <2>2. AsteriskTypes'
        BY <1>26, <2>1 DEF AgentPresses
  <2>3. SessionTypes'
        BY <1>26 DEF AgentPresses
  <2>4. EngineTypes'
        BY <1>26 DEF AgentPresses
  <2>5. ToolTypes' /\ DialTypes'
        BY <1>26 DEF AgentPresses
  <2> QED BY <2>2, <2>3, <2>4, <2>5 DEF TransferInv, TypeOK
<1>27. ASSUME NEW g \in Legs, Announced(g) PROVE TransferInv'
  <2>1. events' \in Seq(Event)
        BY <1>27 DEF Announced, Goes, AsteriskTypes
  <2>2. AsteriskTypes'
        BY <1>27, <2>1 DEF Announced
  <2>3. SessionTypes'
        BY <1>27 DEF Announced
  <2>4. EngineTypes'
        BY <1>27 DEF Announced, Goes, AnswerState, GuardState, CleanupState
  <2>5. ToolTypes' /\ DialTypes'
        BY <1>27 DEF Announced
  <2> QED BY <2>2, <2>3, <2>4, <2>5 DEF TransferInv, TypeOK
<1>28. ASSUME NEW g \in Legs, Prompted(g) PROVE TransferInv'
  <2>1. events' \in Seq(Event)
        BY <1>28 DEF Prompted, Goes, AsteriskTypes
  <2>2. AsteriskTypes'
        BY <1>28, <2>1 DEF Prompted
  <2>3. SessionTypes'
        BY <1>28 DEF Prompted
  <2>4. EngineTypes'
        BY <1>28 DEF Prompted, Goes, AnswerState, GuardState, CleanupState
  <2>5. ToolTypes' /\ DialTypes'
        BY <1>28 DEF Prompted
  <2> QED BY <2>2, <2>3, <2>4, <2>5 DEF TransferInv, TypeOK
<1>29. ASSUME NEW g \in Legs, WaitTimesOut(g) PROVE TransferInv'
  <2>1. events' \in Seq(Event)
        BY <1>29 DEF WaitTimesOut, Goes, AsteriskTypes
  <2>2. AsteriskTypes'
        BY <1>29, <2>1 DEF WaitTimesOut
  <2>3. SessionTypes'
        BY <1>29 DEF WaitTimesOut
  <2>4. EngineTypes'
        BY <1>29 DEF WaitTimesOut, Goes, AnswerState, GuardState, CleanupState
  <2>5. ToolTypes' /\ DialTypes'
        BY <1>29 DEF WaitTimesOut
  <2> QED BY <2>2, <2>3, <2>4, <2>5 DEF TransferInv, TypeOK
<1>30. ASSUME NEW g \in Legs, DecideWithoutSession(g) PROVE TransferInv'
  <2>1. events' \in Seq(Event)
        BY <1>30 DEF DecideWithoutSession, Goes, AsteriskTypes
  <2>2. AsteriskTypes'
        BY <1>30, <2>1 DEF DecideWithoutSession
  <2>3. SessionTypes'
        BY <1>30 DEF DecideWithoutSession
  <2>4. EngineTypes'
        BY <1>30 DEF DecideWithoutSession, Goes, AnswerState, GuardState, CleanupState
  <2>5. ToolTypes' /\ DialTypes'
        BY <1>30 DEF DecideWithoutSession
  <2> QED BY <2>2, <2>3, <2>4, <2>5 DEF TransferInv, TypeOK
<1>31. ASSUME NEW g \in Legs, Decline(g) PROVE TransferInv'
  <2>1. events' \in Seq(Event)
        BY <1>31, HangupTyped DEF Decline, Drop, Unregister, Goes, AsteriskTypes
  <2>2. AsteriskTypes'
        BY <1>31, <2>1, HangupTyped DEF Decline, Drop, Unregister, Goes, LegState
  <2>3. SessionTypes'
        BY <1>31 DEF Decline, Drop
  <2>4. EngineTypes'
        BY <1>31 DEF Decline, Drop, Unregister, Goes, AnswerState, GuardState, CleanupState
  <2>5. ToolTypes' /\ DialTypes'
        BY <1>31 DEF Decline, Drop, Unregister, Goes, ToolState
  <2> QED BY <2>2, <2>3, <2>4, <2>5 DEF TransferInv, TypeOK
<1>32. ASSUME NEW g \in Legs, AbortUnhold(g) PROVE TransferInv'
  <2>1. events' \in Seq(Event)
        BY <1>32 DEF AbortUnhold, Goes, AsteriskTypes
  <2>2. AsteriskTypes'
        BY <1>32, <2>1 DEF AbortUnhold, Goes, LegState
  <2>3. SessionTypes'
        BY <1>32 DEF AbortUnhold
  <2>4. EngineTypes'
        BY <1>32 DEF AbortUnhold, Goes, AnswerState, GuardState, CleanupState
  <2>5. ToolTypes' /\ DialTypes'
        BY <1>32 DEF AbortUnhold
  <2> QED BY <2>2, <2>3, <2>4, <2>5 DEF TransferInv, TypeOK
<1>33. ASSUME NEW g \in Legs, Apologize(g) PROVE TransferInv'
  <2>1. events' \in Seq(Event)
        BY <1>33 DEF Apologize, Goes, AsteriskTypes
  <2>2. AsteriskTypes'
        BY <1>33, <2>1 DEF Apologize
  <2>3. SessionTypes'
        BY <1>33 DEF Apologize, Goes, NoAction
  <2>4. EngineTypes'
        BY <1>33 DEF Apologize, Goes, AnswerState, GuardState, CleanupState
  <2>5. ToolTypes' /\ DialTypes'
        BY <1>33 DEF Apologize
  <2> QED BY <2>2, <2>3, <2>4, <2>5 DEF TransferInv, TypeOK
<1>34. ASSUME NEW g \in Legs, Resume(g) PROVE TransferInv'
  <2>1. events' \in Seq(Event)
        BY <1>34 DEF Resume, ResumeAi, Unregister, Goes, NoAction, AsteriskTypes
  <2>2. AsteriskTypes'
        BY <1>34, <2>1 DEF Resume
  <2>3. SessionTypes'
        BY <1>34 DEF Resume, ResumeAi, Unregister, Goes, NoAction, NoAction
  <2>4. EngineTypes'
        BY <1>34 DEF Resume, ResumeAi, Unregister, Goes, NoAction, AnswerState, GuardState, CleanupState
  <2>5. ToolTypes' /\ DialTypes'
        BY <1>34 DEF Resume
  <2> QED BY <2>2, <2>3, <2>4, <2>5 DEF TransferInv, TypeOK
<1>35. ASSUME NEW g \in Legs, Accept(g) PROVE TransferInv'
  <2>1. events' \in Seq(Event)
        BY <1>35 DEF Accept, Goes, AsteriskTypes
  <2>2. AsteriskTypes'
        BY <1>35, <2>1 DEF Accept, Goes, LegState
  <2>3. SessionTypes'
        BY <1>35 DEF Accept
  <2>4. EngineTypes'
        BY <1>35 DEF Accept, Goes, AnswerState, GuardState, CleanupState
  <2>5. ToolTypes' /\ DialTypes'
        BY <1>35 DEF Accept
  <2> QED BY <2>2, <2>3, <2>4, <2>5 DEF TransferInv, TypeOK
<1>36. ASSUME NEW g \in Legs, Detach(g) PROVE TransferInv'
  <2>1. events' \in Seq(Event)
        BY <1>36 DEF Detach, StopAi, Goes, AsteriskTypes
  <2>2. AsteriskTypes'
        BY <1>36, <2>1 DEF Detach
  <2>3. SessionTypes'
        BY <1>36 DEF Detach
  <2>4. EngineTypes'
        BY <1>36 DEF Detach, StopAi, Goes, AnswerState, GuardState, CleanupState
  <2>5. ToolTypes' /\ DialTypes'
        BY <1>36 DEF Detach
  <2> QED BY <2>2, <2>3, <2>4, <2>5 DEF TransferInv, TypeOK
<1>37. ASSUME NEW g \in Legs, Connect(g) PROVE TransferInv'
  <2>1. events' \in Seq(Event)
        BY <1>37 DEF Connect, Goes, AsteriskTypes
  <2>2. AsteriskTypes'
        BY <1>37, <2>1 DEF Connect, Goes, LegState
  <2>3. SessionTypes'
        BY <1>37 DEF Connect
  <2>4. EngineTypes'
        BY <1>37 DEF Connect, Goes, AnswerState, GuardState, CleanupState
  <2>5. ToolTypes' /\ DialTypes'
        BY <1>37 DEF Connect
  <2> QED BY <2>2, <2>3, <2>4, <2>5 DEF TransferInv, TypeOK
<1>38. ASSUME NEW g \in Legs, Connected(g) PROVE TransferInv'
  <2>1. events' \in Seq(Event)
        BY <1>38 DEF Connected, Adopt, Goes, AsteriskTypes
  <2>2. AsteriskTypes'
        BY <1>38, <2>1 DEF Connected
  <2>3. SessionTypes'
        BY <1>38 DEF Connected, Adopt, Goes, NoAction
  <2>4. EngineTypes'
        BY <1>38 DEF Connected, Adopt, Goes, AnswerState, GuardState, CleanupState
  <2>5. ToolTypes' /\ DialTypes'
        BY <1>38 DEF Connected
  <2> QED BY <2>2, <2>3, <2>4, <2>5 DEF TransferInv, TypeOK
<1>39. ASSUME NEW g \in Legs, GuardLeaves(g) PROVE TransferInv'
  <2>1. events' \in Seq(Event)
        BY <1>39 DEF GuardLeaves, GuardGoes, Unregister, CancelWaiter, AsteriskTypes
  <2>2. AsteriskTypes'
        BY <1>39, <2>1 DEF GuardLeaves
  <2>3. SessionTypes'
        BY <1>39 DEF GuardLeaves
  <2>4. EngineTypes'
        BY <1>39 DEF GuardLeaves, GuardGoes, Unregister, CancelWaiter, AnswerState, GuardState, CleanupState
  <2>5. ToolTypes' /\ DialTypes'
        BY <1>39 DEF GuardLeaves
  <2> QED BY <2>2, <2>3, <2>4, <2>5 DEF TransferInv, TypeOK
<1>40. ASSUME NEW g \in Legs, GuardHangsUp(g) PROVE TransferInv'
  <2>1. events' \in Seq(Event)
        BY <1>40, HangupTyped DEF GuardHangsUp, GuardGoes, Unregister, CancelWaiter, AsteriskTypes
  <2>2. AsteriskTypes'
        BY <1>40, <2>1, HangupTyped DEF GuardHangsUp, GuardGoes, Unregister, CancelWaiter, LegState
  <2>3. SessionTypes'
        BY <1>40 DEF GuardHangsUp
  <2>4. EngineTypes'
        BY <1>40 DEF GuardHangsUp, GuardGoes, Unregister, CancelWaiter, AnswerState, GuardState, CleanupState
  <2>5. ToolTypes' /\ DialTypes'
        BY <1>40 DEF GuardHangsUp, GuardGoes, Unregister, CancelWaiter, ToolState
  <2> QED BY <2>2, <2>3, <2>4, <2>5 DEF TransferInv, TypeOK
<1>41. ASSUME NEW g \in Legs, GuardUnholds(g) PROVE TransferInv'
  <2>1. events' \in Seq(Event)
        BY <1>41 DEF GuardUnholds, GuardGoes, AsteriskTypes
  <2>2. AsteriskTypes'
        BY <1>41, <2>1 DEF GuardUnholds, GuardGoes, LegState
  <2>3. SessionTypes'
        BY <1>41 DEF GuardUnholds
  <2>4. EngineTypes'
        BY <1>41 DEF GuardUnholds, GuardGoes, AnswerState, GuardState, CleanupState
  <2>5. ToolTypes' /\ DialTypes'
        BY <1>41 DEF GuardUnholds
  <2> QED BY <2>2, <2>3, <2>4, <2>5 DEF TransferInv, TypeOK
<1>42. ASSUME NEW g \in Legs, GuardResumes(g) PROVE TransferInv'
  <2>1. events' \in Seq(Event)
        BY <1>42 DEF GuardResumes, GuardGoes, NoAction, AsteriskTypes
  <2>2. AsteriskTypes'
        BY <1>42, <2>1 DEF GuardResumes
  <2>3. SessionTypes'
        BY <1>42 DEF GuardResumes, GuardGoes, NoAction, NoAction
  <2>4. EngineTypes'
        BY <1>42 DEF GuardResumes, GuardGoes, NoAction, AnswerState, GuardState, CleanupState
  <2>5. ToolTypes' /\ DialTypes'
        BY <1>42 DEF GuardResumes
  <2> QED BY <2>2, <2>3, <2>4, <2>5 DEF TransferInv, TypeOK
<1>43. CASE UNCHANGED vars
      BY <1>43 DEF vars
<1> QED
  BY <1>1, <1>2, <1>3, <1>4, <1>5, <1>6, <1>7, <1>8, <1>9, <1>10,
     <1>11, <1>12, <1>13, <1>14, <1>15, <1>16, <1>17, <1>18, <1>19, <1>20,
     <1>21, <1>22, <1>23, <1>24, <1>25, <1>26, <1>27, <1>28, <1>29, <1>30,
     <1>31, <1>32, <1>33, <1>34, <1>35, <1>36, <1>37, <1>38, <1>39, <1>40,
     <1>41, <1>42, <1>43
  DEF Next, Tool, Delivery, Cleanup, Handler, Guard

\* Every reachable state has the types of the channels, the session and the
\* tasks, and an answered transfer has a leg: the cleanup can hang it up.
THEOREM TransferTypes == Spec => []TypeOK
<1>1. TransferInv => TypeOK
      BY DEF TransferInv
<1>2. QED
      BY InitTypes, NextTypes, <1>1, PTL DEF Spec

----------------------------------------------------------------------------
(* Hanging up an agent's leg never ends the caller's call, as long as an   *)
(* agent's answer does not race the tools (Punctual).                      *)


\* No agent answers while the tool still waits for the id of the channel, or
\* while a cancellation is under way.
Punctual == "late_response" \notin Timing /\ "answer_in_flight" \notin Timing

----------------------------------------------------------------------------
(* The reports of answered legs among the undelivered events.              *)

HasStart(s, g) == \E i \in 1..Len(s) : s[i] = Ev("start", g)
Once(s, g) == \A i, j \in 1..Len(s) :
                s[i] = Ev("start", g) /\ s[j] = Ev("start", g) => i = j

\* A step reports no new answer.
Quiet ==
  \A l \in Legs : /\ HasStart(events', l) => HasStart(events, l)
                  /\ Once(events, l) => Once(events', l)

HungUp(g) ==
  \A l \in Legs : leg'[l] = IF l = g /\ leg[l] # "none" THEN "gone" ELSE leg[l]

\* What a report appended to the queue, or taken from it, does to the reports
\* of answered legs.
LEMMA StartAppended ==
  ASSUME NEW s \in Seq(Event), NEW e \in Event, NEW l \in Legs
  PROVE  /\ HasStart(Append(s, e), l) => HasStart(s, l) \/ e = Ev("start", l)
         /\ Once(s, l) /\ (e = Ev("start", l) => ~HasStart(s, l))
              => Once(Append(s, e), l)
<1>1. /\ Len(Append(s, e)) = Len(s) + 1 /\ Len(s) \in Nat
      /\ \A i \in 1..Len(s) : Append(s, e)[i] = s[i]
      /\ Append(s, e)[Len(s) + 1] = e
      BY AppendProperties, LenProperties
<1>2. \A i \in 1..(Len(s) + 1) : i \in 1..Len(s) \/ i = Len(s) + 1
      BY <1>1
<1>3. HasStart(Append(s, e), l) => HasStart(s, l) \/ e = Ev("start", l)
      BY <1>1, <1>2 DEF HasStart
<1>4. ASSUME Once(s, l), e = Ev("start", l) => ~HasStart(s, l)
      PROVE  Once(Append(s, e), l)
      BY <1>1, <1>2, <1>4 DEF HasStart, Once
<1> QED BY <1>3, <1>4

LEMMA StartTail ==
  ASSUME NEW s \in Seq(Event), s # <<>>, NEW l \in Legs
  PROVE  /\ HasStart(Tail(s), l) => HasStart(s, l)
         /\ Once(s, l) => Once(Tail(s), l)
         /\ Head(s) = Ev("start", l) => HasStart(s, l)
         /\ Once(s, l) /\ Head(s) = Ev("start", l) => ~HasStart(Tail(s), l)
<1>1. /\ Len(s) \in Nat \ {0} /\ Len(Tail(s)) = Len(s) - 1
      /\ Head(s) = s[1]
      /\ \A i \in 1..(Len(s) - 1) : Tail(s)[i] = s[i + 1]
      BY HeadTailProperties, LenProperties, EmptySeq
<1>2. \A i \in 1..(Len(s) - 1) : i + 1 \in 1..Len(s) /\ i + 1 # 1
      BY <1>1
<1>3. 1 \in 1..Len(s)
      BY <1>1
<1>4. HasStart(Tail(s), l) => HasStart(s, l)
      BY <1>1, <1>2 DEF HasStart
<1>5. Once(s, l) => Once(Tail(s), l)
      BY <1>1, <1>2 DEF Once
<1>6. Head(s) = Ev("start", l) => HasStart(s, l)
      BY <1>1, <1>3 DEF HasStart
<1>7. ASSUME Once(s, l), Head(s) = Ev("start", l), HasStart(Tail(s), l)
      PROVE  FALSE
  <2>1. PICK i \in 1..(Len(s) - 1) : s[i + 1] = Ev("start", l)
        BY <1>1, <1>7 DEF HasStart
  <2>2. s[1] = Ev("start", l)
        BY <1>1, <1>7
  <2>3. i + 1 = 1
        BY <1>2, <1>3, <1>7, <2>1, <2>2 DEF Once
  <2> QED BY <1>2, <2>3
<1> QED BY <1>4, <1>5, <1>6, <1>7

LEMMA TailIsShorter ==
  ASSUME NEW s \in Seq(Event), s # <<>>
  PROVE  Tail(s) # s /\ \A e \in Event : Append(s, e) # Tail(s)
<1>1. \A n \in Nat : n + 1 # n - 1
      OBVIOUS
<1>2. Len(Tail(s)) = Len(s) - 1 /\ Len(s) \in Nat
      BY HeadTailProperties, LenProperties, EmptySeq
<1>3. \A e \in Event : Len(Append(s, e)) = Len(s) + 1
      BY AppendProperties
<1>4. ASSUME Tail(s) = s PROVE FALSE
  <2>1. Len(Tail(s)) = Len(s)
        BY <1>4
  <2> QED BY <1>2, <2>1
<1>5. ASSUME NEW e \in Event PROVE Append(s, e) # Tail(s)
  <2> SUFFICES ASSUME Append(s, e) = Tail(s) PROVE FALSE
      OBVIOUS
  <2>1. Len(Append(s, e)) = Len(Tail(s))
        OBVIOUS
  <2>2. Len(Append(s, e)) = Len(s) + 1
        BY <1>3
  <2>3. Len(s) + 1 = Len(s) - 1
        BY <1>2, <2>1, <2>2
  <2> QED BY <1>2, <1>1, <2>3, Zenon
<1> QED BY <1>4, <1>5

LEMMA LegNumbers == \A l \in Legs : l \in Int /\ l > 0
BY DEF Legs

LEMMA SameQuiet == events' = events => Quiet
BY DEF Quiet, HasStart, Once

LEMMA SendQuiet ==
  ASSUME TypeOK, NEW k \in {"yes", "no", "end"}, NEW p \in Legs \cup {Caller},
         Send(k, p)
  PROVE  Quiet
<1>1. events \in Seq(Event) /\ Ev(k, p) \in Event
      BY EvTyped DEF TypeOK, AsteriskTypes
<1>2. \A l \in Legs : Ev(k, p) # Ev("start", l)
      BY DEF Ev
<1> QED BY <1>1, <1>2, StartAppended DEF Quiet, Send

LEMMA StartSent ==
  ASSUME TypeOK, NEW g \in Legs, Send("start", g)
  PROVE  \A l \in Legs :
           /\ HasStart(events', l) => HasStart(events, l) \/ l = g
           /\ Once(events, l) /\ ~HasStart(events, g) => Once(events', l)
<1>1. events \in Seq(Event) /\ Ev("start", g) \in Event
      BY EvTyped DEF TypeOK, AsteriskTypes
<1>2. \A l \in Legs : Ev("start", g) = Ev("start", l) => l = g
      BY DEF Ev
<1> QED BY <1>1, <1>2, StartAppended DEF Send

LEMMA DeliverQuiet ==
  ASSUME TypeOK, NEW k \in {"start", "yes", "no", "end"},
         NEW p \in Legs \cup {Caller}, Deliver(k, p)
  PROVE  Quiet
BY StartTail DEF Quiet, Deliver, TypeOK, AsteriskTypes

LEMMA StartTaken ==
  ASSUME TypeOK, NEW g \in Legs, Once(events, g), Deliver("start", g)
  PROVE  HasStart(events, g) /\ ~HasStart(events', g)
BY StartTail DEF Deliver, TypeOK, AsteriskTypes

LEMMA HangupQuiet ==
  ASSUME TypeOK, NEW g \in Legs, Hangup(g)
  PROVE  Quiet /\ HungUp(g)
<1>1. leg \in [Legs -> LegState]
      BY DEF TypeOK, AsteriskTypes
<1>2. CASE leg[g] \in {"ringing", "up"}
  <2>1. Quiet
        BY <1>2, SendQuiet DEF Hangup
  <2>2. HungUp(g)
        BY <1>1, <1>2 DEF Hangup, HungUp
  <2> QED BY <2>1, <2>2
<1>3. CASE leg[g] \notin {"ringing", "up"}
  <2>1. leg' = leg /\ Quiet
        BY <1>3, SameQuiet DEF Hangup
  <2>2. HungUp(g)
        BY <1>1, <1>3, <2>1 DEF HungUp, LegState
  <2> QED BY <2>1, <2>2
<1> QED BY <1>2, <1>3

LEMMA VainQuiet ==
  ASSUME TypeOK, NEW g \in Legs, Once(events, g),
         HasStart(events, g) => leg[g] \in {"up", "gone"},
         DeliverAndHangup("start", g)
  PROVE  Quiet /\ HungUp(g) /\ HasStart(events, g) /\ ~HasStart(events', g)
<1>1. /\ events \in Seq(Event) /\ events # <<>>
      /\ Head(events) = Ev("start", g)
      /\ leg \in [Legs -> LegState]
      BY DEF TypeOK, AsteriskTypes, DeliverAndHangup
<1>2. Tail(events) \in Seq(Event) /\ Ev("end", g) \in Event
      BY <1>1, EventsTyped, EvTyped
<1>3. \A l \in Legs : Ev("end", g) # Ev("start", l)
      BY DEF Ev
<1>4. HasStart(events, g) /\ ~HasStart(Tail(events), g)
      BY <1>1, StartTail
<1>5. \A l \in Legs : /\ HasStart(Tail(events), l) => HasStart(events, l)
                      /\ Once(events, l) => Once(Tail(events), l)
      BY <1>1, StartTail
<1>6. CASE leg[g] = "up"
  <2>1. events' = Append(Tail(events), Ev("end", g))
        /\ leg' = [leg EXCEPT ![g] = "gone"]
        BY <1>6 DEF DeliverAndHangup
  <2>2. \A l \in Legs : /\ HasStart(events', l) => HasStart(Tail(events), l)
                        /\ Once(Tail(events), l) => Once(events', l)
        BY <1>2, <1>3, <2>1, StartAppended
  <2>3. HungUp(g)
        BY <1>1, <1>6, <2>1 DEF HungUp
  <2> QED BY <1>4, <1>5, <2>2, <2>3 DEF Quiet
<1>7. CASE leg[g] = "gone"
  <2>1. events' = Tail(events) /\ leg' = leg
        BY <1>7 DEF DeliverAndHangup
  <2>2. HungUp(g)
        BY <1>1, <1>7, <2>1 DEF HungUp
  <2> QED BY <1>4, <1>5, <2>1, <2>2 DEF Quiet
<1> QED BY <1>4, <1>6, <1>7

LEMMA StartsAreAnswers ==
  ASSUME ~AnswerPending
  PROVE  \A l \in Legs : ~HasStart(events, l)
BY DEF AnswerPending, HasStart, Ev

LEMMA NonePending ==
  ASSUME NEW g \in Legs, ~Pending(g)
  PROVE  ~HasStart(events, g)
BY DEF Pending, HasStart, Ev

----------------------------------------------------------------------------
(* The invariant.                                                          *)

\* A leg that has not been dialled, or whose channel the tool does not know.
Fresh(g) ==
  /\ ~HasStart(events, g)
  /\ answer[g] = "none" /\ guard[g] = "none"
  /\ g \notin dropped

\* A leg is reported answered once, after it was, and before its handler runs.
ReportedOnce(g) ==
  /\ Once(events, g)
  /\ HasStart(events, g) => leg[g] \in {"up", "gone"}
  /\ answer[g] # "none" => leg[g] \in {"up", "gone"} /\ ~HasStart(events, g)

DialledInOrder(g) ==
  /\ g > callee <=> leg[g] = "none"
  /\ g > callee \/ (tool = "dial" /\ g = callee) => Fresh(g)

\* A leg the engine has hung up stays so, and is not mapped while the call
\* goes on: no answer is on its way that would map it again.
DroppedStaysDown(g) ==
  g \in dropped => /\ leg[g] = "gone"
                   /\ ~HasStart(events, g)
                   /\ cleanup = "no" => g \notin mapped

LegInv(g) == ReportedOnce(g) /\ DialledInOrder(g) /\ DroppedStaysDown(g)

LegsInv ==
  /\ \A g \in Legs : LegInv(g)
  /\ action.leg <= callee
  /\ ~stored => cleanup # "no"

LEMMA InitLegs == Init => LegsInv
<1> SUFFICES ASSUME Init PROVE LegsInv
    OBVIOUS
<1>1. \A g \in Legs : ~HasStart(events, g) /\ Once(events, g)
      BY DEF Init, HasStart, Once
<1>2. \A g \in Legs : g > callee
      BY DEF Init, Legs, NoLeg
<1> QED BY <1>1, <1>2
        DEF Init, LegsInv, LegInv, ReportedOnce, DialledInOrder, Fresh,
            DroppedStaysDown, NoAction, NoLeg

LEMMA NextLegs ==
  ASSUME Punctual
  PROVE  TransferInv /\ LegsInv /\ [Next]_vars => LegsInv'
<1> SUFFICES ASSUME TransferInv, LegsInv, [Next]_vars PROVE LegsInv'
    OBVIOUS
<1> TypeOK
    BY DEF TransferInv
<1> USE LegsTyped, LegNumbers DEF NoLeg, Caller
<1> USE DEF LegsInv, LegInv, ReportedOnce, DialledInOrder, Fresh, DroppedStaysDown
<1> USE DEF TransferInv, TypeOK, DialTypes, AsteriskTypes, SessionTypes, EngineTypes, ToolTypes
<1> USE DEF asterisk, session, agent, tools
<1>1. CASE CallerLeaves
  <2>1. Quiet
        BY <1>1, SendQuiet, SameQuiet DEF CallerLeaves
  <2> QED BY <1>1, <2>1 DEF Quiet, CallerLeaves
<1>2. CASE Request
  <2>1. Quiet
        BY <1>2, SameQuiet DEF Request
  <2> QED BY <1>2, <2>1 DEF Quiet, Request
<1>3. CASE Cancel
  <2>1. \A l \in Legs : ~HasStart(events, l)
        BY <1>3, StartsAreAnswers DEF Cancel, Punctual
  <2>2. CASE action.leg \in Legs
    <3>1. Quiet /\ HungUp(action.leg)
          BY <1>3, <2>2, HangupQuiet DEF Cancel
    <3>2. /\ mapped' = mapped \ {action.leg}
          /\ dropped' = dropped \cup {action.leg}
          /\ tool = "idle" /\ tool' = "cancel"
          /\ UNCHANGED <<guard, callee, stored, action, cleanup>>
          /\ CancelWaiter(action.leg)
          BY <1>3, <2>2 DEF Cancel, Unregister
    <3> QED BY <2>1, <2>2, <3>1, <3>2 DEF HungUp, Quiet, CancelWaiter
  <2>3. CASE action.leg = NoLeg
    <3>1. /\ UNCHANGED <<mapped, answer, leg, events, dropped>>
          /\ tool = "idle" /\ tool' = "cancel"
          /\ UNCHANGED <<guard, callee, stored, action, cleanup>>
          BY <1>3, <2>3 DEF Cancel
    <3>2. Quiet
          BY <3>1, SameQuiet
    <3> QED BY <3>1, <3>2 DEF Quiet
  <2> QED BY <2>2, <2>3
<1>4. CASE BlindTransfer
  <2>1. Quiet
        BY <1>4, SendQuiet, SameQuiet DEF BlindTransfer
  <2> QED BY <1>4, <2>1 DEF Quiet, BlindTransfer
<1>5. CASE Speak
  <2>1. Quiet
        BY <1>5, SameQuiet DEF Speak
  <2> QED BY <1>5, <2>1 DEF Quiet, Speak
<1>6. CASE SpeakEnd
  <2>1. Quiet
        BY <1>6, SameQuiet DEF SpeakEnd
  <2> QED BY <1>6, <2>1 DEF Quiet, SpeakEnd
<1>7. CASE Dial
  <2>1. Quiet
        BY <1>7, SameQuiet DEF Dial
  <2>2. tool = "hold" /\ callee + 1 \in Legs
        BY <1>7, TransferAssumption DEF Dial, Legs
  <2>3. /\ action'.leg = 0 /\ tool' # "hold" /\ stored' = TRUE
        /\ UNCHANGED <<mapped, answer, guard, cleanup, dropped>>
        BY <1>7 DEF Dial
  <2>4. CASE tool' = "dial"
    <3>1. callee' = callee + 1 /\ leg' = [leg EXCEPT ![callee + 1] = "ringing"]
          BY <1>7, <2>4 DEF Dial
    <3>2. ASSUME NEW l \in Legs PROVE LegInv(l)'
      <4>0. callee \in Int /\ l \in Int
            BY LegNumbers
      <4>1. l > callee' <=> l > callee /\ l # callee + 1
            BY <3>1, <4>0
      <4>2. LegInv(l) /\ LegInv(callee + 1)
            BY <2>2
      <4> QED BY <2>1, <2>2, <2>3, <2>4, <3>1, <4>1, <4>2 DEF Quiet
    <3> QED BY <2>3, <3>1, <3>2
  <2>5. CASE tool' = "refused"
    <3>1. UNCHANGED <<callee, leg>>
          BY <1>7, <2>5 DEF Dial
    <3> QED BY <2>1, <2>2, <2>3, <2>5, <3>1 DEF Quiet
  <2> QED BY <1>7, <2>4, <2>5 DEF Dial
<1>8. CASE Dialled
  <2>1. Quiet
        BY <1>8, SameQuiet DEF Dialled
  <2> QED BY <1>8, <2>1 DEF Quiet, Dialled, Arm, Return
<1>9. CASE DialledTooLate
  <2>1. Quiet
        BY <1>9, SameQuiet DEF DialledTooLate
  <2> QED BY <1>9, <2>1 DEF Quiet, DialledTooLate, Return
<1>10. CASE RefusedUnhold
  <2>1. Quiet
        BY <1>10, SameQuiet DEF RefusedUnhold
  <2> QED BY <1>10, <2>1 DEF Quiet, RefusedUnhold
<1>11. CASE RefusedReturn
  <2>1. Quiet
        BY <1>11, SameQuiet DEF RefusedReturn
  <2> QED BY <1>11, <2>1 DEF Quiet, RefusedReturn, Return, NoAction
<1>12. CASE CancelUnhold
  <2>1. Quiet
        BY <1>12, SameQuiet DEF CancelUnhold
  <2> QED BY <1>12, <2>1 DEF Quiet, CancelUnhold
<1>13. CASE CancelReturn
  <2>1. Quiet
        BY <1>13, SameQuiet DEF CancelReturn
  <2> QED BY <1>13, <2>1 DEF Quiet, CancelReturn, Return, NoAction
<1>14. ASSUME NEW g \in Legs, AnsweredInVain(g) PROVE LegsInv'
  <2>1. Quiet /\ HungUp(g) /\ HasStart(events, g) /\ ~HasStart(events', g)
        BY <1>14, VainQuiet DEF AnsweredInVain
  <2>2. /\ answer' = [answer EXCEPT ![g] = "over"]
        /\ dropped' = dropped \cup {g}
        /\ UNCHANGED <<stored, action, guard, cleanup, tool, callee>>
        BY <1>14 DEF AnsweredInVain, Goes
  <2>3. mapped' = mapped \ {g} \/ (mapped' = mapped /\ ~stored)
        BY <1>14 DEF AnsweredInVain, Unregister
  <2> QED BY <2>1, <2>2, <2>3 DEF Quiet, HungUp
<1>15. ASSUME NEW g \in Legs, Answered(g) PROVE LegsInv'
  <2>1. Quiet /\ HasStart(events, g) /\ ~HasStart(events', g)
        BY <1>15, DeliverQuiet, StartTaken DEF Answered
  <2> QED BY <1>15, <2>1 DEF Quiet, Answered, Goes, Adopt
<1>16. ASSUME NEW g \in Legs, NEW d \in {"yes", "no"}, Digit(g, d) PROVE LegsInv'
  <2>1. Quiet
        BY <1>16, DeliverQuiet DEF Digit
  <2> QED BY <1>16, <2>1 DEF Quiet, Digit, Goes
<1>17. ASSUME NEW p \in Legs \cup {Caller}, ChannelEnds(p) PROVE LegsInv'
  <2>1. Quiet
        BY <1>17, DeliverQuiet DEF ChannelEnds
  <2> QED BY <1>17, <2>1 DEF Quiet, ChannelEnds
<1>18. CASE CleanupSilences
  <2>1. Quiet
        BY <1>18, SameQuiet DEF CleanupSilences
  <2> QED BY <1>18, <2>1 DEF Quiet, CleanupSilences
<1>19. CASE CleanupBridge
  <2>1. Quiet
        BY <1>19, SameQuiet DEF CleanupBridge
  <2> QED BY <1>19, <2>1 DEF Quiet, CleanupBridge
<1>20. CASE CleanupLegs
  <2>1. \/ \E g \in Legs : Quiet /\ HungUp(g)
        \/ Quiet /\ leg' = leg
        BY <1>20, HangupQuiet, SameQuiet DEF CleanupLegs, ActionLegs
  <2>2. \A l \in Legs : leg'[l] = leg[l] \/ (leg'[l] = "gone" /\ leg[l] # "none")
        BY <2>1 DEF HungUp
  <2>3. Quiet
        BY <2>1
  <2> QED BY <1>20, <2>2, <2>3 DEF Quiet, CleanupLegs
<1>21. CASE CleanupCaller
  <2>1. Quiet
        BY <1>21, SendQuiet, SameQuiet DEF CleanupCaller
  <2> QED BY <1>21, <2>1 DEF Quiet, CleanupCaller
<1>22. CASE CleanupRemoves
  <2>1. Quiet
        BY <1>22, SameQuiet DEF CleanupRemoves
  <2> QED BY <1>22, <2>1 DEF Quiet, CleanupRemoves, ForgetMappings
<1>23. ASSUME NEW g \in Legs, LegAnswers(g) PROVE LegsInv'
  <2>1. \A l \in Legs : /\ HasStart(events', l) => HasStart(events, l) \/ l = g
                        /\ Once(events, l) /\ ~HasStart(events, g) => Once(events', l)
        BY <1>23, StartSent DEF LegAnswers
  <2> QED BY <1>23, <2>1 DEF LegAnswers, Punctual
<1>24. ASSUME NEW g \in Legs, LegEnds(g) PROVE LegsInv'
  <2>1. Quiet
        BY <1>24, SendQuiet, SameQuiet DEF LegEnds
  <2> QED BY <1>24, <2>1 DEF Quiet, LegEnds
<1>25. ASSUME NEW g \in Legs, AnnounceFails(g) PROVE LegsInv'
  <2>1. Quiet /\ HungUp(g)
        BY <1>25, HangupQuiet DEF AnnounceFails, Drop
  <2> QED BY <1>25, <2>1 DEF Quiet, HungUp, AnnounceFails, Drop, Unregister, Goes
<1>26. ASSUME NEW g \in Legs, NEW d \in {"yes", "no"}, AgentPresses(g, d) PROVE LegsInv'
  <2>1. Quiet
        BY <1>26, SendQuiet, SameQuiet DEF AgentPresses
  <2> QED BY <1>26, <2>1 DEF Quiet, AgentPresses
<1>27. ASSUME NEW g \in Legs, Announced(g) PROVE LegsInv'
  <2>1. Quiet
        BY <1>27, SameQuiet DEF Announced
  <2> QED BY <1>27, <2>1 DEF Quiet, Announced, Goes
<1>28. ASSUME NEW g \in Legs, Prompted(g) PROVE LegsInv'
  <2>1. Quiet
        BY <1>28, SameQuiet DEF Prompted
  <2> QED BY <1>28, <2>1 DEF Quiet, Prompted, Goes
<1>29. ASSUME NEW g \in Legs, WaitTimesOut(g) PROVE LegsInv'
  <2>1. Quiet
        BY <1>29, SameQuiet DEF WaitTimesOut
  <2> QED BY <1>29, <2>1 DEF Quiet, WaitTimesOut, Goes
<1>30. ASSUME NEW g \in Legs, DecideWithoutSession(g) PROVE LegsInv'
  <2>1. Quiet
        BY <1>30, SameQuiet DEF DecideWithoutSession
  <2> QED BY <1>30, <2>1 DEF Quiet, DecideWithoutSession, Goes
<1>31. ASSUME NEW g \in Legs, Decline(g) PROVE LegsInv'
  <2>1. Quiet /\ HungUp(g)
        BY <1>31, HangupQuiet DEF Decline, Drop
  <2> QED BY <1>31, <2>1 DEF Quiet, HungUp, Decline, Drop, Unregister, Goes
<1>32. ASSUME NEW g \in Legs, AbortUnhold(g) PROVE LegsInv'
  <2>1. Quiet
        BY <1>32, SameQuiet DEF AbortUnhold
  <2> QED BY <1>32, <2>1 DEF Quiet, AbortUnhold, Goes
<1>33. ASSUME NEW g \in Legs, Apologize(g) PROVE LegsInv'
  <2>1. Quiet
        BY <1>33, SameQuiet DEF Apologize
  <2> QED BY <1>33, <2>1 DEF Quiet, Apologize, Goes
<1>34. ASSUME NEW g \in Legs, Resume(g) PROVE LegsInv'
  <2>1. Quiet
        BY <1>34, SameQuiet DEF Resume
  <2>2. /\ answer[g] = "resume" /\ answer' = [answer EXCEPT ![g] = "over"]
        /\ mapped' = mapped \ {g} /\ action'.leg = 0 /\ stored' = TRUE
        /\ UNCHANGED <<leg, guard, cleanup, tool, callee, dropped>>
        BY <1>34 DEF Resume, ResumeAi, Unregister, Goes, NoAction
  <2> QED BY <2>1, <2>2 DEF Quiet
<1>35. ASSUME NEW g \in Legs, Accept(g) PROVE LegsInv'
  <2>1. Quiet
        BY <1>35, SameQuiet DEF Accept
  <2> QED BY <1>35, <2>1 DEF Quiet, Accept, Goes
<1>36. ASSUME NEW g \in Legs, Detach(g) PROVE LegsInv'
  <2>1. Quiet
        BY <1>36, SameQuiet DEF Detach
  <2> QED BY <1>36, <2>1 DEF Quiet, Detach, StopAi, Goes
<1>37. ASSUME NEW g \in Legs, Connect(g) PROVE LegsInv'
  <2>1. Quiet
        BY <1>37, SameQuiet DEF Connect
  <2> QED BY <1>37, <2>1 DEF Quiet, Connect, Goes
<1>38. ASSUME NEW g \in Legs, Connected(g) PROVE LegsInv'
  <2>1. Quiet
        BY <1>38, SameQuiet DEF Connected
  <2>2. /\ answer[g] = "bridged" /\ answer' = [answer EXCEPT ![g] = "over"]
        /\ stored' = TRUE
        /\ UNCHANGED <<leg, mapped, guard, cleanup, tool, callee, dropped>>
        BY <1>38 DEF Connected, Goes
  <2>3. \A l \in Legs : LegInv(l)'
        BY <2>1, <2>2 DEF Quiet
  <2>4. g <= callee
        BY <2>2, LegNumbers
  <2>5. action'.leg \in {g, action.leg}
        BY <1>38 DEF Connected, Adopt
  <2> QED BY <2>2, <2>3, <2>4, <2>5
<1>39. ASSUME NEW g \in Legs, GuardLeaves(g) PROVE LegsInv'
  <2>1. Quiet
        BY <1>39, SameQuiet DEF GuardLeaves
  <2>2. /\ guard[g] = "armed" /\ guard' = [guard EXCEPT ![g] = "over"]
        /\ UNCHANGED <<leg, stored, action, cleanup, tool, callee, dropped>>
        BY <1>39 DEF GuardLeaves, GuardDue, GuardGoes
  <2>3. mapped' \subseteq mapped
        BY <1>39 DEF GuardLeaves, Unregister
  <2>4. \A l \in Legs : answer'[l] = answer[l] \/ (answer[l] = "wait" /\ answer'[l] = "over")
        BY <1>39 DEF GuardLeaves, CancelWaiter
  <2> QED BY <2>1, <2>2, <2>3, <2>4 DEF Quiet
<1>40. ASSUME NEW g \in Legs, GuardHangsUp(g) PROVE LegsInv'
  <2>1. Quiet /\ HungUp(g) /\ ~HasStart(events, g)
        BY <1>40, HangupQuiet, NonePending DEF GuardHangsUp, GuardDue
  <2>2. /\ guard[g] = "armed" /\ guard' = [guard EXCEPT ![g] = "hungup"]
        /\ mapped' = mapped \ {g} /\ dropped' = dropped \cup {g}
        /\ UNCHANGED <<stored, action, cleanup, tool, callee>>
        BY <1>40 DEF GuardHangsUp, GuardDue, GuardGoes, Unregister
  <2>3. \A l \in Legs : answer'[l] = answer[l] \/ (answer[l] = "wait" /\ answer'[l] = "over")
        BY <1>40 DEF GuardHangsUp, CancelWaiter
  <2> QED BY <2>1, <2>2, <2>3 DEF Quiet, HungUp
<1>41. ASSUME NEW g \in Legs, GuardUnholds(g) PROVE LegsInv'
  <2>1. Quiet
        BY <1>41, SameQuiet DEF GuardUnholds
  <2> QED BY <1>41, <2>1 DEF Quiet, GuardUnholds, GuardGoes
<1>42. ASSUME NEW g \in Legs, GuardResumes(g) PROVE LegsInv'
  <2>1. Quiet
        BY <1>42, SameQuiet DEF GuardResumes
  <2>2. /\ guard[g] = "unheld" /\ guard' = [guard EXCEPT ![g] = "over"]
        /\ action'.leg = 0 /\ stored' = TRUE
        /\ UNCHANGED <<leg, mapped, answer, cleanup, tool, callee, dropped>>
        BY <1>42 DEF GuardResumes, GuardGoes, NoAction
  <2>3. \A l \in Legs : guard'[l] = "none" <=> guard[l] = "none"
        BY <2>2
  <2>4. \A l \in Legs : LegInv(l)'
        BY <2>1, <2>2, <2>3 DEF Quiet
  <2>5. callee >= 0
        BY LegNumbers
  <2> QED BY <2>2, <2>4, <2>5
<1>43. CASE UNCHANGED vars
      BY <1>43 DEF vars, HasStart, Once
<1> QED
  BY <1>1, <1>2, <1>3, <1>4, <1>5, <1>6, <1>7, <1>8, <1>9, <1>10,
     <1>11, <1>12, <1>13, <1>14, <1>15, <1>16, <1>17, <1>18, <1>19, <1>20,
     <1>21, <1>22, <1>23, <1>24, <1>25, <1>26, <1>27, <1>28, <1>29, <1>30,
     <1>31, <1>32, <1>33, <1>34, <1>35, <1>36, <1>37, <1>38, <1>39, <1>40,
     <1>41, <1>42, <1>43
  DEF Next, Tool, Delivery, Cleanup, Handler, Guard

----------------------------------------------------------------------------

\* A leg the engine hangs up itself does not end the call when its end is
\* reported: whoever drops it has unmapped it, and nothing maps it again.
THEOREM TeardownKeepsCall ==
  ASSUME Punctual
  PROVE  Spec => DroppedLegKeepsCall
<1> DEFINE Ends(g) == events # <<>> /\ Head(events) = Ev("end", g) /\ events' = Tail(events)
<1> DEFINE Kept == \A g \in dropped : Ends(g) => cleanup' = cleanup
<1>1. TransferInv /\ LegsInv /\ [Next]_vars => [Kept]_vars
  <2> SUFFICES ASSUME TransferInv, LegsInv, Next, NEW g \in dropped, Ends(g)
               PROVE  cleanup' = cleanup
      BY DEF vars
  <2>1. events \in Seq(Event) /\ events # <<>> /\ g \in Legs
        BY DEF TransferInv, TypeOK, AsteriskTypes, ToolTypes
  <2>2. Tail(events) # events /\ \A e \in Event : Append(events, e) # Tail(events)
        BY <2>1, TailIsShorter
  <2>3. \A p \in Legs \cup {Caller} : Ev("end", p) \in Event
        BY EvTyped
  <2>4. events' # events
        BY <2>2
  <2>5. ASSUME NEW p \in Legs \cup {Caller}, ChannelEnds(p) PROVE cleanup' = cleanup
    <3>1. Ev("end", p) = Ev("end", g)
          BY <2>5 DEF ChannelEnds, Deliver
    <3>2. p = g
          BY <3>1 DEF Ev
    <3>3. ~stored \/ g \notin mapped \/ cleanup # "no"
          BY <2>1 DEF LegsInv, LegInv, DroppedStaysDown
    <3>4. g # Caller
          BY <2>1, LegsTyped DEF Caller
    <3> QED BY <2>5, <3>2, <3>3, <3>4 DEF ChannelEnds, Resolves
  <2>6. ASSUME NEW h \in Legs, Hangup(h) PROVE FALSE
        BY <2>2, <2>3, <2>4, <2>6 DEF Hangup, Send
  <2>7. CASE Cleanup
    <3>1. ~CleanupSilences /\ ~CleanupBridge /\ ~CleanupRemoves
          BY <2>4 DEF CleanupSilences, CleanupBridge, CleanupRemoves
    <3>2. ~CleanupCaller
          BY <2>2, <2>3, <2>4 DEF CleanupCaller, Send
    <3>3. ActionLegs \subseteq Legs
          BY DEF ActionLegs, TransferInv, TypeOK, SessionTypes, NoLeg
    <3>4. ~CleanupLegs
          BY <2>4, <2>6, <3>3 DEF CleanupLegs
    <3> QED BY <2>7, <3>1, <3>2, <3>4 DEF Cleanup
  <2>8. CASE CallerLeaves \/ Request \/ Cancel \/ BlindTransfer \/ Speak \/ SpeakEnd
        BY <2>8 DEF CallerLeaves, Request, Cancel, BlindTransfer, Speak, SpeakEnd
  <2>9. CASE Tool
        BY <2>9 DEF Tool, Dial, Dialled, DialledTooLate, RefusedUnhold, RefusedReturn,
                    CancelUnhold, CancelReturn
  <2>10. ASSUME NEW h \in Legs, Handler(h) PROVE cleanup' = cleanup
         BY <2>10 DEF Handler, Announced, Prompted, WaitTimesOut, DecideWithoutSession,
                      Decline, Drop, AbortUnhold, Apologize, Resume, Accept, Detach,
                      Connect, Connected
  <2>11. ASSUME NEW h \in Legs, Guard(h) PROVE cleanup' = cleanup
         BY <2>11 DEF Guard, GuardLeaves, GuardHangsUp, GuardUnholds, GuardResumes
  <2>12. ASSUME NEW h \in Legs, AnsweredInVain(h) \/ Answered(h) PROVE cleanup' = cleanup
         BY <2>12 DEF AnsweredInVain, Answered
  <2>13. ASSUME NEW h \in Legs, NEW d \in {"yes", "no"}, Digit(h, d) \/ AgentPresses(h, d)
         PROVE  cleanup' = cleanup
         BY <2>13 DEF Digit, AgentPresses
  <2>14. ASSUME NEW h \in Legs, LegAnswers(h) \/ LegEnds(h) \/ AnnounceFails(h)
         PROVE  cleanup' = cleanup
         BY <2>14 DEF LegAnswers, LegEnds, AnnounceFails, Drop
  <2> QED BY <2>5, <2>7, <2>8, <2>9, <2>10, <2>11, <2>12, <2>13, <2>14
          DEF Next, Delivery
<1> QED
  BY <1>1, InitTypes, NextTypes, InitLegs, NextLegs, PTL DEF Spec, DroppedLegKeepsCall
=============================================================================
