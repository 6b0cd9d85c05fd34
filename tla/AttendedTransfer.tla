-------------------------- MODULE AttendedTransfer --------------------------
(***************************************************************************)
(* One call from the moment the agent talks to the caller until it is      *)
(* cleaned up, with the attended transfers the agent starts on it: the     *)
(* tools of src/tools/telephony (attended_transfer, cancel_transfer, blind *)
(* transfer), and in src/engine.py the handler of an answered agent leg,   *)
(* the no-answer guard, the DTMF handler and _cleanup_call.                *)
(*                                                                         *)
(* Every handler, tool and guard is an asyncio task.  A step runs up to    *)
(* the next await that suspends; the session store never suspends, an ARI  *)
(* request, a synthesis, a playback and a sleep do.  The effect of an ARI  *)
(* request on Asterisk belongs to the step that sends it, what the code    *)
(* does with the answer to the next one.  The session is one object that   *)
(* every task holds: `stored' says whether the store still has it.         *)
(***************************************************************************)
EXTENDS Integers, Sequences, FiniteSets

CONSTANTS MaxLegs,  \* bound: agent legs originated during the call
          Faults,   \* a subset of FaultKinds
          Timing    \* a subset of Races

\* originate_fails: Asterisk refuses to dial the agent.
\* event_loss: the end of a leg nobody answered is not reported.
\* announce_fails: the local AI server cannot synthesize for the agent.
FaultKinds == {"originate_fails", "event_loss", "announce_fails"}

\* answer_in_flight: the agent answers while a cancellation is under way.
\* late_response: the agent answers before the tool has the channel's id.
\* slow_guard: the guard's requests outlast a turn of the model.
\* slow_hold: the answer to the MOH request comes after a whole cleanup.
Races == {"answer_in_flight", "late_response", "slow_guard", "slow_hold"}

ASSUME TransferAssumption ==
  /\ MaxLegs \in Nat \ {0}
  /\ Faults \subseteq FaultKinds
  /\ Timing \subseteq Races

Legs == 1..MaxLegs
Caller == 0
NoLeg == 0

VARIABLES
  \* Asterisk: the channels, who is in the caller's bridge, undelivered events
  caller, moh, leg, bridge, talking, events,
  \* the session: is it in the store, current_action, audio_capture_enabled,
  \* transfer_active; a gating token is set
  stored, action, capture, transferActive, speaking,
  \* the engine: agent channel -> call, decision digits, the AI's media and
  \* provider, the task of each leg's answer, the no-answer guards, _cleanup_call
  mapped, digit, ai, answer, guard, cleanup,
  \* the tool being executed, the last leg it dialled, a reply it is owed
  tool, callee, reply,
  \* history: legs the engine hung up while the call went on
  dropped

asterisk == <<caller, moh, leg, bridge, talking>>
session  == <<stored, action, capture, transferActive, speaking>>
agent    == <<mapped, digit, answer, guard>>
tools    == <<tool, callee, reply>>
vars == <<asterisk, events, session, agent, ai, cleanup, tools, dropped>>

NoAction == [on |-> FALSE, leg |-> NoLeg, answered |-> FALSE]

LegState == {"none", "ringing", "up", "gone"}
AnswerState == {"none", "announce", "prompt", "wait", "yes", "no", "refuse",
                "drop", "apology", "resume", "accept", "detached", "bridged",
                "over"}
GuardState == {"none", "armed", "hungup", "unheld", "over"}
CleanupState == {"no", "begun", "quiet", "unbridged", "unlegged", "hungup",
                 "done"}
ToolState == {"idle", "hold", "dial", "refused", "unhold", "cancel", "uncancel"}

Event == [kind : {"start", "yes", "no", "end"}, of : Legs \cup {Caller}]

AsteriskTypes ==
  /\ caller \in {"up", "moved", "gone"}
  /\ moh \in BOOLEAN
  /\ leg \in [Legs -> LegState]
  /\ bridge \in BOOLEAN
  /\ talking \subseteq Legs
  /\ events \in Seq(Event)

SessionTypes ==
  /\ stored \in BOOLEAN
  /\ action \in [on : BOOLEAN, leg : Legs \cup {NoLeg}, answered : BOOLEAN]
  /\ action.answered => action.leg # NoLeg
  /\ capture \in BOOLEAN
  /\ transferActive \in BOOLEAN
  /\ speaking \in BOOLEAN

EngineTypes ==
  /\ mapped \subseteq Legs
  /\ digit \in [Legs -> {"none", "yes", "no"}]
  /\ ai \in BOOLEAN
  /\ answer \in [Legs -> AnswerState]
  /\ guard \in [Legs -> GuardState]
  /\ cleanup \in CleanupState

ToolTypes ==
  /\ tool \in ToolState
  /\ callee \in Legs \cup {NoLeg}
  /\ reply \in BOOLEAN
  /\ dropped \subseteq Legs

TypeOK == AsteriskTypes /\ SessionTypes /\ EngineTypes /\ ToolTypes

\* The caller is in the bridge with the AI's media channel, the provider
\* session runs and the caller is heard.
Init ==
  /\ caller = "up" /\ moh = FALSE /\ bridge = TRUE /\ talking = {}
  /\ leg = [g \in Legs |-> "none"]
  /\ events = <<>>
  /\ stored = TRUE /\ action = NoAction /\ capture = TRUE
  /\ transferActive = FALSE /\ speaking = FALSE
  /\ mapped = {} /\ ai = TRUE /\ cleanup = "no"
  /\ digit = [g \in Legs |-> "none"]
  /\ answer = [g \in Legs |-> "none"]
  /\ guard = [g \in Legs |-> "none"]
  /\ tool = "idle" /\ callee = NoLeg /\ reply = FALSE
  /\ dropped = {}

----------------------------------------------------------------------------
(* Asterisk.                                                               *)

Ev(k, p) == [kind |-> k, of |-> p]
Pending(g) == \E i \in 1..Len(events) : events[i].of = g
AnswerPending == \E i \in 1..Len(events) : events[i].kind = "start"

Send(k, p) == events' = Append(events, Ev(k, p))

\* DELETE channels/<leg>: nothing happens to a leg that is already gone.
Hangup(g) ==
  IF leg[g] \in {"ringing", "up"}
  THEN /\ leg' = [leg EXCEPT ![g] = "gone"]
       /\ talking' = talking \ {g}
       /\ Send("end", g)
  ELSE UNCHANGED <<leg, talking, events>>

CallerLeaves ==
  /\ caller = "up"
  /\ caller' = "gone" /\ moh' = FALSE
  /\ Send("end", Caller)
  /\ UNCHANGED <<leg, bridge, talking, session, agent, ai, cleanup, tools,
                 dropped>>

\* The agent answers: the leg enters the application.
LegAnswers(g) ==
  /\ leg[g] = "ringing"
  /\ tool = "dial" => "late_response" \in Timing
  /\ tool \in {"cancel", "uncancel"} => "answer_in_flight" \in Timing
  /\ leg' = [leg EXCEPT ![g] = "up"]
  /\ Send("start", g)
  /\ UNCHANGED <<caller, moh, bridge, talking, session, agent, ai, cleanup,
                 tools, dropped>>

\* Busy, rejected, or not answered within the dial timeout; or an agent who
\* had answered hangs up.
LegEnds(g) ==
  /\ leg[g] \in {"ringing", "up"}
  /\ leg' = [leg EXCEPT ![g] = "gone"]
  /\ talking' = talking \ {g}
  /\ \/ Send("end", g)
     \/ leg[g] = "ringing" /\ "event_loss" \in Faults /\ UNCHANGED events
  /\ UNCHANGED <<caller, moh, bridge, session, agent, ai, cleanup, tools,
                 dropped>>

AgentPresses(g, d) ==
  /\ leg[g] = "up"
  /\ answer[g] \in {"announce", "prompt", "wait"}
  /\ digit[g] = "none" /\ ~Pending(g)
  /\ Send(d, g)
  /\ UNCHANGED <<asterisk, session, agent, ai, cleanup, tools, dropped>>

----------------------------------------------------------------------------
(* The tools.                                                              *)

\* The agent asks for an attended transfer: the caller is put on hold.
Request ==
  /\ tool = "idle" /\ stored /\ ai /\ ~reply
  /\ callee < MaxLegs
  /\ ~action.on
  /\ (\E g \in Legs : guard[g] \in {"hungup", "unheld"}) => "slow_guard" \in Timing
  /\ tool' = "hold"
  /\ moh' = (caller = "up")
  /\ UNCHANGED <<caller, leg, bridge, talking, events, session, agent, ai,
                 cleanup, callee, reply, dropped>>

\* current_action is written, capture goes off, the agent is dialled.
Dial ==
  /\ tool = "hold"
  /\ action' = [on |-> TRUE, leg |-> NoLeg, answered |-> FALSE]
  /\ capture' = FALSE
  /\ stored' = TRUE
  /\ \/ /\ callee' = callee + 1
        /\ leg' = [leg EXCEPT ![callee + 1] = "ringing"]
        /\ tool' = "dial"
     \/ /\ "originate_fails" \in Faults
        /\ tool' = "refused"
        /\ UNCHANGED <<callee, leg>>
  /\ UNCHANGED <<caller, moh, bridge, talking, events, transferActive,
                 speaking, agent, ai, cleanup, reply, dropped>>

\* The tool returns: the model is given the result and answers it.
Return == tool' = "idle" /\ reply' = ai

\* Mutant: the guard is not started.
ArmNothing(g) == UNCHANGED guard

Arm(g) == guard' = [guard EXCEPT ![g] = "armed"]

\* The channel's id is known: it is recorded and mapped, the guard started.
Dialled ==
  /\ tool = "dial" /\ stored
  /\ action' = IF action.on THEN [action EXCEPT !.leg = callee] ELSE action
  /\ mapped' = mapped \cup {callee}
  /\ Arm(callee)
  /\ Return
  /\ UNCHANGED <<asterisk, events, stored, capture, transferActive, speaking,
                 digit, ai, answer, cleanup, callee, dropped>>

\* get_session raises when the session is gone: the leg is left to itself.
DialledTooLate ==
  /\ tool = "dial" /\ ~stored
  /\ Return
  /\ UNCHANGED <<asterisk, events, session, agent, ai, cleanup, callee,
                 dropped>>

\* _cleanup_failed_originate: the hold music stops, then the action goes.
RefusedUnhold ==
  /\ tool = "refused"
  /\ moh' = FALSE
  /\ tool' = "unhold"
  /\ UNCHANGED <<caller, leg, bridge, talking, events, session, agent, ai,
                 cleanup, callee, reply, dropped>>

RefusedReturn ==
  /\ tool = "unhold"
  /\ action' = IF stored THEN NoAction ELSE action
  /\ Return
  /\ UNCHANGED <<asterisk, events, stored, capture, transferActive, speaking,
                 agent, ai, cleanup, callee, dropped>>

\* Mutant: the mapping is kept while the leg is hung up.
KeepMapping(g) == UNCHANGED <<mapped, digit>>

\* _unregister_attended_transfer_agent_channel, but for the waiter.
Unregister(g) ==
  /\ mapped' = mapped \ {g}
  /\ digit' = [digit EXCEPT ![g] = "none"]

\* Unregistering cancels a waiter nobody has answered: its handler dies.
CancelWaiter(g) ==
  answer' = IF answer[g] = "wait" THEN [answer EXCEPT ![g] = "over"] ELSE answer

\* cancel_transfer, while the action has no answer.
Cancel ==
  /\ tool = "idle" /\ stored /\ ai /\ ~reply
  /\ action.on /\ ~action.answered
  /\ AnswerPending => "answer_in_flight" \in Timing
  /\ tool' = "cancel"
  /\ IF action.leg # NoLeg
     THEN /\ Unregister(action.leg)
          /\ CancelWaiter(action.leg)
          /\ Hangup(action.leg)
          /\ dropped' = dropped \cup {action.leg}
     ELSE UNCHANGED <<mapped, digit, answer, leg, talking, events, dropped>>
  /\ UNCHANGED <<caller, moh, bridge, session, guard, ai, cleanup, callee,
                 reply>>

CancelUnhold ==
  /\ tool = "cancel"
  /\ moh' = FALSE
  /\ tool' = "uncancel"
  /\ UNCHANGED <<caller, leg, bridge, talking, events, session, agent, ai,
                 cleanup, callee, reply, dropped>>

CancelReturn ==
  /\ tool = "uncancel"
  /\ action' = NoAction /\ capture' = TRUE /\ stored' = TRUE
  /\ Return
  /\ UNCHANGED <<asterisk, events, transferActive, speaking, agent, ai,
                 cleanup, callee, dropped>>

\* Blind transfer: the caller leaves the application for the dialplan.
BlindTransfer ==
  /\ tool = "idle" /\ stored /\ ai /\ ~reply
  /\ transferActive' = TRUE
  /\ IF caller = "up"
     THEN /\ caller' = "moved" /\ moh' = FALSE
          /\ Send("end", Caller)
     ELSE UNCHANGED <<caller, moh, events>>
  /\ UNCHANGED <<leg, bridge, talking, stored, action, capture, speaking,
                 agent, ai, cleanup, tools, dropped>>

\* The agent speaks: a gating token is set, capture is off.
Speak ==
  /\ ai /\ stored /\ ~speaking
  /\ speaking' = TRUE /\ capture' = FALSE /\ reply' = FALSE
  /\ UNCHANGED <<asterisk, events, stored, action, transferActive, agent, ai,
                 cleanup, tool, callee, dropped>>

SpeakEnd ==
  /\ speaking
  /\ speaking' = FALSE
  /\ capture' = IF stored THEN TRUE ELSE capture
  /\ UNCHANGED <<asterisk, events, stored, action, transferActive, agent, ai,
                 cleanup, tools, dropped>>

----------------------------------------------------------------------------
(* The answered leg: _handle_attended_transfer_answered.                   *)

Deliver(k, g) ==
  /\ events # <<>> /\ Head(events) = Ev(k, g)
  /\ events' = Tail(events)

\* Delivery that hangs the leg up: its end is queued behind the rest.
DeliverAndHangup(k, g) ==
  /\ events # <<>> /\ Head(events) = Ev(k, g)
  /\ IF leg[g] = "up"
     THEN /\ leg' = [leg EXCEPT ![g] = "gone"]
          /\ talking' = talking \ {g}
          /\ events' = Append(Tail(events), Ev("end", g))
     ELSE /\ events' = Tail(events)
          /\ UNCHANGED <<leg, talking>>

Goes(g, s) == answer' = [answer EXCEPT ![g] = s]

\* The call is gone or has no transfer any more: hang up.
AnsweredInVain(g) ==
  /\ ~stored \/ ~action.on
  /\ DeliverAndHangup("start", g)
  /\ Goes(g, "over")
  /\ IF stored THEN Unregister(g) ELSE UNCHANGED <<mapped, digit>>
  /\ dropped' = dropped \cup {g}
  /\ UNCHANGED <<caller, moh, bridge, session, guard, ai, cleanup, tools>>

\* Mutant: the leg that answers is not recorded.
AdoptNone(g) == [on |-> TRUE, leg |-> NoLeg, answered |-> TRUE]

\* The leg that answers becomes the leg of the action.
Adopt(g) == [on |-> TRUE, leg |-> g, answered |-> TRUE]

Answered(g) ==
  /\ stored /\ action.on
  /\ Deliver("start", g)
  /\ mapped' = mapped \cup {g}
  /\ action' = Adopt(g)
  /\ Goes(g, "announce")
  /\ UNCHANGED <<asterisk, stored, capture, transferActive, speaking, digit,
                 guard, ai, cleanup, tools, dropped>>

\* Abort, first part: unregister, hang up the agent.
Drop(g, s) ==
  /\ Unregister(g)
  /\ Hangup(g)
  /\ dropped' = dropped \cup {g}
  /\ Goes(g, s)
  /\ UNCHANGED <<caller, moh, bridge, session, guard, ai, cleanup, tools>>

\* The announcement or the prompt cannot be synthesized.
AnnounceFails(g) ==
  /\ "announce_fails" \in Faults
  /\ answer[g] \in {"announce", "prompt"}
  /\ Drop(g, "drop")

\* A digit pressed early is taken; otherwise the prompt is played.
Announced(g) ==
  /\ answer[g] = "announce"
  /\ Goes(g, IF digit[g] = "none" THEN "prompt" ELSE digit[g])
  /\ UNCHANGED <<asterisk, events, session, mapped, digit, guard, ai, cleanup,
                 tools, dropped>>

Prompted(g) ==
  /\ answer[g] = "prompt"
  /\ Goes(g, IF digit[g] = "none" THEN "wait" ELSE digit[g])
  /\ UNCHANGED <<asterisk, events, session, mapped, digit, guard, ai, cleanup,
                 tools, dropped>>

\* The first digit of a mapped leg is kept, and wakes the handler if it waits.
Digit(g, d) ==
  /\ Deliver(d, g)
  /\ IF g \in mapped
     THEN /\ digit' = [digit EXCEPT ![g] = IF @ = "none" THEN d ELSE @]
          /\ IF answer[g] = "wait" THEN Goes(g, d) ELSE UNCHANGED answer
     ELSE UNCHANGED <<digit, answer>>
  /\ UNCHANGED <<asterisk, session, mapped, guard, ai, cleanup, tools,
                 dropped>>

\* Mutant: the agent is waited for without a timeout.
WaitForEver(g) == FALSE

\* accept_timeout passes: no digit counts as a refusal.
WaitTimesOut(g) ==
  /\ answer[g] = "wait"
  /\ Goes(g, "no")
  /\ UNCHANGED <<asterisk, events, session, mapped, digit, guard, ai, cleanup,
                 tools, dropped>>

\* The decision finds no session: the handler fails on it.
DecideWithoutSession(g) ==
  /\ answer[g] \in {"yes", "no"} /\ ~stored
  /\ Goes(g, "over")
  /\ UNCHANGED <<asterisk, events, session, mapped, digit, guard, ai, cleanup,
                 tools, dropped>>

Decline(g) ==
  /\ answer[g] = "no" /\ stored
  /\ Drop(g, "refuse")

\* Abort, second part: the hold music stops.
AbortUnhold(g) ==
  /\ answer[g] \in {"refuse", "drop"}
  /\ moh' = FALSE
  /\ Goes(g, IF answer[g] = "refuse" THEN "apology" ELSE "resume")
  /\ UNCHANGED <<caller, leg, bridge, talking, events, session, mapped, digit,
                 guard, ai, cleanup, tools, dropped>>

\* After a refusal the caller is told so, with capture off.
Apologize(g) ==
  /\ answer[g] = "apology"
  /\ capture' = FALSE
  /\ Goes(g, "resume")
  /\ UNCHANGED <<asterisk, events, stored, action, transferActive, speaking,
                 mapped, digit, guard, ai, cleanup, tools, dropped>>

\* Mutant: capture is left as it is.
ResumeDeaf == action' = NoAction /\ stored' = TRUE /\ UNCHANGED capture

\* The caller is given back to the AI; the session is saved, even one that
\* cleanup has removed.
ResumeAi == action' = NoAction /\ stored' = TRUE /\ capture' = TRUE

Resume(g) ==
  /\ answer[g] = "resume"
  /\ ResumeAi
  /\ Unregister(g)
  /\ Goes(g, "over")
  /\ UNCHANGED <<asterisk, events, transferActive, speaking, guard, ai,
                 cleanup, tools, dropped>>

\* Accepted: the hold music stops, the caller hears the connecting prompt.
Accept(g) ==
  /\ answer[g] = "yes" /\ stored
  /\ moh' = FALSE
  /\ Goes(g, "accept")
  /\ UNCHANGED <<caller, leg, bridge, talking, events, session, mapped, digit,
                 guard, ai, cleanup, tools, dropped>>

\* Mutant: the provider session goes on.
KeepAi == UNCHANGED ai

StopAi == ai' = FALSE

\* The AI's media leaves the bridge, the provider session is stopped.
Detach(g) ==
  /\ answer[g] = "accept"
  /\ StopAi
  /\ Goes(g, "detached")
  /\ UNCHANGED <<asterisk, events, session, mapped, digit, guard, cleanup,
                 tools, dropped>>

\* The agent joins the bridge, if both are still there: a refused request is
\* logged and taken for a success.
Connect(g) ==
  /\ answer[g] = "detached"
  /\ talking' = IF leg[g] = "up" /\ bridge THEN talking \cup {g} ELSE talking
  /\ Goes(g, "bridged")
  /\ UNCHANGED <<caller, moh, leg, bridge, events, session, mapped, digit,
                 guard, ai, cleanup, tools, dropped>>

Connected(g) ==
  /\ answer[g] = "bridged"
  /\ stored' = TRUE
  /\ action' = IF action.on THEN Adopt(g) ELSE action
  /\ Goes(g, "over")
  /\ UNCHANGED <<asterisk, events, capture, transferActive, speaking, mapped,
                 digit, guard, ai, cleanup, tools, dropped>>

----------------------------------------------------------------------------
(* _attended_transfer_timeout_guard.                                       *)

GuardGoes(g, s) == guard' = [guard EXCEPT ![g] = s]

\* The guard sleeps two seconds longer than the leg may ring, so whatever
\* became of the leg has been handled.
GuardDue(g) == guard[g] = "armed" /\ leg[g] # "ringing" /\ ~Pending(g)

GuardUnanswered(g) == stored /\ action.on /\ action.leg = g /\ ~action.answered

GuardLeaves(g) ==
  /\ GuardDue(g) /\ ~GuardUnanswered(g)
  /\ GuardGoes(g, "over")
  /\ IF stored THEN UNCHANGED <<mapped, digit, answer>>
     ELSE Unregister(g) /\ CancelWaiter(g)
  /\ UNCHANGED <<asterisk, events, session, ai, cleanup, tools, dropped>>

GuardHangsUp(g) ==
  /\ GuardDue(g) /\ GuardUnanswered(g)
  /\ Unregister(g) /\ CancelWaiter(g)
  /\ Hangup(g)
  /\ dropped' = dropped \cup {g}
  /\ GuardGoes(g, "hungup")
  /\ UNCHANGED <<caller, moh, bridge, session, ai, cleanup, tools>>

GuardUnholds(g) ==
  /\ guard[g] = "hungup"
  /\ moh' = FALSE
  /\ GuardGoes(g, "unheld")
  /\ UNCHANGED <<caller, leg, bridge, talking, events, session, mapped, digit,
                 answer, ai, cleanup, tools, dropped>>

GuardResumes(g) ==
  /\ guard[g] = "unheld"
  /\ action' = NoAction /\ capture' = TRUE /\ stored' = TRUE
  /\ GuardGoes(g, "over")
  /\ UNCHANGED <<asterisk, events, transferActive, speaking, mapped, digit,
                 answer, ai, cleanup, tools, dropped>>

----------------------------------------------------------------------------
(* _cleanup_call, once per call: a later one finds the completed mark.     *)

\* Mutant: only the caller's channel is resolved.
ResolvesCaller(p) == stored /\ p = Caller

\* The call an ended channel is resolved to: the caller's by the session
\* store, an agent leg's by the mapping.
Resolves(p) == stored /\ (p = Caller \/ p \in mapped)

ChannelEnds(p) ==
  /\ Deliver("end", p)
  /\ cleanup' = IF Resolves(p) /\ cleanup = "no" THEN "begun" ELSE cleanup
  /\ UNCHANGED <<asterisk, session, agent, ai, tools, dropped>>

\* Playback is stopped; then the call's background tasks are cancelled, and
\* the provider session is stopped.
CleanupSilences ==
  /\ cleanup = "begun"
  /\ guard' = [g \in Legs |-> IF guard[g] = "none" THEN "none" ELSE "over"]
  /\ ai' = FALSE
  /\ cleanup' = "quiet"
  /\ UNCHANGED <<asterisk, events, session, mapped, digit, answer, tools,
                 dropped>>

CleanupBridge ==
  /\ cleanup = "quiet"
  /\ bridge' = FALSE /\ talking' = {}
  /\ cleanup' = "unbridged"
  /\ UNCHANGED <<caller, moh, leg, events, session, agent, ai, tools, dropped>>

ActionLegs == IF action.on THEN {action.leg} \ {NoLeg} ELSE {}

CleanupLegs ==
  /\ cleanup = "unbridged"
  /\ IF ActionLegs # {} THEN \E g \in ActionLegs : Hangup(g)
     ELSE UNCHANGED <<leg, talking, events>>
  /\ cleanup' = "unlegged"
  /\ UNCHANGED <<caller, moh, bridge, session, agent, ai, tools, dropped>>

\* The caller is hung up unless the call was transferred to the dialplan.
CleanupCaller ==
  /\ cleanup = "unlegged"
  /\ IF caller = "up" /\ ~transferActive
     THEN /\ caller' = "gone" /\ moh' = FALSE
          /\ Send("end", Caller)
     ELSE UNCHANGED <<caller, moh, events>>
  /\ cleanup' = "hungup"
  /\ UNCHANGED <<leg, bridge, talking, session, agent, ai, tools, dropped>>

\* Mutant: the mappings of the call stay.
KeepMappings == UNCHANGED <<mapped, digit, answer>>

\* Every mapping of the call goes, and the handlers that wait for a digit.
ForgetMappings ==
  /\ mapped' = {}
  /\ digit' = [g \in Legs |-> IF g \in mapped THEN "none" ELSE digit[g]]
  /\ answer' = [g \in Legs |->
                  IF g \in mapped /\ answer[g] = "wait" THEN "over"
                  ELSE answer[g]]

\* In a pipeline call the task that executes a tool is cancelled with the rest.
CleanupRemoves ==
  /\ cleanup = "hungup"
  /\ tool = "hold" => "slow_hold" \in Timing
  /\ stored' = FALSE
  /\ ForgetMappings
  /\ cleanup' = "done"
  /\ tool' \in {tool, "idle"}
  /\ UNCHANGED <<asterisk, events, action, capture, transferActive, speaking,
                 guard, ai, callee, reply, dropped>>

----------------------------------------------------------------------------

Tool ==
  \/ Dial \/ Dialled \/ DialledTooLate \/ RefusedUnhold \/ RefusedReturn
  \/ CancelUnhold \/ CancelReturn

Handler(g) ==
  \/ Announced(g) \/ Prompted(g) \/ WaitTimesOut(g) \/ DecideWithoutSession(g)
  \/ Decline(g) \/ AbortUnhold(g) \/ Apologize(g) \/ Resume(g)
  \/ Accept(g) \/ Detach(g) \/ Connect(g) \/ Connected(g)

Guard(g) ==
  GuardLeaves(g) \/ GuardHangsUp(g) \/ GuardUnholds(g) \/ GuardResumes(g)

Delivery ==
  \/ \E g \in Legs : AnsweredInVain(g) \/ Answered(g)
  \/ \E g \in Legs, d \in {"yes", "no"} : Digit(g, d)
  \/ \E p \in Legs \cup {Caller} : ChannelEnds(p)

Cleanup ==
  \/ CleanupSilences \/ CleanupBridge \/ CleanupLegs \/ CleanupCaller
  \/ CleanupRemoves

Next ==
  \/ CallerLeaves \/ Request \/ Cancel \/ BlindTransfer \/ Speak \/ SpeakEnd
  \/ Tool \/ Delivery \/ Cleanup
  \/ \E g \in Legs :
       \/ LegAnswers(g) \/ LegEnds(g) \/ AnnounceFails(g)
       \/ \E d \in {"yes", "no"} : AgentPresses(g, d)
       \/ Handler(g) \/ Guard(g)

Spec == Init /\ [][Next]_vars

\* Every task that can run does, an event that was sent is delivered, a leg
\* does not ring for ever, a playback ends, the model answers a tool's result.
Fairness ==
  /\ WF_vars(Tool) /\ WF_vars(Delivery) /\ WF_vars(Cleanup)
  /\ WF_vars(SpeakEnd) /\ WF_vars(reply /\ Speak)
  /\ \A g \in Legs :
       /\ WF_vars(Handler(g)) /\ WF_vars(Guard(g))
       /\ WF_vars(leg[g] = "ringing" /\ LegEnds(g))

FairSpec == Spec /\ Fairness

----------------------------------------------------------------------------
(* What the call is owed.                                                  *)

\* No task of the engine is at work on the call, and no event is on its way.
AtRest ==
  /\ events = <<>> /\ tool = "idle" /\ cleanup \in {"no", "done"}
  /\ \A g \in Legs : /\ answer[g] \in {"none", "over"}
                     /\ guard[g] \in {"none", "armed", "over"}

\* While the call goes on the caller always has somebody to talk to: when the
\* AI has been taken out of the bridge and nothing is under way, an agent is
\* in it.  (An agent may hang up between accepting and being bridged, and the
\* result of bridging is not looked at.)
NobodyAlone ==
  AtRest /\ cleanup = "no" /\ caller = "up" => ai \/ talking # {}

\* The caller never talks to two parties: neither to an agent while the AI
\* listens, nor to the agents of two transfers, although the leg of an earlier
\* transfer may still be answered while a later one is under way.
OneParty == Cardinality(talking) + (IF ai THEN 1 ELSE 0) <= 1

\* When a call is over and its tasks have ended, no agent channel is resolved
\* to it any more: tools and handlers still running when the cleanup removes
\* the mappings do not leave one behind.
MappingsReleased ==
  AtRest /\ cleanup = "done" /\ (\A g \in Legs : guard[g] # "armed")
    => mapped = {}

\* A leg the engine hangs up itself - declined, timed out, cancelled, answered
\* in vain - does not end the call when its end is reported.
DroppedLegKeepsCall ==
  [][\A g \in dropped :
       events # <<>> /\ Head(events) = Ev("end", g) /\ events' = Tail(events)
         => cleanup' = cleanup]_vars

\* A transfer nobody answered does not end the call: the guard's docstring and
\* the tool calling guide promise the caller goes back to the AI.
NoAnswerKeepsCall ==
  [][\A g \in {l \in Legs : answer[l] = "none"} :
       events # <<>> /\ Head(events) = Ev("end", g) /\ events' = Tail(events)
         => cleanup' = cleanup]_vars

\* A caller on hold is taken off it, whatever becomes of the agent's leg and
\* even when its events are lost, unless the caller leaves.
HoldEnds == moh ~> ~moh

\* Every transfer is settled: given up, connected - its own agent is in the
\* bridge - or the call is over.
TransferSettles ==
  action.on ~> ~action.on \/ action.leg \in talking \/ cleanup = "done"

\* A caller left with the AI is heard again after every transfer that came to
\* nothing.
CallerHeard ==
  (~action.on /\ ai /\ ~capture) ~> (capture \/ action.on \/ ~ai)

=============================================================================
