----------------------- MODULE OutboundDialerProofs ------------------------
(***************************************************************************)
(* Proofs about OutboundDialer for every value of its constants: its types,*)
(* its max_concurrent, that it implements CallSlots, and that it never     *)
(* calls a lead twice, with every fault, operator and crash.               *)
(***************************************************************************)
EXTENDS OutboundDialer, FiniteSetTheorems, TLAPS

USE DEF storeVars, asterisk, memory, schedVars, tasks, vars

----------------------------------------------------------------------------
(* The store's operations keep the types of its tables.                    *)

LEMMA SetLeadStateTypes ==
  ASSUME StoreTypeOK, NEW l, NEW s \in LeadState, SetLeadState(l, s)
  PROVE  StoreTypeOK'
BY DEF StoreTypeOK, SetLeadState, LeadSetTo

LEMMA FinishAttemptTypes ==
  ASSUME StoreTypeOK, NEW a, NEW o \in Outcome, FinishAttempt(a, o)
  PROVE  StoreTypeOK'
<1>1. CASE row[a].outcome \in {"none", "purged"}
  BY <1>1 DEF StoreTypeOK, FinishAttempt, Finished
<1>2. CASE row[a].outcome \notin {"none", "purged"}
  BY <1>2 DEF StoreTypeOK, FinishAttempt, Finished, Row
<1> QED BY <1>1, <1>2

LEMMA SetCampaignStatusTypes ==
  ASSUME StoreTypeOK, NEW s \in CampaignStatus, SetCampaignStatus(s)
  PROVE  StoreTypeOK'
BY DEF StoreTypeOK, SetCampaignStatus

LEMMA PurgedTypes ==
  ASSUME StoreTypeOK, NEW l
  PROVE  Purged(l) \in [Attempts -> Row]
BY DEF StoreTypeOK, Purged, Row, Outcome

LEMMA CleanupStaleTypes ==
  ASSUME StoreTypeOK, NEW old, CleanupStale(old)
  PROVE  StoreTypeOK'
BY DEF StoreTypeOK, CleanupStale, Row, Outcome, EndedOutcome, LeadState

LEMMA OperatorTypes ==
  ASSUME StoreTypeOK, Operator
  PROVE  StoreTypeOK'
<1>1. CASE StartCampaign \/ PauseCampaign \/ ArchiveCampaign
  BY <1>1 DEF StartCampaign, PauseCampaign, ArchiveCampaign, StoreTypeOK,
              SetCampaignStatus, CampaignStatus
<1>2. CASE StopCampaign
  BY <1>2 DEF StopCampaign, StoreTypeOK, CampaignStatus, LeadState
<1>3. ASSUME NEW l \in Leads,
             ImportLead(l) \/ CancelLead(l) \/ IgnoreLead(l) \/ RedialLead(l)
      PROVE  StoreTypeOK'
  BY <1>3 DEF ImportLead, CancelLead, IgnoreLead, RedialLead, StoreTypeOK,
              LeadState
<1>4. ASSUME NEW l \in Leads, ResetLead(l) \/ DeleteLead(l)
      PROVE  StoreTypeOK'
  BY <1>4, PurgedTypes DEF ResetLead, DeleteLead, StoreTypeOK, LeadState
<1> QED BY <1>1, <1>2, <1>3, <1>4 DEF Operator

----------------------------------------------------------------------------
(* The channels and their events keep their types.                         *)

LEMMA LastEventsType ==
  ASSUME NEW a
  PROVE  LastEvents(a) \in Seq(Event)
<1>1. "end" \in Event /\ "destroyed" \in Event
  BY DEF Event
<1>2. <<"end", "destroyed">> \in Seq(Event)
  BY <1>1
<1>3. <<"destroyed">> \in Seq(Event)
  BY <1>1
<1> QED BY <1>2, <1>3 DEF LastEvents

LEMMA RaiseTypes ==
  ASSUME ChannelTypes, NEW a, NEW es \in Seq(Event), Raise(a, es)
  PROVE  events' \in [Attempts -> Seq(Event)]
<1>1. CASE UNCHANGED events
  BY <1>1 DEF ChannelTypes
<1>2. CASE events' = [events EXCEPT ![a] = events[a] \o es]
  <2>1. \A b \in Attempts : events[b] \o es \in Seq(Event)
    BY DEF ChannelTypes
  <2> QED BY <1>2, <2>1 DEF ChannelTypes
<1> QED BY <1>1, <1>2 DEF Raise

LEMMA HangupTypes ==
  ASSUME ChannelTypes, NEW a, HangupChannel(a) \/ HangUp(a)
  PROVE  ChannelTypes'
<1>1. CASE UNCHANGED asterisk
  BY <1>1 DEF ChannelTypes
<1>2. CASE chan' = [chan EXCEPT ![a] = "gone"] /\ Raise(a, LastEvents(a))
  BY <1>2, LastEventsType, RaiseTypes DEF ChannelTypes, ChanState
<1> QED BY <1>1, <1>2 DEF HangupChannel, HangUp

LEMMA DispatchTypes ==
  ASSUME ChannelTypes, NEW a, NEW e, Dispatch(a, e)
  PROVE  ChannelTypes'
<1>1. \A b \in Attempts : events[b] # <<>> => Tail(events[b]) \in Seq(Event)
  BY DEF ChannelTypes
<1> QED BY <1>1 DEF ChannelTypes, Dispatch
----------------------------------------------------------------------------
(* Type correctness.                                                       *)

LEMMA ForgetTypes ==
  ASSUME NEW a, MemoryTypes
  PROVE  /\ Forget(metaA, a) \in [Attempts -> MetaState]
         /\ Forget(metaC, a) \in [Attempts -> MetaState \ {"nochan"}]
BY DEF Forget, MemoryTypes, MetaState

LEMMA NextStaleTypes ==
  ASSUME NEW S \in SUBSET Attempts, NextStale(S), SchedTypes,
         UNCHANGED <<curLead, idleSeen>>
  PROVE  SchedTypes'
BY DEF NextStale, SchedTypes, SchedState

LEMMA InitTypes == Init => TypeOK
<1> SUFFICES ASSUME Init PROVE TypeOK
  OBVIOUS
<1>1. StoreTypeOK
  BY DEF Init, StoreInit, StoreTypeOK, CampaignStatus, LeadState, Row, NoRow,
         Outcome
<1>2. ChannelTypes
  BY DEF Init, ChannelTypes, ChanState
<1>3. MemoryTypes
  BY DialerAssumption DEF Init, MemoryTypes, MetaState, SessionState
<1>4. SchedTypes /\ TaskTypes
  BY DEF Init, SchedTypes, TaskTypes, SchedState, AnsState, AmdState, DesState,
         ClnState
<1> QED BY <1>1, <1>2, <1>3, <1>4 DEF TypeOK

LEMMA SchedulerTypes ==
  ASSUME TypeOK, Scheduler
  PROVE  TypeOK'
<1> USE DEF TypeOK
<1>1. ASSUME NEW S \in SUBSET Attempts, BeginScan(S)
      PROVE  TypeOK'
  BY <1>1, NextStaleTypes
     DEF BeginScan, StoreTypeOK, ChannelTypes, MemoryTypes, TaskTypes
<1>2. CASE DogHangup
  <2>1. ChannelTypes'
    BY <1>2, HangupTypes DEF DogHangup, ChannelTypes
  <2>2. SchedTypes'
    BY <1>2, NextStaleTypes DEF DogHangup, SchedAt, SchedTypes, SchedState
  <2> QED BY <1>2, <2>1, <2>2 DEF DogHangup, StoreTypeOK, MemoryTypes, TaskTypes
<1>3. CASE DogFinish
  BY <1>3, FinishAttemptTypes
     DEF DogFinish, SchedAt, Outcome, EndedOutcome, ChannelTypes, MemoryTypes,
         SchedTypes, SchedState, TaskTypes
<1>4. CASE DogLead
  <2>1. StoreTypeOK'
    BY <1>4, SetLeadStateTypes DEF DogLead, LeadState
  <2>2. SchedTypes'
    BY <1>4, NextStaleTypes DEF DogLead, SchedTypes
  <2> QED BY <1>4, <2>1, <2>2, ForgetTypes
          DEF DogLead, ChannelTypes, MemoryTypes, TaskTypes
<1>5. CASE SchedList \/ SchedNoLead \/ SchedStats
  BY <1>5
     DEF SchedList, SchedNoLead, SchedStats, Idle, StoreTypeOK, ChannelTypes,
         MemoryTypes, SchedTypes, SchedState, SchedAt, TaskTypes
<1>6. CASE SchedComplete
  BY <1>6, SetCampaignStatusTypes
     DEF SchedComplete, CampaignStatus, ChannelTypes, MemoryTypes, SchedTypes,
         SchedState, SchedAt, TaskTypes
<1>7. ASSUME NEW a \in Attempts, SchedCreate(a)
      PROVE  TypeOK'
  BY <1>7
     DEF SchedCreate, CreateAttempt, StoreTypeOK, Row, Outcome, ChannelTypes,
         MemoryTypes, MetaState, SchedTypes, SchedState, SchedAt, TaskTypes
<1>8. ASSUME NEW l \in Leads, SchedLease(l)
      PROVE  TypeOK'
  BY <1>8
     DEF SchedLease, LeaseLead, StoreTypeOK, LeadState, ChannelTypes,
         MemoryTypes, SchedTypes, SchedState, SchedAt, TaskTypes
<1>9. CASE SchedMark
  BY <1>9
     DEF SchedMark, MarkLeadDialing, StoreTypeOK, LeadState, ChannelTypes,
         MemoryTypes, SchedTypes, SchedState, SchedAt, TaskTypes
<1>10. CASE SchedMarkFail
  BY <1>10, FinishAttemptTypes, ForgetTypes
     DEF SchedMarkFail, Outcome, EndedOutcome, ChannelTypes, MemoryTypes,
         SchedDone, SchedTypes, SchedState, SchedAt, TaskTypes
<1>11. CASE SchedOriginate
  BY <1>11
     DEF SchedOriginate, StoreTypeOK, ChannelTypes, ChanState, MemoryTypes,
         SchedTypes, SchedState, SchedAt, TaskTypes
<1>12. CASE SchedBind
  BY <1>12
     DEF SchedBind, Bound, StoreTypeOK, ChannelTypes, MemoryTypes, MetaState,
         SchedDone, SchedTypes, SchedState, SchedAt, TaskTypes
<1>13. CASE SchedOrigFail
  BY <1>13, FinishAttemptTypes
     DEF SchedOrigFail, Outcome, EndedOutcome, ChannelTypes, MemoryTypes,
         SchedTypes, SchedState, SchedAt, TaskTypes
<1>14. CASE SchedOrigLead
  BY <1>14, SetLeadStateTypes, ForgetTypes
     DEF SchedOrigLead, LeadState, ChannelTypes, MemoryTypes, SchedDone,
         SchedTypes, SchedState, SchedAt, TaskTypes
<1> QED
  BY <1>1, <1>2, <1>3, <1>4, <1>5, <1>6, <1>7, <1>8, <1>9, <1>10, <1>11, <1>12,
     <1>13, <1>14 DEF Scheduler

LEMMA ChannelStepTypes ==
  ASSUME TypeOK, NEW a \in Attempts,
         Answer(a) \/ DialplanReturn(a) \/ RemoteHangup(a)
  PROVE  TypeOK'
<1> USE DEF TypeOK
<1>1. <<"answered">> \in Seq(Event) /\ <<"amd">> \in Seq(Event)
  <2>1. "answered" \in Event /\ "amd" \in Event
    BY DEF Event
  <2> QED BY <2>1
<1>2. ChannelTypes'
  BY <1>1, RaiseTypes, HangupTypes
     DEF Answer, DialplanReturn, RemoteHangup, ChannelTypes, ChanState
<1> QED
  BY <1>2 DEF Answer, DialplanReturn, RemoteHangup, StoreTypeOK, MemoryTypes,
              SchedTypes, TaskTypes

LEMMA DispatcherTypes ==
  ASSUME TypeOK, NEW a \in Attempts, Dispatcher(a)
  PROVE  TypeOK'
<1> USE DEF TypeOK
<1>1. ChannelTypes'
  BY DispatchTypes
     DEF Dispatcher, DispatchAnswered, DispatchAmd, DispatchEnd,
         DispatchDestroyed
<1>2. StoreTypeOK' /\ SchedTypes'
  BY DEF Dispatcher, DispatchAnswered, DispatchAmd, DispatchEnd,
         DispatchDestroyed, Dispatch, StoreTypeOK, SchedTypes
<1>3. CASE DispatchAnswered(a)
  BY <1>1, <1>2, <1>3
     DEF DispatchAnswered, Dispatch, MemoryTypes, MetaState, TaskTypes, AnsState
<1>4. CASE DispatchAmd(a)
  BY <1>1, <1>2, <1>4
     DEF DispatchAmd, Dispatch, MemoryTypes, TaskTypes, AmdState
<1>5. CASE DispatchEnd(a)
  BY <1>1, <1>2, <1>5
     DEF DispatchEnd, Dispatch, CleanupAfter, MemoryTypes, TaskTypes, ClnState
<1>6. CASE DispatchDestroyed(a)
  <2>1. metaC' \in [Attempts -> MetaState \ {"nochan"}]
    BY <1>6, ForgetTypes DEF DispatchDestroyed, MemoryTypes
  <2>2. des' \in [Attempts -> DesState]
    BY <1>6 DEF DispatchDestroyed, TaskTypes, DesState
  <2>3. cln' \in [Attempts -> ClnState]
    BY <1>6 DEF DispatchDestroyed, CleanupAfter, TaskTypes, ClnState
  <2> QED BY <1>1, <1>2, <1>6, <2>1, <2>2, <2>3
          DEF DispatchDestroyed, Dispatch, MemoryTypes, TaskTypes
<1> QED BY <1>3, <1>4, <1>5, <1>6 DEF Dispatcher

LEMMA AnswerHandlerTypes ==
  ASSUME TypeOK, NEW a \in Attempts,
         \/ AnsLead(a) \/ AnsAdd(a) \/ AnsContinue(a) \/ AnsContinueFails(a)
         \/ AnsFailFinish(a) \/ AnsFailLead(a) \/ AnsHang(a)
  PROVE  TypeOK'
<1> USE DEF TypeOK, OthersThanAns
<1>1. CASE AnsLead(a)
  BY <1>1, SetLeadStateTypes
     DEF AnsLead, AnsAt, LeadState, ChannelTypes, MemoryTypes, SchedTypes,
         TaskTypes, AnsState
<1>2. CASE AnsAdd(a)
  BY <1>2 DEF AnsAdd, AnsAt, StoreTypeOK, ChannelTypes, MemoryTypes, SchedTypes,
              TaskTypes, AnsState
<1>7. CASE AnsContinueFails(a)
  <2>1. ans' \in [Attempts -> AnsState]
    BY <1>7 DEF AnsContinueFails, AnsAt, TaskTypes, AnsState
  <2>2. awaiting' \subseteq Attempts
    BY <1>7 DEF AnsContinueFails, MemoryTypes
  <2> QED BY <1>7, <2>1, <2>2
          DEF AnsContinueFails, StoreTypeOK, ChannelTypes, MemoryTypes,
              SchedTypes, TaskTypes
<1>3. CASE AnsContinue(a)
  <2>1. <<"end">> \in Seq(Event)
    <3>1. "end" \in Event
      BY DEF Event
    <3> QED BY <3>1
  <2>2. ChannelTypes'
    BY <1>3, <2>1, RaiseTypes DEF AnsContinue, ChannelTypes, ChanState
  <2> QED BY <1>3, <2>2
          DEF AnsContinue, AnsAt, StoreTypeOK, MemoryTypes, SchedTypes,
              TaskTypes, AnsState
<1>4. CASE AnsFailFinish(a)
  BY <1>4, FinishAttemptTypes
     DEF AnsFailFinish, AnsAt, Outcome, EndedOutcome, ChannelTypes,
         MemoryTypes, SchedTypes, TaskTypes, AnsState
<1>5. CASE AnsFailLead(a)
  BY <1>5, SetLeadStateTypes
     DEF AnsFailLead, AnsAt, LeadState, ChannelTypes, MemoryTypes, SchedTypes,
         TaskTypes, AnsState
<1>6. CASE AnsHang(a)
  BY <1>6, HangupTypes
     DEF AnsHang, AnsAt, StoreTypeOK, MemoryTypes, SchedTypes, TaskTypes,
         AnsState
<1> QED BY <1>1, <1>2, <1>3, <1>4, <1>5, <1>6, <1>7

LEMMA AmdSetsLeadTypes ==
  ASSUME StoreTypeOK, NEW a, NEW s \in LeadState, AmdSetsLead(a, s)
  PROVE  StoreTypeOK'
BY SetLeadStateTypes DEF AmdSetsLead, StoreTypeOK

LEMMA AmdHandlerTypes ==
  ASSUME TypeOK, NEW a \in Attempts,
         \/ AmdGate(a) \/ AmdMachineFinish(a) \/ AmdMachineLead(a)
         \/ AmdDeniedFinish(a) \/ AmdDeniedLead(a) \/ AmdHang(a)
         \/ AmdHumanLead(a) \/ AmdAttach(a) \/ AmdAttachFails(a) \/ AmdVars(a)
         \/ AmdTail(a)
  PROVE  TypeOK'
<1> USE DEF TypeOK, OthersThanAmd
<1>1. CASE AmdGate(a)
  BY <1>1 DEF AmdGate, AmdAt, StoreTypeOK, ChannelTypes, MemoryTypes,
              SchedTypes, TaskTypes, AmdState
<1>2. CASE AmdMachineFinish(a) \/ AmdDeniedFinish(a)
  BY <1>2, FinishAttemptTypes
     DEF AmdMachineFinish, AmdDeniedFinish, AmdEnds, AmdAt, Outcome,
         EndedOutcome, ChannelTypes, MemoryTypes, SchedTypes, TaskTypes,
         AmdState
<1>3. ASSUME NEW from, NEW s \in LeadState, AmdForgets(a, from, s)
      PROVE  TypeOK'
  <2>1. StoreTypeOK'
    BY <1>3, AmdSetsLeadTypes DEF AmdForgets
  <2>2. amd' \in [Attempts -> AmdState]
    BY <1>3 DEF AmdForgets, AmdAt, TaskTypes, AmdState
  <2> QED BY <1>3, <2>1, <2>2, ForgetTypes
          DEF AmdForgets, ChannelTypes, MemoryTypes, SchedTypes, TaskTypes
<1>4. CASE AmdHang(a)
  BY <1>4, HangupTypes
     DEF AmdHang, AmdAt, StoreTypeOK, MemoryTypes, SchedTypes, TaskTypes,
         AmdState
<1>5. CASE AmdHumanLead(a)
  BY <1>5, AmdSetsLeadTypes
     DEF AmdHumanLead, AmdAt, LeadState, ChannelTypes, MemoryTypes, SchedTypes,
         TaskTypes, AmdState
<1>6. CASE AmdAttach(a) \/ AmdAttachFails(a)
  BY <1>6
     DEF AmdAttach, AmdAttachFails, AmdAt, StoreTypeOK, ChannelTypes,
         MemoryTypes, SessionState, SchedTypes, TaskTypes, AmdState
<1>7. CASE AmdVars(a)
  <2>1. amd' \in [Attempts -> AmdState]
    BY <1>7 DEF AmdVars, AmdAt, TaskTypes, AmdState
  <2>2. session' \in [Attempts -> SessionState]
    BY <1>7 DEF AmdVars, MemoryTypes, SessionState
  <2> QED BY <1>7, <2>1, <2>2
          DEF AmdVars, StoreTypeOK, ChannelTypes, MemoryTypes, SchedTypes,
              TaskTypes
<1>8. CASE AmdTail(a)
  BY <1>8
     DEF AmdTail, AmdAt, StoreTypeOK, ChannelTypes, MemoryTypes, SessionState,
         SchedTypes, TaskTypes, AmdState
<1>9. CASE AmdMachineLead(a) \/ AmdDeniedLead(a)
  BY <1>3, <1>9 DEF AmdMachineLead, AmdDeniedLead, LeadState
<1> QED BY <1>1, <1>2, <1>4, <1>5, <1>6, <1>7, <1>8, <1>9

LEMMA EndHandlerTypes ==
  ASSUME TypeOK, NEW a \in Attempts,
         \/ DesFinish(a) \/ DesLead(a)
         \/ ClnHangup(a) \/ ClnHistory(a) \/ ClnHistoryLead(a) \/ ClnRemove(a)
  PROVE  TypeOK'
<1> USE DEF TypeOK, OthersThanDes, OthersThanCln
<1>1. CASE DesFinish(a)
  BY <1>1, FinishAttemptTypes
     DEF DesFinish, DesAt, Outcome, EndedOutcome, ChannelTypes, MemoryTypes,
         SchedTypes, TaskTypes, DesState
<1>2. CASE DesLead(a)
  <2>1. cln' \in [Attempts -> ClnState]
    BY <1>2 DEF DesLead, CleanupAfter, TaskTypes, ClnState
  <2> QED BY <1>2, <2>1, SetLeadStateTypes, ForgetTypes
          DEF DesLead, DesAt, LeadState, ChannelTypes, MemoryTypes, SchedTypes,
              TaskTypes, DesState
<1>3. CASE ClnHangup(a)
  BY <1>3, HangupTypes
     DEF ClnHangup, ClnAt, StoreTypeOK, MemoryTypes, SchedTypes, TaskTypes,
         ClnState
<1>4. CASE ClnHistory(a)
  <2>1. StoreTypeOK'
    BY <1>4, FinishAttemptTypes
       DEF ClnHistory, Outcome, EndedOutcome, StoreTypeOK
  <2> QED BY <1>4, <2>1
          DEF ClnHistory, ClnAt, ChannelTypes, MemoryTypes, SchedTypes,
              TaskTypes, ClnState
<1>5. CASE ClnHistoryLead(a)
  BY <1>5, SetLeadStateTypes, ForgetTypes
     DEF ClnHistoryLead, ClnAt, LeadState, ChannelTypes, MemoryTypes,
         SchedTypes, TaskTypes, ClnState
<1>6. CASE ClnRemove(a)
  BY <1>6
     DEF ClnRemove, ClnAt, StoreTypeOK, ChannelTypes, MemoryTypes,
         SessionState, SchedTypes, TaskTypes, ClnState
<1> QED BY <1>1, <1>2, <1>3, <1>4, <1>5, <1>6

LEMMA CrashTypes ==
  ASSUME TypeOK, Crash
  PROVE  TypeOK'
<1> USE DEF TypeOK
<1>1. StoreTypeOK' /\ ChannelTypes'
  BY DEF Crash, StoreTypeOK, ChannelTypes
<1>2. MemoryTypes'
  <2>1. crashes' \in 0..MaxCrashes
    BY DialerAssumption DEF Crash, MemoryTypes
  <2>2. up' \in BOOLEAN
    BY DEF Crash
  <2> QED BY <2>1, <2>2 DEF Crash, MemoryTypes, MetaState, SessionState
<1>3. SchedTypes' /\ TaskTypes'
  BY DEF Crash, SchedTypes, SchedState, TaskTypes, AnsState, AmdState, DesState,
         ClnState
<1> QED BY <1>1, <1>2, <1>3

\* No step, whatever the faults, the operator and the order of the tasks, takes
\* a variable out of its type.
LEMMA NextTypes == TypeOK /\ [Next]_vars => TypeOK'
<1> SUFFICES ASSUME TypeOK, [Next]_vars PROVE TypeOK'
  OBVIOUS
<1>1. CASE Scheduler
  BY <1>1, SchedulerTypes
<1>2. ASSUME NEW a \in Attempts,
             \/ Answer(a) \/ DialplanReturn(a) \/ RemoteHangup(a)
             \/ Dispatcher(a) \/ Handler(a)
      PROVE  TypeOK'
  BY <1>2, ChannelStepTypes, DispatcherTypes, AnswerHandlerTypes,
     AmdHandlerTypes, EndHandlerTypes DEF Handler
<1>3. CASE Operator
  BY <1>3, OperatorTypes
     DEF Operator, TypeOK, ChannelTypes, MemoryTypes, SchedTypes, TaskTypes
<1>4. CASE Crash
  BY <1>4, CrashTypes
<1>5. CASE Restart
  BY <1>5, CleanupStaleTypes
     DEF Restart, TypeOK, ChannelTypes, MemoryTypes, SchedTypes, TaskTypes
<1>6. CASE UNCHANGED vars
  BY <1>6 DEF TypeOK, StoreTypeOK, ChannelTypes, MemoryTypes, SchedTypes,
              TaskTypes
<1> QED BY <1>1, <1>2, <1>3, <1>4, <1>5, <1>6 DEF Next

\* Type correctness of the dialer: the engine's tasks leave its maps and tables
\* well formed, also a meta dropped by one task and stored again by another.
THEOREM TypeCorrect == Spec => []TypeOK
BY InitTypes, NextTypes, PTL DEF Spec

----------------------------------------------------------------------------
(* What the steps leave alone.                                             *)

HasMeta == {"nochan", "chan"}

\* A lead that may still be leased.
Leasable == {"absent", "pending", "leased"}

----------------------------------------------------------------------------
(* What the steps that create, dial and bind no attempt leave alone.       *)

\* Attempts: none is created, and none changes its lead.
RowsKept ==
  \A a \in Attempts : row'[a].lead = row[a].lead /\ (Fresh(a)' <=> Fresh(a))

\* Metas: one may be dropped, or given its channel, but none appears.
MetasKept ==
  \A a \in Attempts :
    \/ metaA'[a] \in {metaA[a], "none"}
    \/ metaA[a] \in HasMeta /\ metaA'[a] \in HasMeta

\* Channels: none is dialed.
ChansKept == \A a \in Attempts : chan'[a] = "none" <=> chan[a] = "none"

\* Leads: none becomes leasable again.
LeadsKept == \A l \in Leads : lead'[l] \in Leasable => lead[l] \in Leasable

\* The scheduler: it stays where it is, or the engine is down.
SchedKept ==
  \/ UNCHANGED <<sched, cur, curLead>>
  \/ sched' = "idle"

\* An attempt id not used yet.
FreshInv ==
  \A a \in Attempts :
    Fresh(a) => row[a].lead = NoLead /\ metaA[a] = "none" /\ chan[a] = "none"

\* The operator sends no lead back to pending.
NoRecycling == OperatorOps \cap {"redial", "reset"} = {}

LEMMA SetLeadStateKeeps ==
  ASSUME TypeOK, NEW l, NEW s \in LeadState \ Leasable, SetLeadState(l, s)
  PROVE  RowsKept /\ LeadsKept
BY DEF TypeOK, StoreTypeOK, SetLeadState, LeadSetTo, RowsKept, LeadsKept, Fresh

LEMMA FinishAttemptKeeps ==
  ASSUME TypeOK, NEW a, NEW o \in EndedOutcome, FinishAttempt(a, o)
  PROVE  RowsKept /\ LeadsKept
<1>1. CASE row[a].outcome \in {"none", "purged"}
  BY <1>1 DEF FinishAttempt, Finished, RowsKept, LeadsKept, Fresh
<1>2. CASE row[a].outcome \notin {"none", "purged"}
  BY <1>2 DEF TypeOK, StoreTypeOK, Row, FinishAttempt, Finished, EndedOutcome,
              RowsKept, LeadsKept, Fresh
<1> QED BY <1>1, <1>2

LEMMA PurgedKeeps ==
  ASSUME TypeOK, FreshInv, NEW l \in Leads, row' = Purged(l)
  PROVE  RowsKept
BY LeadsAssumption
   DEF TypeOK, StoreTypeOK, Row, FreshInv, Fresh, Purged, RowsKept

LEMMA CleanupStaleKeeps ==
  ASSUME TypeOK, NEW old, CleanupStale(old)
  PROVE  RowsKept /\ LeadsKept
BY DEF TypeOK, StoreTypeOK, Row, CleanupStale, Open, RowsKept, LeadsKept, Fresh,
       Leasable

LEMMA OperatorKeeps ==
  ASSUME TypeOK, FreshInv, Operator
  PROVE  RowsKept /\ (NoRecycling => LeadsKept)
<1> USE DEF TypeOK, StoreTypeOK
<1>1. ASSUME UNCHANGED row PROVE RowsKept
  BY <1>1 DEF RowsKept, Fresh
<1>2. ASSUME StartCampaign \/ PauseCampaign \/ ArchiveCampaign
      PROVE  RowsKept /\ LeadsKept
  <2>1. UNCHANGED <<lead, row>>
    BY <1>2 DEF StartCampaign, PauseCampaign, ArchiveCampaign,
                SetCampaignStatus
  <2> QED BY <1>1, <2>1 DEF LeadsKept
<1>3. ASSUME StopCampaign PROVE RowsKept /\ LeadsKept
  BY <1>1, <1>3 DEF StopCampaign, LeadsKept, Leasable
<1>4. ASSUME NEW l \in Leads,
             \/ Allowed("import") /\ ImportLead(l)
             \/ Allowed("cancel") /\ CancelLead(l)
             \/ Allowed("ignore") /\ IgnoreLead(l)
      PROVE  RowsKept /\ LeadsKept
  BY <1>1, <1>4 DEF ImportLead, CancelLead, IgnoreLead, LeadsKept, Leasable
<1>5. ASSUME NEW l \in Leads,
             \/ Allowed("redial") /\ RedialLead(l)
             \/ Allowed("reset") /\ ResetLead(l)
      PROVE  RowsKept /\ ~NoRecycling
  <2>1. ~NoRecycling
    BY <1>5 DEF Allowed, NoRecycling
  <2>2. RowsKept
    BY <1>1, <1>5, PurgedKeeps DEF RedialLead, ResetLead
  <2> QED BY <2>1, <2>2
<1>6. ASSUME NEW l \in Leads, Allowed("delete") /\ DeleteLead(l)
      PROVE  RowsKept /\ LeadsKept
  BY <1>6, PurgedKeeps DEF DeleteLead, LeadsKept, Leasable
<1> QED BY <1>2, <1>3, <1>4, <1>5, <1>6 DEF Operator

LEMMA HangupKeeps ==
  ASSUME TypeOK, NEW a, HangupChannel(a) \/ HangUp(a)
  PROVE  ChansKept
<1>1. CASE UNCHANGED chan
  BY <1>1 DEF ChansKept
<1>2. CASE chan' = [chan EXCEPT ![a] = "gone"] /\ Live(a)
  BY <1>2 DEF TypeOK, ChannelTypes, Live, ChansKept
<1> QED BY <1>1, <1>2 DEF HangupChannel, HangUp

LEMMA ForgetKeeps ==
  ASSUME TypeOK, NEW a, metaA' = Forget(metaA, a)
  PROVE  MetasKept
BY DEF TypeOK, MemoryTypes, Forget, MetasKept

LEMMA SameKeeps ==
  /\ UNCHANGED row => RowsKept
  /\ UNCHANGED metaA => MetasKept
  /\ UNCHANGED chan => ChansKept
  /\ UNCHANGED lead => LeadsKept
BY DEF RowsKept, MetasKept, ChansKept, LeadsKept, Fresh

Kept == RowsKept /\ MetasKept /\ ChansKept /\ LeadsKept /\ SchedKept

LEMMA ChannelStepKeeps ==
  ASSUME TypeOK, NEW a \in Attempts,
         Answer(a) \/ DialplanReturn(a) \/ RemoteHangup(a)
  PROVE  Kept
<1>1. ChansKept
  <2>1. CASE RemoteHangup(a)
    BY <2>1, HangupKeeps DEF RemoteHangup
  <2>2. CASE Answer(a) \/ DialplanReturn(a)
    BY <2>2 DEF Answer, DialplanReturn, TypeOK, ChannelTypes, ChansKept
  <2> QED BY <2>1, <2>2
<1>2. UNCHANGED <<row, metaA, lead, sched, cur, curLead>>
  BY DEF Answer, DialplanReturn, RemoteHangup
<1> QED BY <1>1, <1>2, SameKeeps DEF Kept, SchedKept

LEMMA DispatcherKeeps ==
  ASSUME TypeOK, NEW a \in Attempts, Dispatcher(a)
  PROVE  Kept
<1>1. UNCHANGED <<row, chan, lead, sched, cur, curLead>>
  BY DEF Dispatcher, DispatchAnswered, DispatchAmd, DispatchEnd,
         DispatchDestroyed, Dispatch
<1>2. MetasKept
  <2>1. CASE UNCHANGED metaA
    BY <2>1, SameKeeps
  <2>2. CASE a \in Tracked /\ metaA' = [metaA EXCEPT ![a] = "chan"]
    BY <2>2 DEF TypeOK, MemoryTypes, Tracked, MetasKept, HasMeta
  <2> QED BY <2>1, <2>2
          DEF Dispatcher, DispatchAnswered, DispatchAmd, DispatchEnd,
              DispatchDestroyed
<1> QED BY <1>1, <1>2, SameKeeps DEF Kept, SchedKept

LEMMA AnswerHandlerKeeps ==
  ASSUME TypeOK, NEW a \in Attempts,
         \/ AnsLead(a) \/ AnsAdd(a) \/ AnsContinue(a) \/ AnsContinueFails(a)
         \/ AnsFailFinish(a) \/ AnsFailLead(a) \/ AnsHang(a)
  PROVE  Kept
<1> USE SameKeeps DEF OthersThanAns
<1>1. UNCHANGED <<metaA, sched, cur, curLead>>
  BY DEF AnsLead, AnsAdd, AnsContinue, AnsContinueFails, AnsFailFinish,
         AnsFailLead, AnsHang
<1>2. CASE AnsLead(a) \/ AnsFailLead(a)
  <2>1. RowsKept /\ LeadsKept
    BY <1>2, SetLeadStateKeeps DEF AnsLead, AnsFailLead, LeadState, Leasable
  <2> QED BY <1>1, <1>2, <2>1 DEF AnsLead, AnsFailLead, Kept, SchedKept
<1>3. CASE AnsAdd(a) \/ AnsContinueFails(a)
  BY <1>1, <1>3 DEF AnsAdd, AnsContinueFails, Kept, SchedKept
<1>4. CASE AnsContinue(a)
  <2>1. ChansKept
    BY <1>4 DEF AnsContinue, TypeOK, ChannelTypes, ChansKept
  <2> QED BY <1>1, <1>4, <2>1 DEF AnsContinue, Kept, SchedKept
<1>5. CASE AnsFailFinish(a)
  <2>1. RowsKept /\ LeadsKept
    BY <1>5, FinishAttemptKeeps DEF AnsFailFinish, EndedOutcome
  <2> QED BY <1>1, <1>5, <2>1 DEF AnsFailFinish, Kept, SchedKept
<1>6. CASE AnsHang(a)
  <2>1. ChansKept
    BY <1>6, HangupKeeps DEF AnsHang
  <2> QED BY <1>1, <1>6, <2>1 DEF AnsHang, Kept, SchedKept
<1> QED BY <1>2, <1>3, <1>4, <1>5, <1>6

LEMMA AmdHandlerKeeps ==
  ASSUME TypeOK, NEW a \in Attempts,
         \/ AmdGate(a) \/ AmdMachineFinish(a) \/ AmdMachineLead(a)
         \/ AmdDeniedFinish(a) \/ AmdDeniedLead(a) \/ AmdHang(a)
         \/ AmdHumanLead(a) \/ AmdAttach(a) \/ AmdAttachFails(a) \/ AmdVars(a)
         \/ AmdTail(a)
  PROVE  Kept
<1> USE SameKeeps DEF OthersThanAmd
<1>1. UNCHANGED <<sched, cur, curLead>>
  BY DEF AmdGate, AmdMachineFinish, AmdMachineLead, AmdDeniedFinish,
         AmdDeniedLead, AmdHang, AmdHumanLead, AmdAttach, AmdAttachFails,
         AmdVars, AmdTail, AmdEnds, AmdForgets
<1>2. ASSUME NEW s \in LeadState \ Leasable, AmdSetsLead(a, s)
      PROVE  RowsKept /\ LeadsKept
  BY <1>2, SetLeadStateKeeps DEF AmdSetsLead
<1>3. CASE AmdMachineFinish(a) \/ AmdDeniedFinish(a)
  <2>1. RowsKept /\ LeadsKept
    BY <1>3, FinishAttemptKeeps
       DEF AmdMachineFinish, AmdDeniedFinish, AmdEnds, EndedOutcome
  <2> QED BY <1>1, <1>3, <2>1
          DEF AmdMachineFinish, AmdDeniedFinish, AmdEnds, Kept, SchedKept
<1>4. CASE AmdMachineLead(a) \/ AmdDeniedLead(a)
  <2>1. RowsKept /\ LeadsKept
    BY <1>2, <1>4
       DEF AmdMachineLead, AmdDeniedLead, AmdForgets, LeadState, Leasable
  <2>2. MetasKept
    BY <1>4, ForgetKeeps DEF AmdMachineLead, AmdDeniedLead, AmdForgets
  <2> QED BY <1>1, <1>4, <2>1, <2>2
          DEF AmdMachineLead, AmdDeniedLead, AmdForgets, Kept, SchedKept
<1>5. CASE AmdHang(a)
  <2>1. ChansKept
    BY <1>5, HangupKeeps DEF AmdHang
  <2> QED BY <1>1, <1>5, <2>1 DEF AmdHang, Kept, SchedKept
<1>6. CASE AmdHumanLead(a)
  <2>1. RowsKept /\ LeadsKept
    BY <1>2, <1>6 DEF AmdHumanLead, LeadState, Leasable
  <2> QED BY <1>1, <1>6, <2>1 DEF AmdHumanLead, Kept, SchedKept
<1>7. CASE AmdGate(a) \/ AmdAttach(a) \/ AmdAttachFails(a) \/ AmdVars(a)
           \/ AmdTail(a)
  <2>1. UNCHANGED <<row, lead, chan, metaA>>
    BY <1>7 DEF AmdGate, AmdAttach, AmdAttachFails, AmdVars, AmdTail
  <2> QED BY <1>1, <2>1 DEF Kept, SchedKept
<1> QED BY <1>3, <1>4, <1>5, <1>6, <1>7

LEMMA EndHandlerKeeps ==
  ASSUME TypeOK, NEW a \in Attempts,
         \/ DesFinish(a) \/ DesLead(a)
         \/ ClnHangup(a) \/ ClnHistory(a) \/ ClnHistoryLead(a) \/ ClnRemove(a)
  PROVE  Kept
<1> USE SameKeeps DEF OthersThanDes, OthersThanCln
<1>1. UNCHANGED <<sched, cur, curLead>>
  BY DEF DesFinish, DesLead, ClnHangup, ClnHistory, ClnHistoryLead, ClnRemove
<1>2. CASE DesFinish(a)
  <2>1. RowsKept /\ LeadsKept
    BY <1>2, FinishAttemptKeeps DEF DesFinish, EndedOutcome
  <2> QED BY <1>1, <1>2, <2>1 DEF DesFinish, Kept, SchedKept
<1>3. CASE DesLead(a) \/ ClnHistoryLead(a)
  <2>1. RowsKept /\ LeadsKept
    BY <1>3, SetLeadStateKeeps
       DEF DesLead, ClnHistoryLead, LeadState, Leasable
  <2>2. MetasKept
    BY <1>3, ForgetKeeps DEF DesLead, ClnHistoryLead
  <2> QED BY <1>1, <1>3, <2>1, <2>2 DEF DesLead, ClnHistoryLead, Kept, SchedKept
<1>4. CASE ClnHangup(a)
  <2>1. ChansKept
    BY <1>4, HangupKeeps DEF ClnHangup
  <2> QED BY <1>1, <1>4, <2>1 DEF ClnHangup, Kept, SchedKept
<1>5. CASE ClnHistory(a)
  <2>1. RowsKept /\ LeadsKept
    BY <1>5, FinishAttemptKeeps DEF ClnHistory, EndedOutcome
  <2> QED BY <1>1, <1>5, <2>1 DEF ClnHistory, Kept, SchedKept
<1>6. CASE ClnRemove(a)
  BY <1>1, <1>6 DEF ClnRemove, Kept, SchedKept
<1> QED BY <1>2, <1>3, <1>4, <1>5, <1>6

\* Every step but the scheduler's: no attempt, no meta and no channel appears.
LEMMA OthersKeep ==
  ASSUME TypeOK, FreshInv,
         \/ \E a \in Attempts :
              \/ Answer(a) \/ DialplanReturn(a) \/ RemoteHangup(a)
              \/ Dispatcher(a) \/ Handler(a)
         \/ Operator \/ Crash \/ Restart \/ UNCHANGED vars
  PROVE  /\ RowsKept /\ MetasKept /\ ChansKept /\ SchedKept
         /\ NoRecycling => LeadsKept
<1> USE SameKeeps
<1>1. ASSUME NEW a \in Attempts,
             \/ Answer(a) \/ DialplanReturn(a) \/ RemoteHangup(a)
             \/ Dispatcher(a) \/ Handler(a)
      PROVE  Kept
  BY <1>1, ChannelStepKeeps, DispatcherKeeps, AnswerHandlerKeeps,
     AmdHandlerKeeps, EndHandlerKeeps DEF Handler
<1>2. CASE Operator
  <2>1. UNCHANGED <<metaA, chan, sched, cur, curLead>>
    BY <1>2 DEF Operator
  <2> QED BY <1>2, <2>1, OperatorKeeps DEF SchedKept
<1>3. CASE Crash
  <2>1. MetasKept
    BY <1>3 DEF Crash, MetasKept
  <2> QED BY <1>3, <2>1 DEF Crash, SchedKept
<1>4. CASE Restart
  <2>1. RowsKept /\ LeadsKept
    BY <1>4, CleanupStaleKeeps DEF Restart
  <2> QED BY <1>4, <2>1 DEF Restart, SchedKept
<1>5. CASE UNCHANGED vars
  BY <1>5 DEF SchedKept
<1> QED BY <1>1, <1>2, <1>3, <1>4, <1>5 DEF Kept

----------------------------------------------------------------------------
(* The call slots.                                                         *)

Placing == {"mark", "originate", "bind"}

\* The capacity found by SchedList is still there when the attempt is created,
\* two store calls later, and the meta bound after the originate is no longer
\* counted or has been counted all along.
SlotInv ==
  /\ TypeOK
  /\ FreshInv
  /\ sched \in Placing =>
       cur \in Attempts /\ ~Fresh(cur) /\ metaA[cur] # "ghost"
  /\ sched \in {"lease", "create"} => Cardinality(Tracked) < MaxConcurrent
  /\ CapacityRespected

LEMMA TrackedFinite ==
  /\ IsFiniteSet(Tracked) /\ Cardinality(Tracked) \in Nat
  /\ IsFiniteSet(Tracked') /\ Cardinality(Tracked') \in Nat
  /\ IsFiniteSet(Active) /\ Cardinality(Active) \in Nat
BY FiniteAssumption, FS_Subset, FS_CardinalityType DEF Tracked, Active

LEMMA TrackedShrinks ==
  ASSUME MetasKept
  PROVE  Tracked' \subseteq Tracked
BY DEF MetasKept, Tracked, HasMeta

LEMMA CountShrinks ==
  ASSUME Tracked' \subseteq Tracked
  PROVE  Cardinality(Tracked') <= Cardinality(Tracked)
BY TrackedFinite, FS_Subset

LEMMA FreshKept ==
  ASSUME FreshInv, RowsKept, MetasKept, ChansKept
  PROVE  FreshInv'
BY DEF FreshInv, RowsKept, MetasKept, ChansKept, Fresh, HasMeta

\* Steps of the scheduler after which it neither dials nor is about to.
Away ==
  \/ \E S \in SUBSET Attempts : BeginScan(S)
  \/ DogHangup \/ DogFinish \/ DogLead
  \/ SchedNoLead \/ SchedStats \/ SchedComplete
  \/ SchedMarkFail \/ SchedOrigFail \/ SchedOrigLead

LEMMA NextStaleAway ==
  ASSUME NEW S, NextStale(S)
  PROVE  sched' \in {"list", "dogHangup"}
BY DEF NextStale

LEMMA AwayKeeps ==
  ASSUME TypeOK, Away
  PROVE  /\ RowsKept /\ MetasKept /\ ChansKept /\ LeadsKept
         /\ sched' \in SchedState \ (Placing \cup {"lease", "create"})
<1> USE SameKeeps
<1>1. CASE \E S \in SUBSET Attempts : BeginScan(S)
  BY <1>1, NextStaleAway DEF BeginScan, Placing, SchedState
<1>2. CASE DogHangup
  <2>1. ChansKept
    BY <1>2, HangupKeeps DEF DogHangup
  <2>2. sched' \in {"list", "dogHangup", "dogFinish"}
    BY <1>2, NextStaleAway DEF DogHangup, SchedAt
  <2> QED BY <1>2, <2>1, <2>2 DEF DogHangup, Placing, SchedState
<1>3. CASE DogFinish
  <2>1. RowsKept /\ LeadsKept
    BY <1>3, FinishAttemptKeeps DEF DogFinish, EndedOutcome
  <2> QED BY <1>3, <2>1 DEF DogFinish, SchedAt, Placing, SchedState
<1>4. CASE DogLead
  <2>1. RowsKept /\ LeadsKept
    BY <1>4, SetLeadStateKeeps DEF DogLead, LeadState, Leasable
  <2>2. MetasKept
    BY <1>4, ForgetKeeps DEF DogLead
  <2> QED BY <1>4, <2>1, <2>2, NextStaleAway DEF DogLead, Placing, SchedState
<1>5. CASE SchedNoLead \/ SchedStats \/ SchedComplete
  <2>1. UNCHANGED <<row, lead, chan, metaA>>
    BY <1>5 DEF SchedNoLead, SchedStats, SchedComplete, SetCampaignStatus
  <2>2. sched' \in {"stats", "complete", "idle"}
    BY <1>5 DEF SchedNoLead, SchedStats, SchedComplete, SchedAt
  <2> QED BY <2>1, <2>2 DEF Placing, SchedState
<1>6. CASE SchedMarkFail \/ SchedOrigFail
  <2>1. RowsKept /\ LeadsKept
    BY <1>6, FinishAttemptKeeps DEF SchedMarkFail, SchedOrigFail, EndedOutcome
  <2>2. MetasKept
    BY <1>6, ForgetKeeps DEF SchedMarkFail, SchedOrigFail
  <2> QED BY <1>6, <2>1, <2>2
          DEF SchedMarkFail, SchedOrigFail, SchedDone, SchedAt, Placing,
              SchedState
<1>7. CASE SchedOrigLead
  <2>1. RowsKept /\ LeadsKept
    BY <1>7, SetLeadStateKeeps DEF SchedOrigLead, LeadState, Leasable
  <2>2. MetasKept
    BY <1>7, ForgetKeeps DEF SchedOrigLead
  <2> QED BY <1>7, <2>1, <2>2
          DEF SchedOrigLead, SchedDone, SchedAt, Placing, SchedState
<1> QED BY <1>1, <1>2, <1>3, <1>4, <1>5, <1>6, <1>7 DEF Away

LEMMA InitSlots == Init => SlotInv
<1> SUFFICES ASSUME Init PROVE SlotInv
  OBVIOUS
<1>1. FreshInv
  BY DEF Init, StoreInit, FreshInv, Fresh, NoRow
<1>2. Tracked = {}
  BY DEF Init, Tracked
<1>3. CapacityRespected
  BY <1>2, FS_EmptySet, DialerAssumption DEF CapacityRespected
<1> QED BY <1>1, <1>3, InitTypes DEF Init, SlotInv, Placing

\* A step that lets no meta appear keeps the invariant, if the scheduler stays
\* where it was or is away.
LEMMA KeptSlots ==
  ASSUME SlotInv, TypeOK', RowsKept, MetasKept, ChansKept,
         \/ SchedKept
         \/ sched' \notin Placing \cup {"lease", "create"}
  PROVE  SlotInv'
<1>1. FreshInv'
  BY FreshKept DEF SlotInv
<1>2. Cardinality(Tracked') <= Cardinality(Tracked)
  BY TrackedShrinks, CountShrinks
<1>3. CapacityRespected'
  BY <1>2, TrackedFinite, DialerAssumption
     DEF SlotInv, CapacityRespected
<1>4. sched' \in {"lease", "create"} => Cardinality(Tracked)' < MaxConcurrent
  BY <1>2, TrackedFinite, DialerAssumption
     DEF SlotInv, SchedKept
<1>5. sched' \in Placing =>
        cur' \in Attempts /\ ~Fresh(cur)' /\ metaA'[cur'] # "ghost"
  BY DEF SlotInv, SchedKept, RowsKept, MetasKept, HasMeta, Placing, Fresh
<1> QED BY <1>1, <1>3, <1>4, <1>5 DEF SlotInv

\* What a step does to the slots: it takes one for a new attempt, or gives some
\* back, or leaves them alone.
SlotStep ==
  \/ \E a \in Attempts :
       /\ Fresh(a)
       /\ Cardinality(Tracked) < MaxConcurrent
       /\ Tracked' = Tracked \cup {a}
       /\ \A b \in Attempts : Fresh(b)' <=> Fresh(b) /\ b # a
  \/ /\ Tracked' \subseteq Tracked
     /\ \A b \in Attempts : Fresh(b)' <=> Fresh(b)

LEMMA KeptSlotStep ==
  ASSUME RowsKept, MetasKept
  PROVE  SlotStep
BY TrackedShrinks DEF RowsKept, SlotStep

LEMMA CreateSlots ==
  ASSUME SlotInv, TypeOK', NEW a \in Attempts, SchedCreate(a)
  PROVE  SlotInv' /\ SlotStep
<1> USE DEF SchedCreate, CreateAttempt, SchedAt
<1>1. row[a].outcome = "none" /\ a \notin Tracked
  BY DEF SlotInv, FreshInv, Fresh, Tracked
<1>2. Tracked' = Tracked \cup {a}
  BY DEF SlotInv, TypeOK, MemoryTypes, Tracked
<1>3. \A b \in Attempts : Fresh(b)' <=> Fresh(b) /\ b # a
  BY DEF SlotInv, TypeOK, StoreTypeOK, Fresh
<1>4. Cardinality(Tracked) < MaxConcurrent
  BY DEF SlotInv
<1>5. CapacityRespected'
  BY <1>1, <1>2, <1>4, TrackedFinite, FS_AddElement, DialerAssumption
     DEF CapacityRespected
<1>6. FreshInv'
  <2> SUFFICES ASSUME NEW b \in Attempts, Fresh(b)'
               PROVE  row'[b].lead = NoLead /\ metaA'[b] = "none" /\ chan'[b] = "none"
    BY DEF FreshInv
  <2>1. Fresh(b) /\ b # a
    BY <1>3
  <2> QED BY <2>1 DEF SlotInv, FreshInv, TypeOK, StoreTypeOK, MemoryTypes
<1>7. cur' \in Attempts /\ ~Fresh(cur)' /\ metaA'[cur'] # "ghost"
  BY <1>3 DEF SlotInv, TypeOK, MemoryTypes
<1> QED BY <1>1, <1>2, <1>3, <1>4, <1>5, <1>6, <1>7 DEF SlotInv, SlotStep, Fresh

LEMMA SchedulerSlots ==
  ASSUME SlotInv, TypeOK', Scheduler
  PROVE  SlotInv' /\ SlotStep
<1> USE SameKeeps, KeptSlots, KeptSlotStep
<1>1. CASE Away
  BY <1>1, AwayKeeps DEF SlotInv
<1>2. CASE SchedList
  <2>1. RowsKept /\ MetasKept /\ ChansKept
    BY <1>2 DEF SchedList
  <2>2. CASE sched' = "idle"
    BY <2>1, <2>2 DEF Placing
  <2>3. CASE sched' = "lease" /\ Capacity > 0
    <3>1. Tracked' = Tracked
      BY <1>2 DEF SchedList, Tracked
    <3>2. Cardinality(Tracked) < MaxConcurrent
      BY <2>3, TrackedFinite, DialerAssumption DEF Capacity
    <3>3. FreshInv' /\ CapacityRespected'
      BY <2>1, <3>1, FreshKept DEF SlotInv, CapacityRespected
    <3> QED BY <2>1, <2>3, <3>1, <3>2, <3>3 DEF SlotInv, Placing
  <2> QED BY <1>2, <2>2, <2>3 DEF SchedList
<1>3. ASSUME NEW l \in Leads, SchedLease(l)
      PROVE  SlotInv' /\ SlotStep
  <2>1. RowsKept /\ MetasKept /\ ChansKept
    BY <1>3 DEF SchedLease, LeaseLead
  <2>2. Tracked' = Tracked
    BY <1>3 DEF SchedLease, Tracked
  <2>3. FreshInv' /\ CapacityRespected'
    BY <2>1, <2>2, FreshKept DEF SlotInv, CapacityRespected
  <2> QED BY <1>3, <2>1, <2>2, <2>3 DEF SchedLease, SchedAt, SlotInv, Placing
<1>4. ASSUME NEW a \in Attempts, SchedCreate(a)
      PROVE  SlotInv' /\ SlotStep
  BY <1>4, CreateSlots
<1>5. CASE SchedMark
  <2>1. RowsKept /\ MetasKept /\ ChansKept
    BY <1>5 DEF SchedMark, MarkLeadDialing
  <2>2. CASE sched' = "markFail"
    BY <2>1, <2>2 DEF Placing
  <2>3. CASE sched' = "originate"
    <3>1. FreshInv' /\ CapacityRespected'
      BY <1>5, <2>1, FreshKept
         DEF SlotInv, SchedMark, Tracked, CapacityRespected
    <3> QED BY <1>5, <2>1, <2>3, <3>1
            DEF SlotInv, SchedMark, MarkLeadDialing, SchedAt, Placing, Fresh
  <2> QED BY <1>5, <2>2, <2>3 DEF SchedMark, SchedAt
<1>6. CASE SchedOriginate
  <2>1. RowsKept /\ MetasKept /\ UNCHANGED <<row, metaA, cur>>
    BY <1>6 DEF SchedOriginate
  <2>2. FreshInv'
    BY <1>6, <2>1 DEF SchedOriginate, SchedAt, SlotInv, FreshInv, Fresh,
                      Placing, TypeOK, ChannelTypes
  <2>3. CapacityRespected'
    BY <2>1 DEF SlotInv, CapacityRespected, Tracked
  <2> QED BY <1>6, <2>1, <2>2, <2>3
          DEF SchedOriginate, SchedAt, SlotInv, Placing, Fresh
<1>7. CASE SchedBind
  <2>1. RowsKept /\ ChansKept
    BY <1>7 DEF SchedBind
  <2>2. cur \in Attempts /\ ~Fresh(cur) /\ metaA[cur] # "ghost"
    BY <1>7 DEF SchedBind, SchedDone, SchedAt, SlotInv, Placing
  <2>3. Tracked' \subseteq Tracked
    BY <1>7, <2>2 DEF SchedBind, Bound, SlotInv, TypeOK, MemoryTypes, MetaState,
                      Tracked
  <2>4. FreshInv'
    BY <1>7, <2>1, <2>2 DEF SchedBind, SlotInv, FreshInv, Fresh, TypeOK,
                            MemoryTypes
  <2>5. CapacityRespected'
    BY <2>3, CountShrinks, TrackedFinite, DialerAssumption
       DEF SlotInv, CapacityRespected
  <2> QED BY <1>7, <2>1, <2>3, <2>4, <2>5
          DEF SchedBind, SchedDone, SchedAt, SlotInv, SlotStep, RowsKept,
              Placing
<1> QED BY <1>1, <1>2, <1>3, <1>4, <1>5, <1>6, <1>7 DEF Scheduler, Away

LEMMA NextSlots == SlotInv /\ [Next]_vars => SlotInv' /\ SlotStep
<1> SUFFICES ASSUME SlotInv, [Next]_vars PROVE SlotInv' /\ SlotStep
  OBVIOUS
<1>1. TypeOK'
  BY NextTypes DEF SlotInv
<1>2. CASE Scheduler
  BY <1>1, <1>2, SchedulerSlots
<1>3. CASE ~Scheduler
  <2>1. RowsKept /\ MetasKept /\ ChansKept /\ SchedKept
    BY <1>3, OthersKeep DEF Next, SlotInv
  <2> QED BY <1>1, <2>1, KeptSlots, KeptSlotStep
<1> QED BY <1>2, <1>3

\* The dialer never tracks more attempts than max_concurrent: the capacity it
\* computes, two store calls before it creates the attempt, cannot be taken by
\* any event task, watchdog pass or operator in between.
THEOREM CapacityKept == Spec => []CapacityRespected
<1>1. SlotInv => CapacityRespected
  BY DEF SlotInv
<1> QED BY <1>1, InitSlots, NextSlots, PTL DEF Spec

\* A step of the dialer is a step of the pool of call slots or stutters.
LEMMA SlotStepRefines ==
  SlotStep => [Slots!Next]_<<Tracked, {a \in Attempts : ~Fresh(a)}>>
<1> SUFFICES ASSUME SlotStep
             PROVE  \/ Slots!Next
                    \/ UNCHANGED <<Tracked, {a \in Attempts : ~Fresh(a)}>>
  OBVIOUS
<1>1. ASSUME NEW a \in Attempts, Fresh(a),
             Cardinality(Tracked) < MaxConcurrent,
             Tracked' = Tracked \cup {a},
             \A b \in Attempts : Fresh(b)' <=> Fresh(b) /\ b # a
      PROVE  Slots!Acquire(a)
  <2> DEFINE used == {b \in Attempts : ~Fresh(b)}
  <2>1. used' = used \cup {a}
    BY <1>1
  <2>2. a \in Attempts \ used
    BY <1>1
  <2>3. Slots!Cardinality(Tracked) = Cardinality(Tracked)
    BY DEF Slots!Cardinality, Cardinality
  <2> QED BY <1>1, <2>1, <2>2, <2>3 DEF Slots!Acquire
<1>2. ASSUME Tracked' \subseteq Tracked,
             \A b \in Attempts : Fresh(b)' <=> Fresh(b)
      PROVE  \/ Slots!Release(Tracked \ Tracked')
             \/ UNCHANGED <<Tracked, {a \in Attempts : ~Fresh(a)}>>
  BY <1>2 DEF Slots!Release
<1> QED BY <1>1, <1>2 DEF SlotStep, Slots!Next

\* The dialer implements the pool of call slots: an attempt takes its slot once
\* and gives it back for good, whichever of the watchdog, the event tasks, the
\* failed originate and the crash drops its meta.
THEOREM ImplementsCallSlots == Spec => UsesCallSlots
<1>1. Init => Slots!Init
  BY DEF Init, StoreInit, NoRow, Fresh, Tracked, Slots!Init
<1> QED BY <1>1, InitSlots, NextSlots, SlotStepRefines, PTL
        DEF Spec, UsesCallSlots, Slots!Spec

----------------------------------------------------------------------------
(* One call per lead.                                                      *)

\* A lead that has been dialed can never be leased again, so it has one channel
\* at most, and the one the scheduler is about to dial has none yet.
CallInv ==
  /\ TypeOK
  /\ FreshInv
  /\ \A a \in Attempts :
       chan[a] # "none" => row[a].lead \in Leads /\ lead[row[a].lead] \notin Leasable
  /\ \A a, b \in Attempts :
       chan[a] # "none" /\ chan[b] # "none" /\ row[a].lead = row[b].lead => a = b
  /\ sched \in {"create", "mark", "originate"} => curLead \in Leads
  /\ sched \in {"mark", "originate"} =>
       cur \in Attempts /\ ~Fresh(cur) /\ row[cur].lead = curLead /\ chan[cur] = "none"
  /\ sched = "originate" =>
       /\ lead[curLead] \notin Leasable
       /\ \A a \in Attempts : chan[a] # "none" => row[a].lead # curLead

LEMMA InitCalls == Init => CallInv
<1> SUFFICES ASSUME Init PROVE CallInv
  OBVIOUS
<1>1. FreshInv
  BY DEF Init, StoreInit, FreshInv, Fresh, NoRow
<1> QED BY <1>1, InitTypes DEF Init, CallInv

LEMMA KeptCalls ==
  ASSUME CallInv, SlotInv', RowsKept, MetasKept, ChansKept, LeadsKept,
         SchedKept \/ sched' \notin {"create", "mark", "originate"}
  PROVE  CallInv'
<1>1. TypeOK' /\ FreshInv'
  BY DEF SlotInv
<1>2. ASSUME NEW a \in Attempts, chan'[a] # "none"
      PROVE  /\ chan[a] # "none" /\ row'[a].lead = row[a].lead
             /\ row'[a].lead \in Leads /\ lead'[row'[a].lead] \notin Leasable
  BY <1>2 DEF CallInv, RowsKept, ChansKept, LeadsKept
<1>3. ASSUME NEW a \in Attempts, NEW b \in Attempts, chan'[a] # "none",
             chan'[b] # "none", row'[a].lead = row'[b].lead
      PROVE  a = b
  BY <1>2, <1>3 DEF CallInv
<1>4. CASE UNCHANGED <<sched, cur, curLead>>
  <2>1. sched \in {"mark", "originate"} =>
          ~Fresh(cur)' /\ row'[cur].lead = curLead /\ chan'[cur] = "none"
    BY <1>4 DEF CallInv, RowsKept, ChansKept, Fresh
  <2>2. sched = "originate" =>
          /\ lead'[curLead] \notin Leasable
          /\ \A a \in Attempts : chan'[a] # "none" => row'[a].lead # curLead
    BY <1>2 DEF CallInv, LeadsKept, Leasable
  <2> QED BY <1>1, <1>2, <1>3, <1>4, <2>1, <2>2 DEF CallInv, Fresh
<1>5. CASE sched' \notin {"create", "mark", "originate"}
  BY <1>1, <1>2, <1>3, <1>5 DEF CallInv
<1> QED BY <1>4, <1>5 DEF SchedKept

LEMMA SchedulerCalls ==
  ASSUME CallInv, SlotInv', Scheduler
  PROVE  CallInv'
<1> USE SameKeeps, KeptCalls
<1>0. TypeOK' /\ FreshInv'
  BY DEF SlotInv
<1>1. CASE Away
  BY <1>1, AwayKeeps DEF CallInv, Placing
<1>2. CASE SchedList
  BY <1>2 DEF SchedList
<1>3. ASSUME NEW l \in Leads, SchedLease(l)
      PROVE  CallInv'
  <2>1. LeadsKept
    BY <1>3 DEF SchedLease, LeaseLead, LeadsKept, Leasable, CallInv, TypeOK,
                StoreTypeOK
  <2> QED BY <1>0, <1>3, <2>1
          DEF SchedLease, SchedAt, LeaseLead, CallInv, LeadsKept
<1>4. ASSUME NEW a \in Attempts, SchedCreate(a)
      PROVE  CallInv'
  <2> USE DEF SchedCreate, SchedAt, CreateAttempt
  <2>1. row' = [row EXCEPT ![a] = [lead |-> curLead, outcome |-> "open"]]
        /\ Fresh(a) /\ chan[a] = "none" /\ curLead \in Leads
    BY <1>4 DEF CallInv, FreshInv
  <2>2. row'[a].lead = curLead /\ row'[a].outcome = "open"
    BY <2>1 DEF CallInv, TypeOK, StoreTypeOK
  <2>3. \A b \in Attempts \ {a} : row'[b] = row[b]
    BY <2>1 DEF CallInv, TypeOK, StoreTypeOK
  <2>4. \A b \in Attempts : chan[b] # "none" => b # a /\ row'[b] = row[b]
    BY <2>1, <2>3
  <2> QED BY <1>0, <1>4, <2>1, <2>2, <2>4 DEF CallInv, Fresh
<1>5. CASE SchedMark
  <2>1. RowsKept /\ MetasKept /\ ChansKept
    BY <1>5 DEF SchedMark, MarkLeadDialing
  <2>2. CASE sched' = "markFail"
    BY <1>5, <2>1, <2>2 DEF SchedMark, SchedAt
  <2>3. CASE sched' = "originate"
    <3>1. lead[curLead] = "leased" /\ lead' = [lead EXCEPT ![curLead] = "dialing"]
          /\ sched = "mark" /\ UNCHANGED <<row, chan, cur, curLead>>
      BY <1>5, <2>3 DEF SchedMark, SchedAt, MarkLeadDialing
    <3>2. \A a \in Attempts : chan[a] # "none" => row[a].lead # curLead
      BY <3>1 DEF CallInv, Leasable
    <3>3. lead'[curLead] \notin Leasable
      BY <3>1 DEF CallInv, TypeOK, StoreTypeOK, Leasable
    <3>4. \A l \in Leads : l # curLead => lead'[l] = lead[l]
      BY <3>1 DEF CallInv, TypeOK, StoreTypeOK
    <3> QED BY <1>0, <2>3, <3>1, <3>2, <3>3, <3>4 DEF CallInv, Fresh
  <2> QED BY <1>5, <2>2, <2>3 DEF SchedMark, SchedAt
<1>6. CASE SchedOriginate
  <2>1. CASE UNCHANGED chan
    BY <1>6, <2>1 DEF SchedOriginate, SchedAt
  <2>2. CASE chan' = [chan EXCEPT ![cur] = "ringing"]
    <3>1. sched = "originate" /\ sched' \in {"bind", "origFail"}
          /\ UNCHANGED <<row, lead>>
      BY <1>6 DEF SchedOriginate, SchedAt
    <3>2. \A a \in Attempts : chan'[a] # "none" => chan[a] # "none" \/ a = cur
      BY <2>2 DEF CallInv, TypeOK, ChannelTypes
    <3> QED BY <1>0, <3>1, <3>2 DEF CallInv
  <2> QED BY <1>0, <1>6, <2>1, <2>2 DEF SchedOriginate
<1>7. CASE SchedBind
  <2>1. sched = "bind" /\ sched' = "idle" /\ UNCHANGED <<row, lead, chan>>
    BY <1>7 DEF SchedBind, SchedDone, SchedAt
  <2> QED BY <1>0, <2>1 DEF CallInv
<1> QED BY <1>1, <1>2, <1>3, <1>4, <1>5, <1>6, <1>7 DEF Scheduler, Away

LEMMA NextCalls ==
  NoRecycling => (SlotInv /\ CallInv /\ [Next]_vars => CallInv')
<1> SUFFICES ASSUME NoRecycling, SlotInv, CallInv, [Next]_vars PROVE CallInv'
  OBVIOUS
<1>1. SlotInv'
  BY NextSlots
<1>2. CASE Scheduler
  BY <1>1, <1>2, SchedulerCalls
<1>3. CASE ~Scheduler
  <2>1. /\ RowsKept /\ MetasKept /\ ChansKept /\ SchedKept
        /\ NoRecycling => LeadsKept
    BY <1>3, OthersKeep DEF Next, CallInv
  <2> QED BY <1>1, <2>1, KeptCalls
<1> QED BY <1>2, <1>3

\* If the operator recycles no lead, a lead is never rung while an earlier call
\* to it is up, for every number of lines and whatever the faults and crashes: a
\* lead that has been dialed is never leased again, although the watchdog, the
\* event tasks and the restart all write its state.
THEOREM CallsKept == NoRecycling => (Spec => []OneCallPerLead)
<1> SUFFICES ASSUME NoRecycling PROVE Spec => []OneCallPerLead
  OBVIOUS
<1>1. CallInv => OneCallPerLead
  BY DEF CallInv, OneCallPerLead, OnTheLine, Live
<1>2. SlotInv /\ CallInv /\ [Next]_vars => CallInv'
  BY NextCalls
<1> QED BY <1>1, <1>2, InitSlots, NextSlots, InitCalls, PTL DEF Spec
=============================================================================
