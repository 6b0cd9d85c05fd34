-------------------------- MODULE OutboundDialer ---------------------------
(***************************************************************************)
(* The outbound campaign dialer of src/engine.py: the scheduler loop, its  *)
(* watchdog, and the handlers of the ARI events an outbound call raises,   *)
(* over the tables of OutboundStore and the channels Asterisk holds.       *)
(*                                                                         *)
(* The engine is one asyncio process.  A task runs alone up to its next    *)
(* await that really suspends (an ARI HTTP request, a store call run in    *)
(* the executor), so one action is the effect of the awaited call and the  *)
(* code up to the next such await.  The scheduler is one task; every ARI   *)
(* event starts a task of its own, in the order the events arrive.         *)
(*                                                                         *)
(* An attempt dials one channel, so a channel is named by its attempt.     *)
(* Time is abstract: a tick that the pacing interval or the calling window *)
(* holds back is a tick not taken, and the watchdog may find any tracked   *)
(* attempt stale, unless Timing says that its threshold outlasts ringing   *)
(* and the handlers.                                                       *)
(***************************************************************************)
EXTENDS OutboundStore, Sequences

CONSTANTS MaxConcurrent,    \* max_concurrent, clamped by the scheduler to 1..5
          OperatorOps,      \* the operator's buttons in use, a subset of Ops
          Faults,           \* the failures that may happen, a subset of FaultKinds
          MaxCrashes,       \* bound: engine crashes in one behaviour
          HistoryEnabled,   \* CALL_HISTORY_ENABLED
          Timing            \* what may be assumed of durations, see TimingKinds

Ops == {"start", "pause", "stop", "archive", "import", "cancel", "ignore",
        "redial", "reset", "delete"}

\* event_loss: ARI events raised while the websocket is down.
\* ari_error: an ARI request other than the originate fails.
\* originate_lost: the originate succeeds but its HTTP response does not arrive.
FaultKinds == {"event_loss", "ari_error", "originate_lost"}

\* patient_watchdog: AAVA_OUTBOUND_ATTEMPT_STALE_SECONDS (90) outlasts ringing,
\* the AMD dialplan and every event handler together.
\* setup_first: a call torn down while it is still being set up finishes its
\* set-up before its teardown does.
TimingKinds == {"patient_watchdog", "setup_first"}

ASSUME DialerAssumption ==
  /\ MaxConcurrent \in 1..5
  /\ OperatorOps \subseteq Ops
  /\ Faults \subseteq FaultKinds
  /\ MaxCrashes \in Nat
  /\ HistoryEnabled \in BOOLEAN
  /\ Timing \subseteq TimingKinds

ASSUME FiniteAssumption == IsFiniteSet(Attempts)

NoAttempt == "no attempt"
ASSUME AttemptsAssumption == NoAttempt \notin Attempts

VARIABLES
  \* Asterisk
  chan,       \* each attempt's channel
  events,     \* ARI events of the channel, sent and not yet dispatched
  \* engine memory, lost in a crash
  up,         \* the engine runs
  metaA,      \* _outbound_attempt_meta_by_attempt_id
  metaC,      \* _outbound_attempt_meta_by_channel_id
  awaiting,   \* _outbound_awaiting_amd_channel_ids
  session,    \* the outbound CallSession stored for the channel
  \* tasks
  sched,      \* where the scheduler task stands
  cur,        \* the attempt it is dialing, or the one its watchdog finalizes
  curLead,    \* the lead it has leased
  idleSeen,   \* its inflight and active counts of this tick were both 0
  todo,       \* stale attempts this watchdog pass has still to look at
  ans, amd, des, cln,  \* tasks of each channel: answered, AMD result,
                       \* ChannelDestroyed, _cleanup_call
  ansMeta, amdMeta,    \* the answered / AMD task found the attempt's meta
  crashes

asterisk == <<chan, events>>
memory   == <<metaA, metaC, awaiting, session>>
schedVars == <<sched, cur, curLead, idleSeen, todo>>
tasks    == <<ans, amd, des, cln, ansMeta, amdMeta>>
vars == <<storeVars, asterisk, memory, schedVars, tasks, up, crashes>>

ChanState  == {"none", "ringing", "stasis", "dialplan", "gone"}
Event      == {"answered", "amd", "end", "destroyed"}
MetaState  == {"none", "nochan", "chan", "ghost"}
SessionState == {"none", "new", "full"}
SchedState ==
  {"idle", "dogHangup", "dogFinish", "dogLead", "list", "lease",
   "stats", "complete", "create", "mark", "markFail", "originate", "bind",
   "origFail", "origLead"}
AnsState == {"idle", "lead", "add", "continue", "failFinish", "failLead", "hang"}
AmdState == {"idle", "gate", "machineFinish", "machineLead", "deniedFinish",
             "deniedLead", "hang", "humanLead", "attach", "vars", "tailNew",
             "tailFull"}
DesState == {"idle", "finish", "lead"}
ClnState == {"idle", "hangup", "history", "historyLead", "remove", "done"}

ChannelTypes ==
  /\ chan \in [Attempts -> ChanState]
  /\ events \in [Attempts -> Seq(Event)]

MemoryTypes ==
  /\ up \in BOOLEAN
  /\ metaA \in [Attempts -> MetaState]
  /\ metaC \in [Attempts -> MetaState \ {"nochan"}]
  /\ awaiting \subseteq Attempts
  /\ session \in [Attempts -> SessionState]
  /\ crashes \in 0..MaxCrashes

SchedTypes ==
  /\ sched \in SchedState
  /\ cur \in Attempts \cup {NoAttempt}
  /\ curLead \in Leads \cup {NoLead}
  /\ idleSeen \in BOOLEAN
  /\ todo \subseteq Attempts

TaskTypes ==
  /\ ans \in [Attempts -> AnsState]
  /\ amd \in [Attempts -> AmdState]
  /\ des \in [Attempts -> DesState]
  /\ cln \in [Attempts -> ClnState]
  /\ ansMeta \in [Attempts -> BOOLEAN]
  /\ amdMeta \in [Attempts -> BOOLEAN]

TypeOK == StoreTypeOK /\ ChannelTypes /\ MemoryTypes /\ SchedTypes /\ TaskTypes

Init ==
  /\ StoreInit
  /\ chan = [a \in Attempts |-> "none"]
  /\ events = [a \in Attempts |-> <<>>]
  /\ up = TRUE
  /\ metaA = [a \in Attempts |-> "none"]
  /\ metaC = [a \in Attempts |-> "none"]
  /\ awaiting = {}
  /\ session = [a \in Attempts |-> "none"]
  /\ sched = "idle"
  /\ cur = NoAttempt
  /\ curLead = NoLead
  /\ idleSeen = FALSE
  /\ todo = {}
  /\ ans = [a \in Attempts |-> "idle"]
  /\ amd = [a \in Attempts |-> "idle"]
  /\ des = [a \in Attempts |-> "idle"]
  /\ cln = [a \in Attempts |-> "idle"]
  /\ ansMeta = [a \in Attempts |-> FALSE]
  /\ amdMeta = [a \in Attempts |-> FALSE]
  /\ crashes = 0

----------------------------------------------------------------------------
(* Asterisk.                                                               *)

Live(a) == chan[a] \in {"ringing", "stasis", "dialplan"}

\* Events raised together; the websocket loses all of them or none.
Raise(a, es) ==
  \/ up /\ events' = [events EXCEPT ![a] = @ \o es]
  \/ (~up \/ "event_loss" \in Faults) /\ UNCHANGED events

\* A channel that is hung up leaves Stasis, if it was there, and is destroyed.
LastEvents(a) ==
  IF chan[a] = "stasis" THEN <<"end", "destroyed">> ELSE <<"destroyed">>

HangUp(a) ==
  IF Live(a)
    THEN chan' = [chan EXCEPT ![a] = "gone"] /\ Raise(a, LastEvents(a))
    ELSE UNCHANGED asterisk

\* hangup_channel: a failing request is reported to nobody.
HangupChannel(a) ==
  \/ HangUp(a)
  \/ "ari_error" \in Faults /\ UNCHANGED asterisk

\* The called party answers: the channel enters Stasis(app, outbound, ...).
Answer(a) ==
  /\ chan[a] = "ringing"
  /\ chan' = [chan EXCEPT ![a] = "stasis"]
  /\ Raise(a, <<"answered">>)
  /\ UNCHANGED <<storeVars, memory, schedVars, tasks, up, crashes>>

\* AMD is done: the dialplan runs Stasis(app, outbound_amd, ...).
DialplanReturn(a) ==
  /\ chan[a] = "dialplan"
  /\ chan' = [chan EXCEPT ![a] = "stasis"]
  /\ Raise(a, <<"amd">>)
  /\ UNCHANGED <<storeVars, memory, schedVars, tasks, up, crashes>>

\* No answer, busy, or a party hangs up (after the agent's goodbye as well).
RemoteHangup(a) ==
  /\ Live(a)
  /\ HangUp(a)
  /\ UNCHANGED <<storeVars, memory, schedVars, tasks, up, crashes>>

----------------------------------------------------------------------------
(* The scheduler task: _outbound_scheduler_loop.                           *)

Tracked == {a \in Attempts : metaA[a] \in {"nochan", "chan"}}
Active  == {a \in Attempts : session[a] = "full"}

\* The attempt's event tasks, none of which is running.
Quiet(a) == ans[a] = "idle" /\ amd[a] = "idle" /\ des[a] = "idle"

\* An attempt older than AAVA_OUTBOUND_ATTEMPT_STALE_SECONDS (90) no longer
\* rings: the originate's timeout is 60.  A patient watchdog finds no attempt
\* stale that is in the AMD dialplan or has a handler at work.
MayBeStale(a) ==
  /\ chan[a] # "ringing"
  /\ "patient_watchdog" \in Timing =>
       Quiet(a) /\ events[a] = <<>> /\ chan[a] # "dialplan"

SchedAt(from, to) == sched = from /\ sched' = to

\* Mutants: a call whose session is up is taken; only one never bound is.
DogSparesAwaiting(a) == a \in awaiting
DogSparesBound(a) == a \in awaiting \/ session[a] # "none" \/ metaA[a] = "chan"

DogSpares(a) == a \in awaiting \/ session[a] # "none"

\* The watchdog goes on through the stale attempts S of its copy, in some
\* order: it passes those it spares without an await, and takes the first it
\* does not; past the last one the tick goes on to the campaigns.
NextStale(S) ==
  LET spared == {a \in S : DogSpares(a)}
  IN  \/ /\ S = spared
         /\ sched' = "list"
         /\ cur' = NoAttempt
         /\ todo' = {}
      \/ \E a \in S \ spared, passed \in SUBSET spared :
           /\ sched' = "dogHangup"
           /\ cur' = a
           /\ todo' = S \ (passed \cup {a})

\* The tick starts with the watchdog, on a copy of the meta map's values.
BeginScan(S) ==
  /\ up
  /\ sched = "idle"
  /\ S \subseteq {a \in Tracked : MayBeStale(a)}
  /\ NextStale(S)
  /\ UNCHANGED <<storeVars, asterisk, memory, tasks, curLead, idleSeen, up,
                 crashes>>

\* The probe, and the hangup if the channel still exists; a probe that raises
\* leaves the attempt for a later tick.
DogHangup ==
  /\ \/ /\ SchedAt("dogHangup", "dogFinish")
        /\ HangupChannel(cur)
        /\ UNCHANGED <<cur, todo>>
     \/ /\ "ari_error" \in Faults
        /\ sched = "dogHangup"
        /\ NextStale(todo)
        /\ UNCHANGED asterisk
  /\ UNCHANGED <<storeVars, memory, tasks, curLead, idleSeen, up, crashes>>

DogFinish ==
  /\ SchedAt("dogFinish", "dogLead")
  /\ FinishAttempt(cur, "no_answer")
  /\ UNCHANGED <<asterisk, memory, tasks, cur, curLead, idleSeen, todo, up,
                 crashes>>

Forget(map, a) == [map EXCEPT ![a] = "none"]

DogLead ==
  /\ sched = "dogLead"
  /\ SetLeadState(row[cur].lead, "failed")
  /\ metaA' = Forget(metaA, cur)
  /\ metaC' = Forget(metaC, cur)
  /\ NextStale(todo)
  /\ UNCHANGED <<asterisk, awaiting, session, tasks, curLead, idleSeen, up,
                 crashes>>

\* Mutant: attempts without a session yet are not counted.
CapacityOfSessions == MaxConcurrent - Cardinality(Active)

Capacity == MaxConcurrent - Cardinality(Tracked) - Cardinality(Active)

\* Mutant: a session still being cleaned up is forgotten.
NothingTracked == Tracked = {}

Idle == Tracked = {} /\ Active = {}

\* list_running_campaigns and the capacity count behind it.
SchedList ==
  /\ sched = "list"
  /\ IF campaign = "running" /\ Capacity > 0
       THEN /\ sched' = "lease"
            /\ idleSeen' = Idle
       ELSE /\ sched' = "idle"
            /\ UNCHANGED idleSeen
  /\ UNCHANGED <<storeVars, asterisk, memory, tasks, cur, curLead, todo, up,
                 crashes>>

\* lease_pending_leads(limit = 1) finds a lead.  Bound: while ids are left.
SchedLease(l) ==
  /\ SchedAt("lease", "create")
  /\ \E a \in Attempts : Fresh(a)
  /\ LeaseLead(l)
  /\ curLead' = l
  /\ idleSeen' = FALSE
  /\ UNCHANGED <<asterisk, memory, tasks, cur, todo, up, crashes>>

\* It finds none; the completion check runs if nothing was in flight.  Out of
\* ids, the tick ends as well.
SchedNoLead ==
  /\ sched = "lease"
  /\ \/ /\ LeadIn({"pending"}) = {}
        /\ sched' = IF idleSeen THEN "stats" ELSE "idle"
     \/ /\ LeadIn({"pending"}) # {}
        /\ \A a \in Attempts : ~Fresh(a)
        /\ sched' = "idle"
  /\ idleSeen' = FALSE
  /\ UNCHANGED <<storeVars, asterisk, memory, tasks, cur, curLead, todo, up,
                 crashes>>

\* Mutant: a campaign whose every lead failed never completes.
NoRunnableWorkAndSuccess ==
  LeadIn(Runnable) = {} /\ LeadIn({"completed"}) # {}

NoRunnableWork ==
  LeadIn(Runnable) = {} /\ LeadIn(FinishedLead) # {}

\* _outbound_maybe_mark_campaign_completed reads campaign_stats ...
SchedStats ==
  /\ sched = "stats"
  /\ sched' = IF NoRunnableWork THEN "complete" ELSE "idle"
  /\ UNCHANGED <<storeVars, asterisk, memory, tasks, cur, curLead, idleSeen,
                 todo, up, crashes>>

\* ... and then writes the status, whatever it has become.
SchedComplete ==
  /\ SchedAt("complete", "idle")
  /\ SetCampaignStatus("completed")
  /\ UNCHANGED <<asterisk, memory, tasks, cur, curLead, idleSeen, todo, up,
                 crashes>>

SchedCreate(a) ==
  /\ SchedAt("create", "mark")
  /\ CreateAttempt(a, curLead)
  /\ metaA' = [metaA EXCEPT ![a] = "nochan"]
  /\ cur' = a
  /\ UNCHANGED <<asterisk, metaC, awaiting, session, tasks, curLead, idleSeen,
                 todo, up, crashes>>

SchedMark ==
  /\ \/ /\ SchedAt("mark", "originate")
        /\ MarkLeadDialing(curLead)
     \/ /\ SchedAt("mark", "markFail")
        /\ lead[curLead] # "leased"
        /\ UNCHANGED storeVars
  /\ UNCHANGED <<asterisk, memory, tasks, cur, curLead, idleSeen, todo, up,
                 crashes>>

\* Back to sleep, with nothing in hand.
SchedDone(from) ==
  /\ SchedAt(from, "idle")
  /\ cur' = NoAttempt
  /\ curLead' = NoLead
  /\ UNCHANGED <<idleSeen, todo>>

SchedMarkFail ==
  /\ SchedDone("markFail")
  /\ FinishAttempt(cur, "canceled")
  /\ metaA' = Forget(metaA, cur)
  /\ UNCHANGED <<asterisk, metaC, awaiting, session, tasks, up, crashes>>

\* POST /channels: dialed; refused; or dialed and reported as a failure.
SchedOriginate ==
  /\ \/ /\ SchedAt("originate", "bind")
        /\ chan' = [chan EXCEPT ![cur] = "ringing"]
     \/ /\ SchedAt("originate", "origFail")
        /\ UNCHANGED chan
     \/ /\ "originate_lost" \in Faults
        /\ SchedAt("originate", "origFail")
        /\ chan' = [chan EXCEPT ![cur] = "ringing"]
  /\ UNCHANGED <<storeVars, events, memory, tasks, cur, curLead, idleSeen,
                 todo, up, crashes>>

\* Mutant: the channel id is not put into the meta.
Unbound(a) == IF metaA[a] = "none" THEN "ghost" ELSE metaA[a]

\* The meta is taken from the map, or made up empty if an event handler has
\* dropped it since, and given the channel id.
Bound(a) == IF metaA[a] = "none" THEN "ghost" ELSE "chan"

\* set_attempt_channel, then the meta is stored under both keys.
SchedBind ==
  /\ SchedDone("bind")
  /\ metaA' = [metaA EXCEPT ![cur] = Bound(cur)]
  /\ metaC' = [metaC EXCEPT ![cur] = Bound(cur)]
  /\ UNCHANGED <<storeVars, asterisk, awaiting, session, tasks, up, crashes>>

SchedOrigFail ==
  /\ SchedAt("origFail", "origLead")
  /\ FinishAttempt(cur, "error")
  /\ UNCHANGED <<asterisk, memory, tasks, cur, curLead, idleSeen, todo, up,
                 crashes>>

SchedOrigLead ==
  /\ SchedDone("origLead")
  /\ SetLeadState(curLead, "failed")
  /\ metaA' = Forget(metaA, cur)
  /\ UNCHANGED <<asterisk, metaC, awaiting, session, tasks, up, crashes>>

Scheduler ==
  \/ \E S \in SUBSET Attempts : BeginScan(S)
  \/ DogHangup \/ DogFinish \/ DogLead
  \/ SchedList \/ SchedNoLead \/ SchedStats \/ SchedComplete
  \/ SchedMark \/ SchedMarkFail \/ SchedOriginate \/ SchedBind
  \/ SchedOrigFail \/ SchedOrigLead
  \/ \E a \in Attempts : SchedCreate(a)
  \/ \E l \in Leads : SchedLease(l)

----------------------------------------------------------------------------
(* The event tasks of one channel.                                         *)

\* The websocket reader hands over the channel's next event.
Dispatch(a, e) ==
  /\ up
  /\ events[a] # <<>>
  /\ Head(events[a]) = e
  /\ events' = [events EXCEPT ![a] = Tail(@)]
  /\ UNCHANGED <<chan, up, crashes, schedVars>>

AnsAt(a, from, to) == ans[a] = from /\ ans' = [ans EXCEPT ![a] = to]
AmdAt(a, from, to) == amd[a] = from /\ amd' = [amd EXCEPT ![a] = to]
DesAt(a, from, to) == des[a] = from /\ des' = [des EXCEPT ![a] = to]
ClnAt(a, from, to) == cln[a] = from /\ cln' = [cln EXCEPT ![a] = to]

\* What a step of one task leaves to the others.
OthersThanAns == <<schedVars, amd, des, cln, amdMeta, up, crashes>>
OthersThanAmd == <<schedVars, ans, des, cln, ansMeta, up, crashes>>
OthersThanDes == <<schedVars, ans, amd, ansMeta, amdMeta, up, crashes>>
OthersThanCln == <<schedVars, ans, amd, des, ansMeta, amdMeta, up, crashes>>

\* StasisStart(outbound): _handle_outbound_answered.
DispatchAnswered(a) ==
  LET known == a \in Tracked
  IN  /\ Dispatch(a, "answered")
      /\ metaA' = IF known THEN [metaA EXCEPT ![a] = "chan"] ELSE metaA
      /\ metaC' = IF known THEN [metaC EXCEPT ![a] = "chan"] ELSE metaC
      /\ ansMeta' = [ansMeta EXCEPT ![a] = known]
      /\ ans' = [ans EXCEPT ![a] = IF known THEN "lead" ELSE "add"]
      /\ UNCHANGED <<storeVars, awaiting, session, amd, des, cln, amdMeta>>

AnsLead(a) ==
  /\ AnsAt(a, "lead", "add")
  /\ SetLeadState(row[a].lead, "amd_pending")
  /\ UNCHANGED <<asterisk, memory, ansMeta, OthersThanAns>>

\* The variables of the AMD hop are set; from here StasisEnd is ignored.
AnsAdd(a) ==
  /\ AnsAt(a, "add", "continue")
  /\ awaiting' = awaiting \cup {a}
  /\ UNCHANGED <<storeVars, asterisk, metaA, metaC, session, ansMeta,
                 OthersThanAns>>

\* continue_in_dialplan.
AnsContinue(a) ==
  /\ chan[a] = "stasis"
  /\ AnsAt(a, "continue", "idle")
  /\ chan' = [chan EXCEPT ![a] = "dialplan"]
  /\ Raise(a, <<"end">>)
  /\ ansMeta' = [ansMeta EXCEPT ![a] = FALSE]
  /\ UNCHANGED <<storeVars, memory, OthersThanAns>>

AnsContinueFails(a) ==
  /\ chan[a] # "stasis" \/ "ari_error" \in Faults
  /\ AnsAt(a, "continue", IF ansMeta[a] THEN "failFinish" ELSE "hang")
  /\ awaiting' = awaiting \ {a}
  /\ UNCHANGED <<storeVars, asterisk, metaA, metaC, session, ansMeta,
                 OthersThanAns>>

AnsFailFinish(a) ==
  /\ AnsAt(a, "failFinish", "failLead")
  /\ FinishAttempt(a, "error")
  /\ UNCHANGED <<asterisk, memory, ansMeta, OthersThanAns>>

AnsFailLead(a) ==
  /\ AnsAt(a, "failLead", "hang")
  /\ SetLeadState(row[a].lead, "failed")
  /\ UNCHANGED <<asterisk, memory, ansMeta, OthersThanAns>>

AnsHang(a) ==
  /\ AnsAt(a, "hang", "idle")
  /\ HangupChannel(a)
  /\ ansMeta' = [ansMeta EXCEPT ![a] = FALSE]
  /\ UNCHANGED <<storeVars, memory, OthersThanAns>>

\* StasisStart(outbound_amd): _handle_outbound_amd_result.
DispatchAmd(a) ==
  /\ Dispatch(a, "amd")
  /\ awaiting' = awaiting \ {a}
  /\ amdMeta' = [amdMeta EXCEPT ![a] =
                   a \in Tracked \/ (metaA[a] = "none" /\ metaC[a] = "chan")]
  /\ amd' = [amd EXCEPT ![a] = "gate"]
  /\ UNCHANGED <<storeVars, metaA, metaC, session, ans, des, cln, ansMeta>>

\* set_attempt_gate_result is awaited, then AMDSTATUS and CONSENT_RESULT decide.
AmdGate(a) ==
  /\ \E branch \in {"machineFinish", "deniedFinish", "humanLead"} :
       AmdAt(a, "gate", branch)
  /\ UNCHANGED <<storeVars, asterisk, memory, amdMeta, OthersThanAmd>>

\* Mutant: the lead is left as it was.
AmdSetsNoLead(a, s) == UNCHANGED storeVars

\* The lead is set only if the task found the meta that names it.
AmdSetsLead(a, s) ==
  IF amdMeta[a] THEN SetLeadState(row[a].lead, s) ELSE UNCHANGED storeVars

AmdEnds(a, from, outcome, to) ==
  /\ AmdAt(a, from, to)
  /\ FinishAttempt(a, outcome)
  /\ UNCHANGED <<asterisk, memory, amdMeta, OthersThanAmd>>

AmdForgets(a, from, s) ==
  /\ AmdAt(a, from, "hang")
  /\ AmdSetsLead(a, s)
  /\ metaA' = Forget(metaA, a)
  /\ metaC' = Forget(metaC, a)
  /\ UNCHANGED <<asterisk, awaiting, session, amdMeta, OthersThanAmd>>

\* The voicemail drop plays first.  It is always on: bool(int(column or 1))
\* takes a stored 0 for an absent value.
AmdMachineFinish(a) == AmdEnds(a, "machineFinish", "voicemail_dropped", "machineLead")
AmdMachineLead(a)   == AmdForgets(a, "machineLead", "completed")
AmdDeniedFinish(a)  == AmdEnds(a, "deniedFinish", "consent_denied", "deniedLead")
AmdDeniedLead(a)    == AmdForgets(a, "deniedLead", "canceled")

\* Mutant: the machine's channel is not hung up.
AmdHangForgotten(a) ==
  /\ AmdAt(a, "hang", "idle")
  /\ amdMeta' = [amdMeta EXCEPT ![a] = FALSE]
  /\ UNCHANGED <<storeVars, asterisk, memory, OthersThanAmd>>

AmdHang(a) ==
  /\ AmdAt(a, "hang", "idle")
  /\ HangupChannel(a)
  /\ amdMeta' = [amdMeta EXCEPT ![a] = FALSE]
  /\ UNCHANGED <<storeVars, memory, OthersThanAmd>>

AmdHumanLead(a) ==
  /\ AmdAt(a, "humanLead", "attach")
  /\ AmdSetsLead(a, "in_progress")
  /\ UNCHANGED <<asterisk, memory, amdMeta, OthersThanAmd>>

\* _handle_caller_stasis_start_hybrid: the channel is bridged and only then
\* does the session exist; a bridge that fails leaves no session to clean up.
AmdAttach(a) ==
  /\ chan[a] = "stasis"
  /\ AmdAt(a, "attach", "vars")
  /\ session' = [session EXCEPT ![a] = "new"]
  /\ UNCHANGED <<storeVars, asterisk, metaA, metaC, awaiting, amdMeta,
                 OthersThanAmd>>

AmdAttachFails(a) ==
  /\ chan[a] # "stasis" \/ "ari_error" \in Faults
  /\ AmdAt(a, "attach", "idle")
  /\ amdMeta' = [amdMeta EXCEPT ![a] = FALSE]
  /\ UNCHANGED <<storeVars, asterisk, memory, OthersThanAmd>>

\* The outbound ids are read from channel variables, if the channel is still
\* there, and the session is saved: upserted, even if it was removed since.
AmdVars(a) ==
  /\ AmdAt(a, "vars", IF Live(a) THEN "tailFull" ELSE "tailNew")
  /\ session' = [session EXCEPT ![a] = IF Live(a) THEN "full" ELSE "new"]
  /\ UNCHANGED <<storeVars, asterisk, metaA, metaC, awaiting, amdMeta,
                 OthersThanAmd>>

\* The rest of the set-up, up to the last time it saves the session.
AmdTail(a) ==
  /\ \E kind \in {"new", "full"} :
       /\ AmdAt(a, IF kind = "new" THEN "tailNew" ELSE "tailFull", "idle")
       /\ session' = [session EXCEPT ![a] = kind]
  /\ amdMeta' = [amdMeta EXCEPT ![a] = FALSE]
  /\ UNCHANGED <<storeVars, asterisk, metaA, metaC, awaiting, OthersThanAmd>>

\* Mutant: a call without outbound ids is not cleaned up.
CleanupOfOutbound(a) ==
  IF session[a] = "full" /\ cln[a] = "idle"
    THEN [cln EXCEPT ![a] = "hangup"] ELSE cln

\* _cleanup_call, from where it finds the session: its guards let one
\* invocation per call through.
CleanupAfter(a) ==
  IF session[a] # "none" /\ cln[a] = "idle"
    THEN [cln EXCEPT ![a] = "hangup"] ELSE cln

\* StasisEnd: not the end of the call while AMD is awaited.
DispatchEnd(a) ==
  /\ Dispatch(a, "end")
  /\ cln' = IF a \in awaiting THEN cln ELSE CleanupAfter(a)
  /\ UNCHANGED <<storeVars, memory, ans, amd, des, ansMeta, amdMeta>>

\* What setup_first assumes of a teardown's last step.
SetUpFirst(a) ==
  "setup_first" \in Timing => ans[a] = "idle" /\ amd[a] = "idle"

\* Mutant: an attempt with a session is finished all the same.
DestroyedAlways(a) ==
  /\ Dispatch(a, "destroyed")
  /\ IF metaC[a] = "chan"
       THEN /\ des' = [des EXCEPT ![a] = "finish"]
            /\ UNCHANGED <<metaC, cln>>
       ELSE /\ metaC' = IF session[a] = "none" THEN Forget(metaC, a) ELSE metaC
            /\ cln' = CleanupAfter(a)
            /\ UNCHANGED des
  /\ UNCHANGED <<storeVars, metaA, awaiting, session, ans, amd, ansMeta, amdMeta>>

\* ChannelDestroyed: _handle_outbound_channel_destroyed, then _cleanup_call.
\* An attempt with a session is left to the cleanup.
DispatchDestroyed(a) ==
  /\ Dispatch(a, "destroyed")
  /\ IF metaC[a] = "chan" /\ session[a] = "none"
       THEN /\ des' = [des EXCEPT ![a] = "finish"]
            /\ UNCHANGED <<metaC, cln>>
       ELSE /\ metaC' = IF session[a] = "none" THEN Forget(metaC, a) ELSE metaC
            /\ cln' = CleanupAfter(a)
            /\ UNCHANGED des
  /\ UNCHANGED <<storeVars, metaA, awaiting, session, ans, amd, ansMeta, amdMeta>>

\* Mutant: only the lead is updated.
DesFinishForgotten(a) ==
  /\ DesAt(a, "finish", "lead")
  /\ UNCHANGED <<storeVars, asterisk, memory, cln, OthersThanDes>>

DesFinish(a) ==
  /\ DesAt(a, "finish", "lead")
  /\ FinishAttempt(a, "cause")
  /\ UNCHANGED <<asterisk, memory, cln, OthersThanDes>>

DesLead(a) ==
  /\ SetUpFirst(a)
  /\ DesAt(a, "lead", "idle")
  /\ SetLeadState(row[a].lead, "failed")
  /\ metaA' = Forget(metaA, a)
  /\ metaC' = Forget(metaC, a)
  /\ cln' = CleanupAfter(a)
  /\ UNCHANGED <<asterisk, awaiting, session, OthersThanDes>>

ClnHangup(a) ==
  /\ ClnAt(a, "hangup", "history")
  /\ HangupChannel(a)
  /\ UNCHANGED <<storeVars, memory, OthersThanCln>>

\* _persist_call_history finishes the attempt the session names, if it names
\* one and the history store is enabled.  A call that ended in an error fails
\* its lead.
Persists(a) == HistoryEnabled /\ session[a] = "full"

ClnHistory(a) ==
  /\ IF Persists(a)
       THEN /\ ClnAt(a, "history", "historyLead")
            /\ FinishAttempt(a, "answered_human")
       ELSE /\ ClnAt(a, "history", "remove")
            /\ UNCHANGED storeVars
  /\ UNCHANGED <<asterisk, memory, OthersThanCln>>

ClnHistoryLead(a) ==
  /\ ClnAt(a, "historyLead", "remove")
  /\ \E s \in {"completed", "failed"} : SetLeadState(row[a].lead, s)
  /\ metaA' = Forget(metaA, a)
  /\ metaC' = Forget(metaC, a)
  /\ UNCHANGED <<asterisk, awaiting, session, OthersThanCln>>

ClnRemove(a) ==
  /\ SetUpFirst(a)
  /\ ClnAt(a, "remove", "done")
  /\ session' = [session EXCEPT ![a] = "none"]
  /\ UNCHANGED <<storeVars, asterisk, metaA, metaC, awaiting, OthersThanCln>>

Handler(a) ==
  \/ AnsLead(a) \/ AnsAdd(a) \/ AnsContinue(a) \/ AnsContinueFails(a)
  \/ AnsFailFinish(a) \/ AnsFailLead(a) \/ AnsHang(a)
  \/ AmdGate(a) \/ AmdMachineFinish(a) \/ AmdMachineLead(a)
  \/ AmdDeniedFinish(a) \/ AmdDeniedLead(a) \/ AmdHang(a)
  \/ AmdHumanLead(a) \/ AmdAttach(a) \/ AmdAttachFails(a) \/ AmdVars(a)
  \/ AmdTail(a)
  \/ DesFinish(a) \/ DesLead(a)
  \/ ClnHangup(a) \/ ClnHistory(a) \/ ClnHistoryLead(a) \/ ClnRemove(a)

Dispatcher(a) ==
  \/ DispatchAnswered(a) \/ DispatchAmd(a) \/ DispatchEnd(a)
  \/ DispatchDestroyed(a)

----------------------------------------------------------------------------
(* The operator, and crashes of the engine.                                *)

Allowed(op) == op \in OperatorOps

Operator ==
  /\ \/ Allowed("start") /\ StartCampaign
     \/ Allowed("pause") /\ PauseCampaign
     \/ Allowed("stop") /\ StopCampaign
     \/ Allowed("archive") /\ ArchiveCampaign
     \/ \E l \in Leads :
          \/ Allowed("import") /\ ImportLead(l)
          \/ Allowed("cancel") /\ CancelLead(l)
          \/ Allowed("ignore") /\ IgnoreLead(l)
          \/ Allowed("redial") /\ RedialLead(l)
          \/ Allowed("reset") /\ ResetLead(l)
          \/ Allowed("delete") /\ DeleteLead(l)
  /\ UNCHANGED <<asterisk, memory, schedVars, tasks, up, crashes>>

\* Everything the engine holds is gone; the tables and the channels are not.
Crash ==
  /\ up
  /\ crashes < MaxCrashes
  /\ crashes' = crashes + 1
  /\ up' = FALSE
  /\ events' = [a \in Attempts |-> <<>>]
  /\ metaA' = [a \in Attempts |-> "none"]
  /\ metaC' = [a \in Attempts |-> "none"]
  /\ awaiting' = {}
  /\ session' = [a \in Attempts |-> "none"]
  /\ sched' = "idle"
  /\ cur' = NoAttempt
  /\ curLead' = NoLead
  /\ idleSeen' = FALSE
  /\ todo' = {}
  /\ ans' = [a \in Attempts |-> "idle"]
  /\ amd' = [a \in Attempts |-> "idle"]
  /\ des' = [a \in Attempts |-> "idle"]
  /\ cln' = [a \in Attempts |-> "idle"]
  /\ ansMeta' = [a \in Attempts |-> FALSE]
  /\ amdMeta' = [a \in Attempts |-> FALSE]
  /\ UNCHANGED <<storeVars, chan>>

\* start(): the attempts started before the cutoff are closed, once; which
\* ones these are depends on how long the engine was away.
Restart ==
  /\ ~up
  /\ up' = TRUE
  /\ \E old \in SUBSET Attempts : CleanupStale(old)
  /\ UNCHANGED <<asterisk, memory, schedVars, tasks, crashes>>

Next ==
  \/ Scheduler
  \/ \E a \in Attempts :
       \/ Answer(a) \/ DialplanReturn(a) \/ RemoteHangup(a)
       \/ Dispatcher(a) \/ Handler(a)
  \/ Operator \/ Crash \/ Restart

Spec == Init /\ [][Next]_vars

\* Tasks run; events arrive; ringing, the AMD dialplan and calls come to an
\* end; a tracked attempt that stays is stale in some pass of the watchdog; a
\* lease that nobody renews runs out; a crashed engine is started again.
Fairness ==
  /\ WF_vars(Scheduler)
  /\ WF_vars(Restart)
  /\ \A a \in Attempts :
       /\ WF_vars(Dispatcher(a))
       /\ WF_vars(Handler(a))
       /\ WF_vars(RemoteHangup(a))
       /\ SF_vars(\E S \in SUBSET Attempts : a \in S /\ BeginScan(S))
  /\ \A l \in Leads : SF_vars(SchedLease(l))

FairSpec == Spec /\ Fairness

----------------------------------------------------------------------------
(* Properties.                                                             *)

Slots == INSTANCE CallSlots
           WITH Slot <- Attempts, Size <- MaxConcurrent,
                held <- Tracked, used <- {a \in Attempts : ~Fresh(a)}

\* The dialer is a pool of max_concurrent call slots: an attempt takes a slot
\* once, when it is created and only below the limit, and gives it back for
\* good, whatever the watchdog and the event handlers do to the meta maps.
UsesCallSlots == Slots!Spec

\* The scheduler never tracks more attempts of a campaign than its
\* max_concurrent, although it counts them several awaits before it adds one
\* and the event tasks add and drop entries meanwhile.
CapacityRespected == Cardinality(Tracked) <= MaxConcurrent

BeingHungUp(a) ==
  ans[a] = "hang" \/ amd[a] = "hang" \/ (sched = "dogHangup" /\ cur = a)

OnTheLine(a) == Live(a) /\ ~BeingHungUp(a)

\* The campaign never has more calls on the line than its max_concurrent,
\* whoever tracks them: a call whose hangup is about to be sent does not count.
LinesRespected == Cardinality({a \in Attempts : OnTheLine(a)}) <= MaxConcurrent

\* A lead is never rung while an earlier call to it is still up.
OneCallPerLead ==
  \A a, b \in Attempts :
    OnTheLine(a) /\ OnTheLine(b) /\ row[a].lead = row[b].lead => a = b

\* Someone will still write the state of attempt a's lead: the watchdog, the
\* ChannelDestroyed handler, the cleanup of the session, or a running task.
WillSettle(a) ==
  \/ a \in Tracked \/ session[a] = "full"
  \/ metaC[a] = "chan" /\ (Live(a) \/ events[a] # <<>>)
  \/ ansMeta[a] /\ ans[a] # "hang"
  \/ amdMeta[a] /\ amd[a] \in {"gate", "machineFinish", "machineLead",
                               "deniedFinish", "deniedLead", "humanLead"}
  \/ des[a] # "idle" \/ cln[a] \in {"history", "historyLead"}

\* A lead that counts as being called has an attempt somebody still answers
\* for: no interleaving strands it in a state the scheduler never picks up
\* and the campaign never completes with.
NoStrandedLead ==
  up => \A l \in LeadIn(Dialed) :
          \/ curLead = l
          \/ \E a \in Attempts : row[a].lead = l /\ WillSettle(a)

\* An attempt whose row is open has somebody left who will close it.
NoOrphanAttempt ==
  up => \A a \in Attempts : Open(a) => cur = a \/ WillSettle(a)

\* A campaign is marked completed only when it has no runnable work and no call
\* in flight, although the counts, the lease, the statistics and the write are
\* four awaits of the scheduler, as long as the engine does not crash.
CompletedWhenDone ==
  [][campaign # "completed" /\ campaign' = "completed" /\ crashes = 0 =>
       /\ LeadIn(Runnable) = {}
       /\ Tracked = {} /\ Active = {}]_vars

KeepsConversation(a) ==
  row[a].outcome = "answered_human" =>
    row'[a].outcome \in {"answered_human", "purged"}

\* An attempt recorded as a conversation stays one: no late event, no failed
\* set-up and no pass of the watchdog writes another outcome over it.  (On the
\* watchdog, src/engine.py: "If a call session exists, normal cleanup will
\* finish the attempt.")
ConversationKept == [][\A a \in Attempts : KeepsConversation(a)]_vars

\* Of all that writes outcomes, the answered, AMD, ChannelDestroyed and cleanup
\* tasks of a call, the scheduler, the operator and the restart, only the
\* watchdog ever writes over a conversation.
OnlyDogRewrites ==
  [][\A a \in Attempts :
       KeepsConversation(a) \/ (sched = "dogFinish" /\ cur = a)]_vars

\* The watchdog finalizes only attempts that never reached StasisStart: the
\* calls it hangs up are not up.
UnreachedOnly ==
  [][sched = "dogHangup" /\ sched' = "dogFinish" =>
       chan[cur] \notin {"stasis", "dialplan"}]_vars

\* Every lead leaves the states of a call in progress again and again, as long
\* as the engine that called it does not crash.
LeadsSettle == \A l \in Leads : []<>(lead[l] \notin Dialed \/ crashes > 0)

\* The whole capacity of a campaign comes back again and again.
CapacityFlows == []<>(Capacity = MaxConcurrent)

\* A campaign that keeps running and has leads is marked completed in the end,
\* as long as the engine does not crash.  (Its instances have an attempt id for
\* every lead.)
CampaignCompletes ==
  (campaign = "running" /\ \E l \in Leads : Exists(l))
     ~> (campaign # "running" \/ crashes > 0)
=============================================================================
