--------------------------- MODULE OutboundStore ---------------------------
(***************************************************************************)
(* The SQLite tables of the outbound dialer (src/core/outbound_store.py)   *)
(* for one campaign: the campaign's status, its leads and its attempts.    *)
(*                                                                         *)
(* Every method of the store runs one transaction under the store's lock,  *)
(* so each is one action here.  The engine and the Admin UI backend are    *)
(* two processes that share these tables and nothing else.                 *)
(*                                                                         *)
(* Data left out: names, phone numbers, timestamps and counters.  A lease  *)
(* has no clock: a leased lead may or may not have expired whenever it is  *)
(* looked at, which is what leased_until_utc lets a reader see.            *)
(***************************************************************************)
EXTENDS Integers, FiniteSets

CONSTANTS Leads,      \* lead ids the campaign can ever hold
          Attempts    \* attempt ids create_attempt can ever hand out

VARIABLES campaign,   \* outbound_campaigns.status
          lead,       \* outbound_leads.state of each lead
          row         \* outbound_attempts: lead_id and outcome of each attempt

storeVars == <<campaign, lead, row>>

NoLead == "no lead"

ASSUME LeadsAssumption == NoLead \notin Leads

CampaignStatus ==
  {"draft", "running", "paused", "stopped", "archived", "completed"}

\* "absent" is a lead not imported yet, "deleted" one that has been: a lead
\* imported again gets a new id, so an id never comes back.
LeadState ==
  {"absent", "pending", "leased", "dialing", "amd_pending", "in_progress",
   "completed", "failed", "canceled", "deleted"}

Dialed      == {"dialing", "amd_pending", "in_progress"}
ActiveLead  == {"leased"} \cup Dialed
Runnable    == {"pending"} \cup ActiveLead
FinishedLead == {"completed", "failed", "canceled"}

\* "open" is ended_at_utc IS NULL.  "cause" stands for the six outcomes read
\* from a ChannelDestroyed cause, "stale" for the restart cleanup's error,
\* "consent_denied" for consent_timeout too, and "answered_human" for every
\* outcome _persist_call_history gives a conversation.
EndedOutcome ==
  {"canceled", "error", "no_answer", "cause", "stale", "voicemail_dropped",
   "consent_denied", "answered_human"}
Outcome == {"none", "open", "purged"} \cup EndedOutcome

Row   == [lead : Leads \cup {NoLead}, outcome : Outcome]
NoRow == [lead |-> NoLead, outcome |-> "none"]

StoreTypeOK ==
  /\ campaign \in CampaignStatus
  /\ lead \in [Leads -> LeadState]
  /\ row \in [Attempts -> Row]

StoreInit ==
  /\ campaign \in {"draft", "running"}
  /\ lead \in [Leads -> {"absent", "pending"}]
  /\ row = [a \in Attempts |-> NoRow]

Exists(l)     == l \in Leads /\ lead[l] \notin {"absent", "deleted"}
LeadIn(S)     == {l \in Leads : lead[l] \in S}
Fresh(a)      == row[a].outcome = "none"
Open(a)       == row[a].outcome = "open"
Ended(a)      == row[a].outcome \in EndedOutcome

----------------------------------------------------------------------------
(* Operations of the engine.                                               *)

\* Mutant: a lead being called counts as one whose lease has run out.
LeaseAnyLead(l) ==
  /\ lead[l] \in {"pending", "leased", "dialing"}
  /\ lead' = [lead EXCEPT ![l] = "leased"]
  /\ UNCHANGED <<campaign, row>>

\* lease_pending_leads, a row its SELECT found: pending, or leased with a
\* lease that has run out.
LeaseLead(l) ==
  /\ lead[l] \in {"pending", "leased"}
  /\ lead' = [lead EXCEPT ![l] = "leased"]
  /\ UNCHANGED <<campaign, row>>

\* mark_lead_dialing when its UPDATE matches (state = 'leased').
MarkLeadDialing(l) ==
  /\ lead[l] = "leased"
  /\ lead' = [lead EXCEPT ![l] = "dialing"]
  /\ UNCHANGED <<campaign, row>>

\* The lead table after set_lead_state: no guard on the present state.
LeadSetTo(l, s) ==
  IF Exists(l) THEN [lead EXCEPT ![l] = s] ELSE lead

SetLeadState(l, s) ==
  /\ lead' = LeadSetTo(l, s)
  /\ UNCHANGED <<campaign, row>>

CreateAttempt(a, l) ==
  /\ Fresh(a)
  /\ row' = [row EXCEPT ![a] = [lead |-> l, outcome |-> "open"]]
  /\ UNCHANGED <<campaign, lead>>

\* The attempts table after finish_attempt: its UPDATE has no "ended_at_utc IS
\* NULL", so a second call overwrites the first.
Finished(a, o) ==
  IF row[a].outcome \in {"none", "purged"} THEN row
  ELSE [row EXCEPT ![a].outcome = o]

FinishAttempt(a, o) ==
  /\ row' = Finished(a, o)
  /\ UNCHANGED <<campaign, lead>>

\* cleanup_stale_attempts_and_leads, where old is the set of attempts started
\* before the cutoff: an open old attempt ends and its lead, if it is stuck,
\* fails.
CleanupStale(old) ==
  LET closed == {a \in old : Open(a)}
      stuck  == {l \in LeadIn(ActiveLead) : \E a \in closed : row[a].lead = l}
  IN  /\ row' = [a \in Attempts |->
                   IF a \in closed THEN [row[a] EXCEPT !.outcome = "stale"]
                                   ELSE row[a]]
      /\ lead' = [l \in Leads |-> IF l \in stuck THEN "failed" ELSE lead[l]]
      /\ UNCHANGED campaign

SetCampaignStatus(s) ==
  /\ campaign' = s
  /\ UNCHANGED <<lead, row>>

----------------------------------------------------------------------------
(* Operations of the operator, through the Admin UI backend.               *)

\* POST /campaigns/{id}/status running: refused without a pending lead.
StartCampaign ==
  /\ LeadIn({"pending"}) # {}
  /\ SetCampaignStatus("running")

PauseCampaign == SetCampaignStatus("paused")

\* status stopped with cancel_pending: only 'pending' leads are canceled.
StopCampaign ==
  /\ campaign' = "stopped"
  /\ lead' = [l \in Leads |->
                IF lead[l] = "pending" THEN "canceled" ELSE lead[l]]
  /\ UNCHANGED row

ArchiveCampaign ==
  /\ campaign # "running"
  /\ SetCampaignStatus("archived")

ImportLead(l) ==
  /\ lead[l] = "absent"
  /\ lead' = [lead EXCEPT ![l] = "pending"]
  /\ UNCHANGED <<campaign, row>>

CancelLead(l) ==
  /\ lead[l] \in {"pending", "leased", "dialing", "amd_pending"}
  /\ lead' = [lead EXCEPT ![l] = "canceled"]
  /\ UNCHANGED <<campaign, row>>

IgnoreLead(l) ==
  /\ Exists(l)
  /\ lead[l] \notin {"in_progress", "amd_pending"}
  /\ lead' = [lead EXCEPT ![l] = "canceled"]
  /\ UNCHANGED <<campaign, row>>

\* recycle_lead(mode="redial"): whatever state the lead is in.
RedialLead(l) ==
  /\ Exists(l)
  /\ lead' = [lead EXCEPT ![l] = "pending"]
  /\ UNCHANGED <<campaign, row>>

\* The attempts table after DELETE FROM outbound_attempts WHERE lead_id = l.
Purged(l) ==
  [a \in Attempts |->
     IF row[a].lead = l THEN [row[a] EXCEPT !.outcome = "purged"] ELSE row[a]]

\* recycle_lead(mode="reset") also deletes the lead's attempts.
ResetLead(l) ==
  /\ Exists(l)
  /\ lead' = [lead EXCEPT ![l] = "pending"]
  /\ row' = Purged(l)
  /\ UNCHANGED campaign

DeleteLead(l) ==
  /\ Exists(l)
  /\ campaign # "running"
  /\ lead' = [lead EXCEPT ![l] = "deleted"]
  /\ row' = Purged(l)
  /\ UNCHANGED campaign
=============================================================================
