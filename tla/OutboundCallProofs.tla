------------------------ MODULE OutboundCallProofs -------------------------
(***************************************************************************)
(* Proofs about the life of a call of OutboundDialer: its stages, who      *)
(* tracks it, who will close its attempt and settle its lead, and what the *)
(* watchdog and the completion check may do, for every value of the        *)
(* constants.                                                              *)
(***************************************************************************)
EXTENDS OutboundDialerProofs, SequenceTheorems

USE DEF storeVars, asterisk, memory, schedVars, tasks, vars

----------------------------------------------------------------------------
(* Event queues.                                                           *)

Token == {"answered", "amd"}

Holds(s, e) == \E i \in 1..Len(s) : s[i] = e

\* The events that move a call on are sent once, and nothing follows the
\* destruction of the channel.
Orderly(s) ==
  /\ \A i, j \in 1..Len(s) : s[i] \in Token /\ s[j] \in Token => i = j
  /\ \A i \in 1..Len(s) : s[i] = "destroyed" => i = Len(s)

LEMMA EmptyQueue == Orderly(<<>>) /\ \A e : ~Holds(<<>>, e)
BY DEF Orderly, Holds

LEMMA QueueTail ==
  ASSUME NEW s \in Seq(Event), s # <<>>, Orderly(s)
  PROVE  /\ Orderly(Tail(s))
         /\ Holds(s, Head(s))
         /\ \A e : Holds(Tail(s), e) => Holds(s, e)
         /\ \A e : Holds(s, e) => e = Head(s) \/ Holds(Tail(s), e)
         /\ Head(s) \in Token => \A e \in Token : ~Holds(Tail(s), e)
         /\ Head(s) = "destroyed" => Tail(s) = <<>>
<1> DEFINE t == Tail(s)
           n == Len(t)
<1>1. /\ n \in Nat /\ Len(s) = n + 1
      /\ Head(s) = s[1] /\ 1 \in 1..Len(s)
      /\ t \in Seq(Event)
      /\ \A i \in 1..n : i + 1 \in 1..Len(s) /\ t[i] = s[i + 1]
      /\ \A i \in 1..Len(s) : i = 1 \/ i - 1 \in 1..n
  OBVIOUS
<1> HIDE DEF t, n
<1>2. Orderly(t)
  <2>1. ASSUME NEW i \in 1..n, NEW j \in 1..n, t[i] \in Token, t[j] \in Token
        PROVE  i = j
    <3>1. i + 1 = j + 1
      BY <1>1, <2>1 DEF Orderly
    <3> QED BY <1>1, <3>1
  <2>2. ASSUME NEW i \in 1..n, t[i] = "destroyed" PROVE i = n
    <3>1. i + 1 = Len(s)
      BY <1>1, <2>2 DEF Orderly
    <3> QED BY <1>1, <3>1
  <2> QED BY <2>1, <2>2 DEF Orderly, n
<1>3. Holds(s, Head(s))
  BY <1>1 DEF Holds
<1>4. ASSUME NEW e, Holds(t, e) PROVE Holds(s, e)
  BY <1>1, <1>4 DEF Holds, n
<1>5. ASSUME NEW e, Holds(s, e), e # Head(s) PROVE Holds(t, e)
  <2>1. PICK i \in 1..Len(s) : s[i] = e
    BY <1>5 DEF Holds
  <2>2. i - 1 \in 1..n
    BY <1>1, <1>5, <2>1
  <2>3. t[i - 1] = s[(i - 1) + 1] /\ (i - 1) + 1 = i
    BY <1>1, <2>2
  <2> QED BY <2>1, <2>2, <2>3 DEF Holds, n
<1>6. ASSUME Head(s) \in Token, NEW e \in Token PROVE ~Holds(t, e)
  <2> SUFFICES ASSUME NEW i \in 1..n, t[i] = e PROVE FALSE
    BY DEF Holds, n
  <2>1. i + 1 = 1
    BY <1>1, <1>6 DEF Orderly
  <2> QED BY <1>1, <2>1
<1>7. ASSUME Head(s) = "destroyed" PROVE t = <<>>
  <2>1. 1 = Len(s)
    BY <1>1, <1>7 DEF Orderly
  <2>2. Len(t) = 0
    BY <1>1, <2>1 DEF n
  <2> QED BY <1>1, <2>2, EmptySeq
<1> QED BY <1>2, <1>3, <1>4, <1>5, <1>6, <1>7 DEF t

LEMMA QueueAppend ==
  ASSUME NEW s \in Seq(Event), NEW e \in Event, Orderly(s),
         ~Holds(s, "destroyed")
  PROVE  /\ \A x : Holds(s \o <<e>>, x) <=> Holds(s, x) \/ x = e
         /\ e \in Token /\ (\A x \in Token : ~Holds(s, x)) =>
              Orderly(s \o <<e>>)
         /\ e \notin Token => Orderly(s \o <<e>>)
<1> DEFINE t == s \o <<e>>
<1>1. /\ Len(s) \in Nat /\ Len(t) = Len(s) + 1
      /\ t[Len(s) + 1] = e
      /\ \A i \in 1..Len(s) : t[i] = s[i]
  OBVIOUS
<1>2. \A i \in 1..Len(t) : i \in 1..Len(s) \/ i = Len(s) + 1
  BY <1>1
<1>3. Len(s) + 1 \in 1..Len(t) /\ \A i \in 1..Len(s) : i \in 1..Len(t)
  BY <1>1
<1> HIDE DEF t
<1>4. \A x : Holds(t, x) <=> Holds(s, x) \/ x = e
  BY <1>1, <1>2, <1>3 DEF Holds
<1>5. \A i \in 1..Len(t) : t[i] = "destroyed" => i = Len(t)
  BY <1>1, <1>2 DEF Holds
<1>6. ASSUME e \notin Token \/ \A x \in Token : ~Holds(s, x),
             NEW i \in 1..Len(t), NEW j \in 1..Len(t),
             t[i] \in Token, t[j] \in Token
      PROVE  i = j
  <2>1. CASE i \in 1..Len(s) /\ j \in 1..Len(s)
    BY <1>1, <1>6, <2>1 DEF Orderly
  <2>2. ASSUME NEW k \in 1..Len(s), t[k] \in Token, e \in Token PROVE FALSE
    BY <1>1, <1>6, <2>2 DEF Holds
  <2> QED BY <1>1, <1>2, <1>6, <2>1, <2>2
<1> QED BY <1>4, <1>5, <1>6 DEF Orderly, t

----------------------------------------------------------------------------
(* The life of a call.                                                     *)

Sent(a, e) == Holds(events[a], e)
Held(a)    == metaA[a] \in HasMeta
Human(a)   == row[a].outcome = "answered_human"

\* An AMD task at work on the result, and one that attaches the AI.
Judging   == {"gate", "machineFinish", "machineLead", "deniedFinish",
              "deniedLead", "humanLead"}
SettingUp == {"vars", "tailNew", "tailFull"}

\* A cleanup that has hung the channel up.
HungUp == {"history", "historyLead", "remove", "done"}

Untouched(a) ==
  /\ events[a] = <<>> /\ session[a] = "none"
  /\ ans[a] = "idle" /\ amd[a] = "idle" /\ des[a] = "idle" /\ cln[a] = "idle"

\* The stages of a call follow each other and do not overlap: it rings, its
\* answer is on its way, the answered task runs, the dialplan has it, the AMD
\* result is on its way, the AMD task runs, it has a session or a cleanup.
Phase(a) ==
  /\ Orderly(events[a])
  /\ chan[a] \in {"none", "ringing"} => Untouched(a)
  /\ Sent(a, "answered") => ans[a] = "idle"
  /\ Sent(a, "answered") \/ ans[a] # "idle" =>
       chan[a] # "dialplan" /\ ~Sent(a, "amd") /\ amd[a] = "idle"
  /\ chan[a] = "dialplan" => ~Sent(a, "amd") /\ amd[a] = "idle"
  /\ Sent(a, "amd") => amd[a] = "idle"
  /\ session[a] # "none" \/ cln[a] # "idle" =>
       /\ chan[a] # "dialplan" /\ ~Sent(a, "answered") /\ ~Sent(a, "amd")
       /\ ans[a] = "idle" /\ amd[a] \in SettingUp \cup {"idle"}
  /\ Sent(a, "destroyed") \/ des[a] # "idle" => chan[a] = "gone"
  /\ des[a] # "idle" => events[a] = <<>>

\* An open attempt is tracked; one whose meta is about to be dropped is closed.
Closing(a) ==
  /\ Held(a) => up
  /\ crashes = 0 =>
       /\ Open(a) => Held(a)
       /\ amd[a] \in {"machineLead", "deniedLead"} => ~Open(a)
       /\ des[a] = "lead" \/ cln[a] = "historyLead" => ~Open(a)

NoAriError  == "ari_error" \notin Faults
NoEventLoss == "event_loss" \notin Faults
NoLostCall  == "originate_lost" \notin Faults
Patient     == "patient_watchdog" \in Timing
OrderlyTeardown == "setup_first" \in Timing

\* A channel that is up is tracked or about to be hung up.
Watched(a) ==
  NoAriError =>
    /\ cln[a] \in HungUp => chan[a] = "gone"
    /\ NoLostCall /\ crashes = 0 /\ Live(a) =>
         Held(a) \/ ans[a] = "hang" \/ amd[a] = "hang"

\* Whatever could finish an attempt has let go of one that was a conversation.
Concluded(a) ==
  NoLostCall =>
    /\ amd[a] \in SettingUp => session[a] # "none" \/ cln[a] = "done"
    /\ cln[a] \in {"hangup", "history", "historyLead", "remove"} =>
         session[a] # "none"
    /\ des[a] # "idle" =>
         cln[a] = "done" \/ (cln[a] = "idle" /\ session[a] = "none")
    /\ Human(a) =>
         /\ chan[a] \in {"stasis", "gone"}
         /\ ~Sent(a, "answered") /\ ~Sent(a, "amd")
         /\ ans[a] = "idle" /\ amd[a] \in SettingUp \cup {"idle"}
         /\ des[a] = "idle"
         /\ cln[a] = "historyLead" \/ (~Held(a) /\ metaC[a] # "chan")

\* A tracked call in Stasis has somebody at work on it.
Attended(a) ==
  NoAriError /\ NoEventLoss /\ Held(a) /\ chan[a] = "stasis" =>
    \/ Sent(a, "answered") \/ ans[a] # "idle"
    \/ Sent(a, "amd") \/ amd[a] # "idle" \/ session[a] # "none"

\* A call on its way to a session.
OnChain(a) ==
  \/ chan[a] \in {"ringing", "dialplan"}
  \/ Sent(a, "answered") \/ ans[a] # "idle" \/ Sent(a, "amd")
  \/ amd[a] \in Judging \cup {"attach", "vars", "tailNew"}

\* A call on its way is tracked, and its AMD task knows its lead.
Followed(a) ==
  /\ OrderlyTeardown =>
       /\ amd[a] \in {"vars", "tailNew"} => session[a] = "new"
       /\ amd[a] = "tailFull" => session[a] = "full"
       /\ cln[a] = "historyLead" => session[a] = "full"
  /\ OrderlyTeardown /\ Patient /\ NoLostCall /\ crashes = 0 =>
       /\ OnChain(a) => Held(a)
       /\ amd[a] \in Judging => amdMeta[a]

\* Where the scheduler has a call in hand.
Dogging == {"dogHangup", "dogFinish", "dogLead"}
Dialing == {"mark", "markFail", "originate", "bind", "origFail", "origLead"}

OffChain(a) ==
  /\ ans[a] = "idle" /\ amd[a] = "idle"
  /\ ~Sent(a, "answered") /\ ~Sent(a, "amd")
  /\ chan[a] \notin {"ringing", "dialplan"}

\* The call the scheduler dials.
InHand(a) ==
  /\ sched \in Dialing /\ cur = a => row[a].lead = curLead
  /\ sched \in {"mark", "markFail", "originate"} /\ cur = a => chan[a] = "none"
  /\ sched \in {"mark", "originate"} /\ cur = a => Held(a)
  /\ NoLostCall /\ sched \in {"origFail", "origLead"} /\ cur = a =>
       chan[a] = "none"
  /\ crashes = 0 /\ sched = "origLead" /\ cur = a => ~Open(a)

\* The calls the watchdog has taken or will look at.
Dogged(a) ==
  /\ crashes = 0 /\ sched = "dogLead" /\ cur = a => ~Open(a)
  /\ NoAriError /\ sched \in {"dogFinish", "dogLead"} /\ cur = a => ~Live(a)
  /\ Patient /\ (a \in todo \/ (sched \in Dogging /\ cur = a)) => OffChain(a)
  /\ Patient /\ NoAriError /\ NoEventLoss =>
       /\ a \in todo /\ chan[a] = "stasis" => session[a] # "none"
       /\ sched = "dogHangup" /\ cur = a => chan[a] \in {"none", "gone"}

Life(a) ==
  /\ Phase(a) /\ Closing(a) /\ Watched(a) /\ Concluded(a) /\ Attended(a)
  /\ Followed(a)

Seat(a) == InHand(a) /\ Dogged(a)

\* The scheduler's own variables.
Seated ==
  /\ sched \in Dialing \cup Dogging => cur \in Attempts
  /\ todo # {} => sched \in Dogging
  /\ sched # "idle" => up
  /\ crashes = 0 => up

LifeInv ==
  /\ SlotInv /\ Seated
  /\ \A a \in Attempts : Life(a) /\ Seat(a)

----------------------------------------------------------------------------
(* What a step does to the calls it is not about.                          *)

Same(b) ==
  /\ chan'[b] = chan[b] /\ events'[b] = events[b]
  /\ metaA'[b] = metaA[b] /\ metaC'[b] = metaC[b] /\ session'[b] = session[b]
  /\ ans'[b] = ans[b] /\ amd'[b] = amd[b]
  /\ des'[b] = des[b] /\ cln'[b] = cln[b]
  /\ amdMeta'[b] = amdMeta[b] /\ row'[b] = row[b]

LEMMA SameLife ==
  ASSUME NEW b, Same(b), Life(b), UNCHANGED crashes, up => up'
  PROVE  Life(b)'
BY DEF Same, Life, Phase, Untouched, Sent, Closing, Held, Open, Watched,
       Live, Concluded, Human, Attended, Followed, OnChain

LEMMA SameSeat ==
  ASSUME NEW b, Same(b), Seat(b), UNCHANGED crashes,
         UNCHANGED <<sched, cur, curLead, todo>>
  PROVE  Seat(b)'
BY DEF Same, Seat, InHand, Dogged, OffChain, Sent, Held, Open, Live

LEMMA AppendTwo ==
  ASSUME NEW s \in Seq(Event), NEW e \in Event, NEW f \in Event
  PROVE  s \o <<e, f>> = (s \o <<e>>) \o <<f>>
<1>1. <<e>> \in Seq(Event) /\ <<f>> \in Seq(Event)
  OBVIOUS
<1>2. <<e, f>> = <<e>> \o <<f>>
  <2> DEFINE t == <<e>> \o <<f>>
  <2>1. t \in Seq(Event) /\ Len(t) = 2 /\ t[1] = e /\ t[2] = f
    BY <1>1, ConcatProperties
  <2>2. <<e, f>> \in Seq(Event) /\ Len(<<e, f>>) = 2
        /\ \A i \in 1..2 : i = 1 \/ i = 2
    OBVIOUS
  <2> HIDE DEF t
  <2>3. \A i \in 1..Len(<<e, f>>) : <<e, f>>[i] = t[i]
    BY <2>1, <2>2
  <2>4. <<e, f>> = t
    BY <2>1, <2>2, <2>3, SeqEqual
  <2> QED BY <2>4 DEF t
<1> QED BY <1>1, <1>2, ConcatAssociative

LEMMA AnsEffects ==
  ASSUME TypeOK, NEW a \in Attempts, NEW from, NEW to, AnsAt(a, from, to)
  PROVE  /\ ans[a] = from /\ ans'[a] = to
         /\ \A b \in Attempts \ {a} : ans'[b] = ans[b]
BY DEF TypeOK, TaskTypes, AnsAt

LEMMA AmdEffects ==
  ASSUME TypeOK, NEW a \in Attempts, NEW from, NEW to, AmdAt(a, from, to)
  PROVE  /\ amd[a] = from /\ amd'[a] = to
         /\ \A b \in Attempts \ {a} : amd'[b] = amd[b]
BY DEF TypeOK, TaskTypes, AmdAt

LEMMA DesEffects ==
  ASSUME TypeOK, NEW a \in Attempts, NEW from, NEW to, DesAt(a, from, to)
  PROVE  /\ des[a] = from /\ des'[a] = to
         /\ \A b \in Attempts \ {a} : des'[b] = des[b]
BY DEF TypeOK, TaskTypes, DesAt

LEMMA ClnEffects ==
  ASSUME TypeOK, NEW a \in Attempts, NEW from, NEW to, ClnAt(a, from, to)
  PROVE  /\ cln[a] = from /\ cln'[a] = to
         /\ \A b \in Attempts \ {a} : cln'[b] = cln[b]
BY DEF TypeOK, TaskTypes, ClnAt

LEMMA FinishEffects ==
  ASSUME TypeOK, NEW a \in Attempts, NEW o \in EndedOutcome, FinishAttempt(a, o)
  PROVE  /\ ~Open(a)' /\ row'[a].lead = row[a].lead
         /\ Human(a)' => Human(a) \/ o = "answered_human"
         /\ \A b \in Attempts \ {a} : row'[b] = row[b]
         /\ UNCHANGED lead
<1>1. CASE row[a].outcome \in {"none", "purged"}
  BY <1>1 DEF FinishAttempt, Finished, Open, Human
<1>2. CASE row[a].outcome \notin {"none", "purged"}
  BY <1>2 DEF TypeOK, StoreTypeOK, Row, FinishAttempt, Finished, Open, Human,
              EndedOutcome
<1> QED BY <1>1, <1>2

LEMMA ForgetEffects ==
  ASSUME TypeOK, NEW a \in Attempts, metaA' = Forget(metaA, a)
  PROVE  /\ metaA'[a] = "none" /\ \A b \in Attempts \ {a} : metaA'[b] = metaA[b]
BY DEF TypeOK, MemoryTypes, Forget

LEMMA ForgetChannelEffects ==
  ASSUME TypeOK, NEW a \in Attempts, metaC' = Forget(metaC, a)
  PROVE  /\ metaC'[a] = "none" /\ \A b \in Attempts \ {a} : metaC'[b] = metaC[b]
BY DEF TypeOK, MemoryTypes, Forget

\* Events are raised behind those that wait, all or none.
LEMMA RaiseEffects ==
  ASSUME TypeOK, NEW a \in Attempts, NEW es \in Seq(Event), Raise(a, es)
  PROVE  /\ \/ events'[a] = events[a] /\ (NoEventLoss => ~up)
            \/ events'[a] = events[a] \o es
         /\ \A b \in Attempts \ {a} : events'[b] = events[b]
BY DEF TypeOK, ChannelTypes, Raise, NoEventLoss

LEMMA RaiseOne ==
  ASSUME TypeOK, NEW a \in Attempts, NEW e \in Event, Orderly(events[a]),
         ~Sent(a, "destroyed"), Raise(a, <<e>>),
         e \in Token => ~Sent(a, "answered") /\ ~Sent(a, "amd")
  PROVE  /\ Orderly(events'[a])
         /\ \A x : Sent(a, x) => Sent(a, x)'
         /\ \A x : Sent(a, x)' => Sent(a, x) \/ x = e
         /\ NoEventLoss /\ up => Sent(a, e)'
         /\ \A b \in Attempts \ {a} : events'[b] = events[b]
<1>1. events[a] \in Seq(Event) /\ <<e>> \in Seq(Event)
  BY DEF TypeOK, ChannelTypes
<1>2. /\ \/ events'[a] = events[a] /\ (NoEventLoss => ~up)
         \/ events'[a] = events[a] \o <<e>>
      /\ \A b \in Attempts \ {a} : events'[b] = events[b]
  BY <1>1, RaiseEffects
<1>3. /\ \A x : Holds(events[a] \o <<e>>, x) <=> Holds(events[a], x) \/ x = e
      /\ Orderly(events[a] \o <<e>>)
  BY <1>1, QueueAppend DEF Sent, Token
<1> QED BY <1>2, <1>3 DEF Sent

LEMMA HangUpEffects ==
  ASSUME TypeOK, NEW a \in Attempts, Phase(a), HangUp(a)
  PROVE  /\ \A b \in Attempts \ {a} : chan'[b] = chan[b] /\ events'[b] = events[b]
         /\ ~Live(a)'
         /\ \/ ~Live(a) /\ chan'[a] = chan[a] /\ events'[a] = events[a]
            \/ /\ Live(a) /\ chan'[a] = "gone"
               /\ Orderly(events'[a])
               /\ Sent(a, "answered")' => Sent(a, "answered")
               /\ Sent(a, "amd")' => Sent(a, "amd")
<1>1. CASE ~Live(a)
  BY <1>1 DEF HangUp, Live
<1>2. CASE Live(a)
  <2>1. chan' = [chan EXCEPT ![a] = "gone"] /\ Raise(a, LastEvents(a))
    BY <1>2 DEF HangUp
  <2>2. chan'[a] = "gone" /\ \A b \in Attempts \ {a} : chan'[b] = chan[b]
    BY <2>1 DEF TypeOK, ChannelTypes
  <2>3. /\ events[a] \in Seq(Event) /\ Orderly(events[a])
        /\ ~Holds(events[a], "destroyed")
    BY <1>2 DEF TypeOK, ChannelTypes, Phase, Live, Sent
  <2>4. /\ events'[a] = events[a] \/ events'[a] = events[a] \o LastEvents(a)
        /\ \A b \in Attempts \ {a} : events'[b] = events[b]
    BY <2>1, RaiseEffects, LastEventsType
  <2>5. "end" \in Event /\ "destroyed" \in Event
    BY DEF Event
  <2>6. CASE events'[a] = events[a]
    BY <1>2, <2>2, <2>3, <2>4, <2>6 DEF Live, Sent
  <2>7. CASE events'[a] = events[a] \o <<"destroyed">>
    BY <1>2, <2>2, <2>3, <2>4, <2>5, <2>7, QueueAppend DEF Live, Sent, Token
  <2>8. CASE events'[a] = events[a] \o <<"end", "destroyed">>
    <3> DEFINE s == events[a] \o <<"end">>
    <3>1. s \in Seq(Event) /\ events'[a] = s \o <<"destroyed">>
      BY <2>3, <2>5, <2>8, AppendTwo
    <3>2. Orderly(s)
          /\ \A x : Holds(s, x) <=> Holds(events[a], x) \/ x = "end"
      BY <2>3, <2>5, QueueAppend DEF Token
    <3> HIDE DEF s
    <3>3. /\ Orderly(s \o <<"destroyed">>)
          /\ \A x : Holds(s \o <<"destroyed">>, x) <=> Holds(s, x) \/ x = "destroyed"
      BY <2>3, <2>5, <3>1, <3>2, QueueAppend DEF Token
    <3> QED BY <1>2, <2>2, <2>4, <3>1, <3>2, <3>3 DEF Live, Sent, Token
  <2> QED BY <2>4, <2>6, <2>7, <2>8 DEF LastEvents
<1> QED BY <1>1, <1>2

\* The channel is hung up, or stays as it is.
Drops(a) ==
  /\ NoAriError => ~Live(a)'
  /\ \/ chan'[a] = chan[a] /\ events'[a] = events[a]
     \/ /\ Live(a) /\ chan'[a] = "gone"
        /\ Orderly(events'[a])
        /\ Sent(a, "answered")' => Sent(a, "answered")
        /\ Sent(a, "amd")' => Sent(a, "amd")
  /\ \A b \in Attempts \ {a} : chan'[b] = chan[b] /\ events'[b] = events[b]

LEMMA HangupEffects ==
  ASSUME TypeOK, NEW a \in Attempts, Phase(a), HangupChannel(a)
  PROVE  Drops(a)
<1>1. CASE HangUp(a)
  BY <1>1, HangUpEffects DEF Drops
<1>2. CASE "ari_error" \in Faults /\ UNCHANGED asterisk
  BY <1>2 DEF NoAriError, Drops
<1> QED BY <1>1, <1>2 DEF HangupChannel

\* The next event is taken off the queue.
LEMMA DispatchEffects ==
  ASSUME TypeOK, NEW a \in Attempts, Phase(a), NEW e, Dispatch(a, e)
  PROVE  /\ \A b \in Attempts \ {a} : events'[b] = events[b]
         /\ up /\ events[a] # <<>> /\ Orderly(events'[a])
         /\ Sent(a, e)
         /\ \A x : Sent(a, x)' => Sent(a, x)
         /\ \A x : Sent(a, x) => x = e \/ Sent(a, x)'
         /\ e \in Token => ~Sent(a, "answered")' /\ ~Sent(a, "amd")'
         /\ e = "destroyed" => events'[a] = <<>>
         /\ UNCHANGED <<chan, up, crashes, schedVars>>
<1>1. events[a] \in Seq(Event) /\ events[a] # <<>> /\ Orderly(events[a])
      /\ Head(events[a]) = e
  BY DEF TypeOK, ChannelTypes, Dispatch, Phase
<1>2. /\ events'[a] = Tail(events[a])
      /\ \A b \in Attempts \ {a} : events'[b] = events[b]
  BY DEF TypeOK, ChannelTypes, Dispatch
<1> QED BY <1>1, <1>2, QueueTail DEF Sent, Dispatch, Token

----------------------------------------------------------------------------
(* Every step of a call keeps what is said of it and touches no other.     *)

Step(a) ==
  /\ Life(a)' /\ Seat(a)'
  /\ \A b \in Attempts \ {a} : Same(b)
  /\ UNCHANGED <<schedVars, up, crashes>>

USE DEF Step, Same, Drops, Life, Phase, Untouched, Sent, Closing, Held, Open,
        Watched, Live,
        Concluded, Human, Attended, Followed, OnChain, Seat, InHand, Dogged,
        OffChain, SettingUp, Judging, HungUp, Dialing, Dogging, HasMeta,
        ChanState

LEMMA AnswerHandlerLife ==
  ASSUME LifeInv, NEW a \in Attempts,
         \/ AnsLead(a)
         \/ AnsAdd(a)
         \/ AnsContinue(a)
         \/ AnsContinueFails(a)
         \/ AnsFailFinish(a)
         \/ AnsFailLead(a)
         \/ AnsHang(a)
  PROVE  Step(a)
<1>0. TypeOK /\ Seated /\ Life(a) /\ Seat(a) /\ chan[a] \in ChanState
  BY DEF LifeInv, SlotInv, TypeOK, ChannelTypes
<1>1. CASE AnsLead(a)
  <2>1. /\ ans[a] = "lead" /\ ans'[a] = "add"
        /\ \A b \in Attempts \ {a} : ans'[b] = ans[b]
    BY <1>0, <1>1, AnsEffects DEF AnsLead
  <2> QED BY <1>0, <1>1, <2>1
          DEF AnsLead, SetLeadState, OthersThanAns
<1>2. CASE AnsAdd(a)
  <2>1. /\ ans[a] = "add" /\ ans'[a] = "continue"
        /\ \A b \in Attempts \ {a} : ans'[b] = ans[b]
    BY <1>0, <1>2, AnsEffects DEF AnsAdd
  <2> QED BY <1>0, <1>2, <2>1
          DEF AnsAdd, OthersThanAns
<1>3. CASE AnsContinue(a)
  <2>1. /\ ans[a] = "continue" /\ ans'[a] = "idle"
        /\ \A b \in Attempts \ {a} : ans'[b] = ans[b]
    BY <1>0, <1>3, AnsEffects DEF AnsContinue
  <2>2. chan[a] = "stasis" /\ chan'[a] = "dialplan"
        /\ \A b \in Attempts \ {a} : chan'[b] = chan[b]
    BY <1>0, <1>3 DEF AnsContinue, TypeOK, ChannelTypes
  <2>3. /\ Orderly(events'[a])
        /\ \A x : Sent(a, x)' => Sent(a, x) \/ x = "end"
        /\ \A b \in Attempts \ {a} : events'[b] = events[b]
    BY <1>0, <1>3, RaiseOne DEF AnsContinue, Event, Token
  <2> QED BY <1>0, <1>3, <2>1, <2>2, <2>3
          DEF AnsContinue, OthersThanAns
<1>4. CASE AnsContinueFails(a)
  <2>1. ans[a] = "continue" /\ ans'[a] \in {"failFinish", "hang"}
        /\ \A b \in Attempts \ {a} : ans'[b] = ans[b]
    BY <1>0, <1>4, AnsEffects DEF AnsContinueFails
  <2> QED BY <1>0, <1>4, <2>1
          DEF AnsContinueFails, OthersThanAns
<1>5. CASE AnsFailFinish(a)
  <2>1. /\ ans[a] = "failFinish" /\ ans'[a] = "failLead"
        /\ \A b \in Attempts \ {a} : ans'[b] = ans[b]
    BY <1>0, <1>5, AnsEffects DEF AnsFailFinish
  <2>2. ~Open(a)' /\ row'[a].lead = row[a].lead /\ (Human(a)' => Human(a))
        /\ \A b \in Attempts \ {a} : row'[b] = row[b]
    BY <1>0, <1>5, FinishEffects DEF AnsFailFinish, EndedOutcome
  <2> QED BY <1>0, <1>5, <2>1, <2>2
          DEF AnsFailFinish, OthersThanAns
<1>6. CASE AnsFailLead(a)
  <2>1. /\ ans[a] = "failLead" /\ ans'[a] = "hang"
        /\ \A b \in Attempts \ {a} : ans'[b] = ans[b]
    BY <1>0, <1>6, AnsEffects DEF AnsFailLead
  <2> QED BY <1>0, <1>6, <2>1
          DEF AnsFailLead, SetLeadState, OthersThanAns
<1>7. CASE AnsHang(a)
  <2>1. /\ ans[a] = "hang" /\ ans'[a] = "idle"
        /\ \A b \in Attempts \ {a} : ans'[b] = ans[b]
    BY <1>0, <1>7, AnsEffects DEF AnsHang
  <2>2. Drops(a)
    BY <1>0, <1>7, HangupEffects DEF AnsHang
  <2> QED BY <1>0, <1>7, <2>1, <2>2
          DEF AnsHang, OthersThanAns
<1> QED BY <1>1, <1>2, <1>3, <1>4, <1>5, <1>6, <1>7

LEMMA AmdHandlerLife ==
  ASSUME LifeInv, NEW a \in Attempts,
         \/ AmdGate(a)
         \/ AmdMachineFinish(a)
         \/ AmdMachineLead(a)
         \/ AmdDeniedFinish(a)
         \/ AmdDeniedLead(a)
         \/ AmdHang(a)
         \/ AmdHumanLead(a)
         \/ AmdAttach(a)
         \/ AmdAttachFails(a)
         \/ AmdVars(a)
         \/ AmdTail(a)
  PROVE  Step(a)
<1>0. TypeOK /\ Seated /\ Life(a) /\ Seat(a) /\ chan[a] \in ChanState
  BY DEF LifeInv, SlotInv, TypeOK, ChannelTypes
<1>1. CASE AmdGate(a)
  <2>1. /\ amd[a] = "gate"
        /\ amd'[a] \in {"machineFinish", "deniedFinish", "humanLead"}
        /\ \A b \in Attempts \ {a} : amd'[b] = amd[b]
    BY <1>0, <1>1, AmdEffects DEF AmdGate
  <2> QED BY <1>0, <1>1, <2>1
          DEF AmdGate, OthersThanAmd
<1>2. CASE AmdMachineFinish(a)
  <2>1. /\ amd[a] = "machineFinish" /\ amd'[a] = "machineLead"
        /\ \A b \in Attempts \ {a} : amd'[b] = amd[b]
    BY <1>0, <1>2, AmdEffects DEF AmdMachineFinish, AmdEnds
  <2>2. ~Open(a)' /\ row'[a].lead = row[a].lead /\ (Human(a)' => Human(a))
        /\ \A b \in Attempts \ {a} : row'[b] = row[b]
    BY <1>0, <1>2, FinishEffects DEF AmdMachineFinish, EndedOutcome, AmdEnds
  <2> QED BY <1>0, <1>2, <2>1, <2>2
          DEF AmdMachineFinish, AmdEnds, OthersThanAmd
<1>3. CASE AmdMachineLead(a)
  <2>1. /\ amd[a] = "machineLead" /\ amd'[a] = "hang"
        /\ \A b \in Attempts \ {a} : amd'[b] = amd[b]
    BY <1>0, <1>3, AmdEffects DEF AmdMachineLead, AmdForgets
  <2>2. metaA'[a] = "none" /\ metaC'[a] = "none"
        /\ \A b \in Attempts \ {a} : metaA'[b] = metaA[b] /\ metaC'[b] = metaC[b]
    BY <1>0, <1>3, ForgetEffects, ForgetChannelEffects
    DEF AmdMachineLead, AmdForgets
  <2>3. UNCHANGED row
    BY <1>0, <1>3 DEF AmdMachineLead, AmdForgets, AmdSetsLead, SetLeadState
  <2> QED BY <1>0, <1>3, <2>1, <2>2, <2>3
          DEF AmdMachineLead, AmdForgets, AmdSetsLead, SetLeadState,
              OthersThanAmd
<1>4. CASE AmdDeniedFinish(a)
  <2>1. /\ amd[a] = "deniedFinish" /\ amd'[a] = "deniedLead"
        /\ \A b \in Attempts \ {a} : amd'[b] = amd[b]
    BY <1>0, <1>4, AmdEffects DEF AmdDeniedFinish, AmdEnds
  <2>2. ~Open(a)' /\ row'[a].lead = row[a].lead /\ (Human(a)' => Human(a))
        /\ \A b \in Attempts \ {a} : row'[b] = row[b]
    BY <1>0, <1>4, FinishEffects DEF AmdDeniedFinish, EndedOutcome, AmdEnds
  <2> QED BY <1>0, <1>4, <2>1, <2>2
          DEF AmdDeniedFinish, AmdEnds, OthersThanAmd
<1>5. CASE AmdDeniedLead(a)
  <2>1. /\ amd[a] = "deniedLead" /\ amd'[a] = "hang"
        /\ \A b \in Attempts \ {a} : amd'[b] = amd[b]
    BY <1>0, <1>5, AmdEffects DEF AmdDeniedLead, AmdForgets
  <2>2. metaA'[a] = "none" /\ metaC'[a] = "none"
        /\ \A b \in Attempts \ {a} : metaA'[b] = metaA[b] /\ metaC'[b] = metaC[b]
    BY <1>0, <1>5, ForgetEffects, ForgetChannelEffects
    DEF AmdDeniedLead, AmdForgets
  <2>3. UNCHANGED row
    BY <1>0, <1>5 DEF AmdDeniedLead, AmdForgets, AmdSetsLead, SetLeadState
  <2> QED BY <1>0, <1>5, <2>1, <2>2, <2>3
          DEF AmdDeniedLead, AmdForgets, AmdSetsLead, SetLeadState,
              OthersThanAmd
<1>6. CASE AmdHang(a)
  <2>1. /\ amd[a] = "hang" /\ amd'[a] = "idle"
        /\ \A b \in Attempts \ {a} : amd'[b] = amd[b]
    BY <1>0, <1>6, AmdEffects DEF AmdHang
  <2>2. Drops(a)
    BY <1>0, <1>6, HangupEffects DEF AmdHang
  <2>3. amdMeta'[a] = FALSE
        /\ \A b \in Attempts \ {a} : amdMeta'[b] = amdMeta[b]
    BY <1>0, <1>6 DEF AmdHang, TypeOK, TaskTypes
  <2> QED BY <1>0, <1>6, <2>1, <2>2, <2>3
          DEF AmdHang, OthersThanAmd
<1>7. CASE AmdHumanLead(a)
  <2>1. /\ amd[a] = "humanLead" /\ amd'[a] = "attach"
        /\ \A b \in Attempts \ {a} : amd'[b] = amd[b]
    BY <1>0, <1>7, AmdEffects DEF AmdHumanLead
  <2> QED BY <1>0, <1>7, <2>1
          DEF AmdHumanLead, AmdSetsLead, SetLeadState, OthersThanAmd
<1>8. CASE AmdAttach(a)
  <2>1. /\ amd[a] = "attach" /\ amd'[a] = "vars"
        /\ \A b \in Attempts \ {a} : amd'[b] = amd[b]
    BY <1>0, <1>8, AmdEffects DEF AmdAttach
  <2>2. session'[a] = "new"
        /\ \A b \in Attempts \ {a} : session'[b] = session[b]
    BY <1>0, <1>8 DEF AmdAttach, TypeOK, MemoryTypes
  <2> QED BY <1>0, <1>8, <2>1, <2>2
          DEF AmdAttach, OthersThanAmd
<1>9. CASE AmdAttachFails(a)
  <2>1. /\ amd[a] = "attach" /\ amd'[a] = "idle"
        /\ \A b \in Attempts \ {a} : amd'[b] = amd[b]
    BY <1>0, <1>9, AmdEffects DEF AmdAttachFails
  <2>2. amdMeta'[a] = FALSE
        /\ \A b \in Attempts \ {a} : amdMeta'[b] = amdMeta[b]
    BY <1>0, <1>9 DEF AmdAttachFails, TypeOK, TaskTypes
  <2> QED BY <1>0, <1>9, <2>1, <2>2
          DEF AmdAttachFails, NoAriError, OthersThanAmd
<1>10. CASE AmdVars(a)
  <2>1. /\ amd[a] = "vars"
        /\ amd'[a] = IF Live(a) THEN "tailFull" ELSE "tailNew"
        /\ \A b \in Attempts \ {a} : amd'[b] = amd[b]
    BY <1>0, <1>10, AmdEffects DEF AmdVars
  <2>2. session'[a] = (IF Live(a) THEN "full" ELSE "new")
        /\ \A b \in Attempts \ {a} : session'[b] = session[b]
    BY <1>0, <1>10 DEF AmdVars, TypeOK, MemoryTypes
  <2> QED BY <1>0, <1>10, <2>1, <2>2
          DEF AmdVars, OthersThanAmd
<1>11. CASE AmdTail(a)
  <2>1. /\ \/ amd[a] = "tailNew" /\ session'[a] = "new"
           \/ amd[a] = "tailFull" /\ session'[a] = "full"
        /\ amd'[a] = "idle"
        /\ \A b \in Attempts \ {a} : amd'[b] = amd[b] /\ session'[b] = session[b]
    BY <1>0, <1>11, AmdEffects DEF AmdTail, TypeOK, MemoryTypes
  <2>2. amdMeta'[a] = FALSE
        /\ \A b \in Attempts \ {a} : amdMeta'[b] = amdMeta[b]
    BY <1>0, <1>11 DEF AmdTail, TypeOK, TaskTypes
  <2> QED BY <1>0, <1>11, <2>1, <2>2
          DEF AmdTail, OthersThanAmd
<1> QED BY <1>1, <1>2, <1>3, <1>4, <1>5, <1>6, <1>7, <1>8, <1>9, <1>10, <1>11

LEMMA DestroyedHandlerLife ==
  ASSUME LifeInv, NEW a \in Attempts,
         \/ DesFinish(a)
         \/ DesLead(a)
  PROVE  Step(a)
<1>0. TypeOK /\ Seated /\ Life(a) /\ Seat(a) /\ chan[a] \in ChanState
  BY DEF LifeInv, SlotInv, TypeOK, ChannelTypes
<1>1. CASE DesFinish(a)
  <2>1. /\ des[a] = "finish" /\ des'[a] = "lead"
        /\ \A b \in Attempts \ {a} : des'[b] = des[b]
    BY <1>0, <1>1, DesEffects DEF DesFinish
  <2>2. ~Open(a)' /\ row'[a].lead = row[a].lead /\ (Human(a)' => Human(a))
        /\ \A b \in Attempts \ {a} : row'[b] = row[b]
    BY <1>0, <1>1, FinishEffects DEF DesFinish, EndedOutcome
  <2> QED BY <1>0, <1>1, <2>1, <2>2
          DEF DesFinish, OthersThanDes
<1>2. CASE DesLead(a)
  <2>1. /\ des[a] = "lead" /\ des'[a] = "idle"
        /\ \A b \in Attempts \ {a} : des'[b] = des[b]
    BY <1>0, <1>2, DesEffects DEF DesLead
  <2>2. metaA'[a] = "none" /\ metaC'[a] = "none"
        /\ \A b \in Attempts \ {a} : metaA'[b] = metaA[b] /\ metaC'[b] = metaC[b]
    BY <1>0, <1>2, ForgetEffects, ForgetChannelEffects DEF DesLead
  <2>3. /\ UNCHANGED <<row, events, chan, session>>
        /\ events[a] = <<>> /\ chan[a] = "gone"
    BY <1>0, <1>2, <2>1 DEF DesLead, SetLeadState
  <2>4. \A x : ~Holds(events[a], x) /\ ~Holds(events'[a], x)
    BY <1>0, <1>2, <2>3, EmptyQueue
  <2>5. cln'[a] = IF session[a] # "none" /\ cln[a] = "idle"
                    THEN "hangup" ELSE cln[a]
    BY <1>0, <1>2 DEF DesLead, CleanupAfter, TypeOK, TaskTypes
  <2>6. \A b \in Attempts \ {a} : cln'[b] = cln[b]
    BY <1>0, <1>2 DEF DesLead, CleanupAfter, TypeOK, TaskTypes
  <2> QED BY <1>0, <1>2, <2>1, <2>2, <2>3, <2>4, <2>5, <2>6
          DEF DesLead, SetUpFirst, OrderlyTeardown, SetLeadState,
              OthersThanDes
<1> QED BY <1>1, <1>2

LEMMA CleanupLife ==
  ASSUME LifeInv, NEW a \in Attempts,
         \/ ClnHangup(a)
         \/ ClnHistory(a)
         \/ ClnHistoryLead(a)
         \/ ClnRemove(a)
  PROVE  Step(a)
<1>0. TypeOK /\ Seated /\ Life(a) /\ Seat(a) /\ chan[a] \in ChanState
  BY DEF LifeInv, SlotInv, TypeOK, ChannelTypes
<1>1. CASE ClnHangup(a)
  <2>1. /\ cln[a] = "hangup" /\ cln'[a] = "history"
        /\ \A b \in Attempts \ {a} : cln'[b] = cln[b]
    BY <1>0, <1>1, ClnEffects DEF ClnHangup
  <2>2. Drops(a)
    BY <1>0, <1>1, HangupEffects DEF ClnHangup
  <2> QED BY <1>0, <1>1, <2>1, <2>2
          DEF ClnHangup, OthersThanCln
<1>2. CASE ClnHistory(a)
  <2>1. \/ /\ cln'[a] = "historyLead" /\ Persists(a)
           /\ ~Open(a)' /\ row'[a].lead = row[a].lead
           /\ \A b \in Attempts \ {a} : row'[b] = row[b]
        \/ cln'[a] = "remove" /\ UNCHANGED row
    BY <1>0, <1>2, FinishEffects, ClnEffects DEF ClnHistory, EndedOutcome
  <2>2. cln[a] = "history" /\ \A b \in Attempts \ {a} : cln'[b] = cln[b]
    BY <1>0, <1>2, ClnEffects DEF ClnHistory
  <2> QED BY <1>0, <1>2, <2>1, <2>2
          DEF ClnHistory, Persists, OthersThanCln
<1>3. CASE ClnHistoryLead(a)
  <2>1. /\ cln[a] = "historyLead" /\ cln'[a] = "remove"
        /\ \A b \in Attempts \ {a} : cln'[b] = cln[b]
    BY <1>0, <1>3, ClnEffects DEF ClnHistoryLead
  <2>2. metaA'[a] = "none" /\ metaC'[a] = "none"
        /\ \A b \in Attempts \ {a} : metaA'[b] = metaA[b] /\ metaC'[b] = metaC[b]
    BY <1>0, <1>3, ForgetEffects, ForgetChannelEffects DEF ClnHistoryLead
  <2> QED BY <1>0, <1>3, <2>1, <2>2
          DEF ClnHistoryLead, SetLeadState, OthersThanCln
<1>4. CASE ClnRemove(a)
  <2>1. /\ cln[a] = "remove" /\ cln'[a] = "done"
        /\ \A b \in Attempts \ {a} : cln'[b] = cln[b]
    BY <1>0, <1>4, ClnEffects DEF ClnRemove
  <2>2. session'[a] = "none"
        /\ \A b \in Attempts \ {a} : session'[b] = session[b]
    BY <1>0, <1>4 DEF ClnRemove, TypeOK, MemoryTypes
  <2> QED BY <1>0, <1>4, <2>1, <2>2
          DEF ClnRemove, SetUpFirst, OrderlyTeardown, OthersThanCln
<1> QED BY <1>1, <1>2, <1>3, <1>4

LEMMA DispatcherLife ==
  ASSUME LifeInv, NEW a \in Attempts, Dispatcher(a)
  PROVE  Step(a)
<1>0. TypeOK /\ Seated /\ Life(a) /\ Seat(a) /\ chan[a] \in ChanState
  BY DEF LifeInv, SlotInv, TypeOK, ChannelTypes
<1>1. CASE DispatchAnswered(a)
  <2>1. Dispatch(a, "answered")
    BY <1>1 DEF DispatchAnswered
  <2>2. /\ Orderly(events'[a]) /\ Sent(a, "answered") /\ events[a] # <<>>
        /\ \A x : Sent(a, x)' => Sent(a, x)
        /\ ~Sent(a, "answered")' /\ ~Sent(a, "amd")'
        /\ UNCHANGED <<chan, up, crashes, schedVars>>
        /\ \A b \in Attempts \ {a} : events'[b] = events[b]
    BY <1>0, <2>1, DispatchEffects DEF Token
  <2>3. /\ ans'[a] \in {"lead", "add"}
        /\ \A b \in Attempts \ {a} : ans'[b] = ans[b]
    BY <1>0, <1>1 DEF DispatchAnswered, TypeOK, TaskTypes
  <2>4. /\ IF Held(a) THEN metaA'[a] = "chan" /\ metaC'[a] = "chan"
                      ELSE metaA'[a] = metaA[a] /\ metaC'[a] = metaC[a]
        /\ \A b \in Attempts \ {a} : metaA'[b] = metaA[b] /\ metaC'[b] = metaC[b]
    BY <1>0, <1>1 DEF DispatchAnswered, TypeOK, MemoryTypes, Tracked
  <2>5. UNCHANGED <<row, session, amd, des, cln, amdMeta>>
    BY <1>1 DEF DispatchAnswered
  <2> QED BY <1>0, <2>2, <2>3, <2>4, <2>5
<1>2. CASE DispatchAmd(a)
  <2>1. Dispatch(a, "amd")
    BY <1>2 DEF DispatchAmd
  <2>2. /\ Orderly(events'[a]) /\ Sent(a, "amd") /\ events[a] # <<>>
        /\ \A x : Sent(a, x)' => Sent(a, x)
        /\ ~Sent(a, "answered")' /\ ~Sent(a, "amd")'
        /\ UNCHANGED <<chan, up, crashes, schedVars>>
        /\ \A b \in Attempts \ {a} : events'[b] = events[b]
    BY <1>0, <2>1, DispatchEffects DEF Token
  <2>3. /\ amd'[a] = "gate"
        /\ \A b \in Attempts \ {a} : amd'[b] = amd[b]
    BY <1>0, <1>2 DEF DispatchAmd, TypeOK, TaskTypes
  <2>4. /\ Held(a) => amdMeta'[a]
        /\ \A b \in Attempts \ {a} : amdMeta'[b] = amdMeta[b]
    BY <1>0, <1>2 DEF DispatchAmd, TypeOK, TaskTypes, Tracked
  <2>5. UNCHANGED <<row, metaA, metaC, session, ans, des, cln>>
    BY <1>2 DEF DispatchAmd
  <2> QED BY <1>0, <2>2, <2>3, <2>4, <2>5
<1>3. CASE DispatchEnd(a)
  <2>1. Dispatch(a, "end")
    BY <1>3 DEF DispatchEnd
  <2>2. /\ Orderly(events'[a]) /\ events[a] # <<>>
        /\ \A x : Sent(a, x)' => Sent(a, x)
        /\ \A x : Sent(a, x) => x = "end" \/ Sent(a, x)'
        /\ UNCHANGED <<chan, up, crashes, schedVars>>
        /\ \A b \in Attempts \ {a} : events'[b] = events[b]
    BY <1>0, <2>1, DispatchEffects
  <2>3. /\ \/ cln'[a] = cln[a]
           \/ cln'[a] = "hangup" /\ session[a] # "none" /\ cln[a] = "idle"
        /\ \A b \in Attempts \ {a} : cln'[b] = cln[b]
    BY <1>0, <1>3 DEF DispatchEnd, CleanupAfter, TypeOK, TaskTypes
  <2>4. UNCHANGED <<row, metaA, metaC, session, ans, amd, des, amdMeta>>
    BY <1>3 DEF DispatchEnd
  <2> QED BY <1>0, <2>2, <2>3, <2>4
<1>4. CASE DispatchDestroyed(a)
  <2>1. Dispatch(a, "destroyed")
    BY <1>4 DEF DispatchDestroyed
  <2>2. /\ Orderly(events'[a]) /\ Sent(a, "destroyed") /\ events[a] # <<>>
        /\ events'[a] = <<>>
        /\ \A x : Sent(a, x)' => Sent(a, x)
        /\ \A x : Sent(a, x) => x = "destroyed" \/ Sent(a, x)'
        /\ UNCHANGED <<chan, up, crashes, schedVars>>
        /\ \A b \in Attempts \ {a} : events'[b] = events[b]
    BY <1>0, <2>1, DispatchEffects
  <2>3. /\ \/ /\ metaC[a] = "chan" /\ session[a] = "none"
              /\ des'[a] = "finish" /\ cln'[a] = cln[a] /\ metaC'[a] = metaC[a]
           \/ /\ des'[a] = des[a]
              /\ metaC'[a] \in {"none", metaC[a]}
              /\ \/ cln'[a] = cln[a]
                 \/ cln'[a] = "hangup" /\ session[a] # "none" /\ cln[a] = "idle"
        /\ \A b \in Attempts \ {a} :
             cln'[b] = cln[b] /\ des'[b] = des[b] /\ metaC'[b] = metaC[b]
    BY <1>0, <1>4
       DEF DispatchDestroyed, CleanupAfter, Forget, TypeOK, TaskTypes,
           MemoryTypes
  <2>4. UNCHANGED <<row, metaA, session, ans, amd, amdMeta>>
    BY <1>4 DEF DispatchDestroyed
  <2>5. cln[a] \in ClnState
    BY <1>0 DEF TypeOK, TaskTypes
  <2>6. Closing(a)' /\ Watched(a)' /\ Concluded(a)'
    BY <1>0, <2>2, <2>3, <2>4, <2>5 DEF ClnState
  <2> QED BY <1>0, <2>2, <2>3, <2>4, <2>6
<1> QED BY <1>1, <1>2, <1>3, <1>4 DEF Dispatcher

LEMMA ChannelLife ==
  ASSUME LifeInv, NEW a \in Attempts,
         Answer(a) \/ DialplanReturn(a) \/ RemoteHangup(a)
  PROVE  Step(a)
<1>0. TypeOK /\ Seated /\ Life(a) /\ Seat(a) /\ chan[a] \in ChanState
  BY DEF LifeInv, SlotInv, TypeOK, ChannelTypes
<1>1. UNCHANGED <<row, metaA, metaC, session, schedVars, tasks, up, crashes>>
  BY DEF Answer, DialplanReturn, RemoteHangup
<1>2. /\ ~Holds(<<>>, "answered") /\ ~Holds(<<>>, "amd")
      /\ ~Holds(<<>>, "destroyed")
  BY EmptyQueue
<1>3. CASE Answer(a)
  <2>1. /\ chan[a] = "ringing" /\ chan'[a] = "stasis"
        /\ \A b \in Attempts \ {a} : chan'[b] = chan[b]
    BY <1>0, <1>3 DEF Answer, TypeOK, ChannelTypes
  <2>2. /\ Orderly(events'[a])
        /\ \A x : Sent(a, x)' => Sent(a, x) \/ x = "answered"
        /\ NoEventLoss /\ up => Sent(a, "answered")'
        /\ \A b \in Attempts \ {a} : events'[b] = events[b]
    BY <1>0, <1>2, <1>3, <2>1, RaiseOne DEF Answer, Event, Token
  <2> QED BY <1>0, <1>1, <1>2, <2>1, <2>2
<1>4. CASE DialplanReturn(a)
  <2>1. /\ chan[a] = "dialplan" /\ chan'[a] = "stasis"
        /\ \A b \in Attempts \ {a} : chan'[b] = chan[b]
    BY <1>0, <1>4 DEF DialplanReturn, TypeOK, ChannelTypes
  <2>2. /\ Orderly(events'[a])
        /\ \A x : Sent(a, x)' => Sent(a, x) \/ x = "amd"
        /\ NoEventLoss /\ up => Sent(a, "amd")'
        /\ \A b \in Attempts \ {a} : events'[b] = events[b]
    BY <1>0, <1>4, <2>1, RaiseOne DEF DialplanReturn, Event, Token
  <2> QED BY <1>0, <1>1, <2>1, <2>2
<1>5. CASE RemoteHangup(a)
  <2>1. /\ Live(a) /\ chan'[a] = "gone" /\ Orderly(events'[a])
        /\ Sent(a, "answered")' => Sent(a, "answered")
        /\ Sent(a, "amd")' => Sent(a, "amd")
        /\ \A b \in Attempts \ {a} : chan'[b] = chan[b] /\ events'[b] = events[b]
    BY <1>0, <1>5, HangUpEffects DEF RemoteHangup
  <2> QED BY <1>0, <1>1, <2>1
<1> QED BY <1>3, <1>4, <1>5

----------------------------------------------------------------------------
(* The scheduler.                                                          *)

Calls == \A b \in Attempts : Life(b) /\ Seat(b)

LEMMA FactsOf ==
  ASSUME LifeInv
  PROVE  /\ TypeOK /\ FreshInv /\ Seated /\ Calls
         /\ sched \in Placing => metaA[cur] # "ghost"
         /\ \A b \in Attempts : chan[b] \in ChanState
BY DEF LifeInv, SlotInv, Calls, TypeOK, ChannelTypes

LEMMA NextStaleEffects ==
  ASSUME TypeOK, NEW S \in SUBSET Attempts, NextStale(S)
  PROVE  /\ todo' \subseteq S
         /\ \/ sched' = "list" /\ cur' = NoAttempt /\ todo' = {}
            \/ sched' = "dogHangup" /\ cur' \in S /\ session[cur'] = "none"
BY DEF NextStale, DogSpares

\* The watchdog.
LEMMA WatchdogLife ==
  ASSUME LifeInv,
         \/ \E S \in SUBSET Attempts : BeginScan(S)
         \/ DogHangup \/ DogFinish \/ DogLead
  PROVE  Seated' /\ Calls'
<1>0. /\ TypeOK /\ Seated /\ Calls
      /\ \A b \in Attempts : chan[b] \in ChanState
  BY FactsOf
<1>1. ASSUME NEW S \in SUBSET Attempts, BeginScan(S) PROVE Seated' /\ Calls'
  <2>1. /\ up /\ S \subseteq {b \in Tracked : MayBeStale(b)} /\ NextStale(S)
        /\ UNCHANGED <<storeVars, asterisk, memory, tasks, curLead, up, crashes>>
    BY <1>1 DEF BeginScan
  <2>2. /\ todo' \subseteq S
        /\ \/ sched' = "list" /\ cur' = NoAttempt /\ todo' = {}
           \/ sched' = "dogHangup" /\ cur' \in S /\ session[cur'] = "none"
    BY <1>0, <2>1, NextStaleEffects
  <2>3. ~Holds(<<>>, "answered") /\ ~Holds(<<>>, "amd")
    BY EmptyQueue
  <2>4. ASSUME NEW b \in S
        PROVE  /\ Held(b) /\ chan[b] # "ringing"
               /\ Patient => OffChain(b) /\ events[b] = <<>>
    BY <2>1, <2>3 DEF Tracked, MayBeStale, Quiet, Patient
  <2>5. ASSUME NEW b \in Attempts PROVE Life(b)' /\ Seat(b)'
    BY <1>0, <2>1, <2>2, <2>3, <2>4 DEF Calls
  <2> QED BY <1>0, <2>1, <2>2, <2>5 DEF Seated, Calls
<1>2. CASE DogHangup
  <2>1. sched = "dogHangup" /\ cur \in Attempts /\ todo \in SUBSET Attempts
        /\ UNCHANGED <<row, metaA, metaC, session, tasks, curLead, up, crashes>>
    BY <1>0, <1>2 DEF DogHangup, SchedAt, Seated, TypeOK, SchedTypes
  <2>2. CASE sched' = "dogFinish" /\ HangupChannel(cur) /\ UNCHANGED <<cur, todo>>
    <3>1. Phase(cur)
      BY <1>0, <2>1 DEF Calls
    <3>2. Drops(cur)
      BY <1>0, <2>1, <2>2, <3>1, HangupEffects
    <3>3. ASSUME NEW b \in Attempts PROVE Life(b)' /\ Seat(b)'
      BY <1>0, <2>1, <2>2, <3>2 DEF Calls
    <3> QED BY <1>0, <2>1, <2>2, <3>3 DEF Seated, Calls
  <2>3. CASE "ari_error" \in Faults /\ NextStale(todo) /\ UNCHANGED asterisk
    <3>1. /\ todo' \subseteq todo
          /\ \/ sched' = "list" /\ cur' = NoAttempt /\ todo' = {}
             \/ sched' = "dogHangup" /\ cur' \in todo /\ session[cur'] = "none"
      BY <1>0, <2>1, <2>3, NextStaleEffects
    <3>2. ASSUME NEW b \in Attempts PROVE Life(b)' /\ Seat(b)'
      BY <1>0, <2>1, <2>3, <3>1 DEF Calls, NoAriError
    <3> QED BY <1>0, <2>1, <3>1, <3>2 DEF Seated, Calls
  <2> QED BY <1>2, <2>2, <2>3 DEF DogHangup, SchedAt
<1>3. CASE DogFinish
  <2>1. sched = "dogFinish" /\ sched' = "dogLead" /\ cur \in Attempts
        /\ UNCHANGED <<asterisk, memory, tasks, cur, curLead, todo, up, crashes>>
    BY <1>0, <1>3 DEF DogFinish, SchedAt, Seated
  <2>2. /\ ~Open(cur)' /\ row'[cur].lead = row[cur].lead
        /\ Human(cur)' => Human(cur)
        /\ \A b \in Attempts \ {cur} : row'[b] = row[b]
    BY <1>0, <1>3, <2>1, FinishEffects DEF DogFinish, EndedOutcome
  <2>3. ASSUME NEW b \in Attempts PROVE Life(b)' /\ Seat(b)'
    BY <1>0, <2>1, <2>2 DEF Calls
  <2> QED BY <1>0, <2>1, <2>3 DEF Seated, Calls
<1>4. CASE DogLead
  <2>1. sched = "dogLead" /\ cur \in Attempts /\ todo \in SUBSET Attempts
        /\ UNCHANGED <<row, asterisk, session, tasks, curLead, up, crashes>>
    BY <1>0, <1>4 DEF DogLead, SetLeadState, Seated, TypeOK, SchedTypes
  <2>2. metaA'[cur] = "none" /\ metaC'[cur] = "none"
        /\ \A b \in Attempts \ {cur} : metaA'[b] = metaA[b] /\ metaC'[b] = metaC[b]
    BY <1>0, <1>4, <2>1, ForgetEffects, ForgetChannelEffects DEF DogLead
  <2>3. /\ todo' \subseteq todo
        /\ \/ sched' = "list" /\ cur' = NoAttempt /\ todo' = {}
           \/ sched' = "dogHangup" /\ cur' \in todo /\ session[cur'] = "none"
    BY <1>0, <1>4, <2>1, NextStaleEffects DEF DogLead
  <2>4. ASSUME NEW b \in Attempts PROVE Life(b)' /\ Seat(b)'
    <3>1. CASE b = cur
      BY <1>0, <2>1, <2>2, <2>3, <3>1 DEF Calls
    <3>2. CASE b # cur
      BY <1>0, <2>1, <2>2, <2>3, <3>2 DEF Calls
    <3> QED BY <3>1, <3>2
  <2> QED BY <1>0, <2>1, <2>3, <2>4 DEF Seated, Calls
<1> QED BY <1>1, <1>2, <1>3, <1>4

\* The rest of the tick, up to the dialing.
LEMMA LeasingLife ==
  ASSUME LifeInv,
         \/ SchedList \/ SchedNoLead \/ SchedStats \/ SchedComplete
         \/ \E l \in Leads : SchedLease(l)
  PROVE  Seated' /\ Calls'
<1>0. TypeOK /\ Seated /\ Calls
  BY FactsOf
<1>1. /\ sched \in {"list", "lease", "stats", "complete"}
      /\ sched' \in {"idle", "lease", "stats", "complete", "create"}
      /\ UNCHANGED <<row, asterisk, memory, tasks, cur, todo, up, crashes>>
  BY DEF SchedList, SchedNoLead, SchedStats, SchedComplete, SchedLease,
     SchedAt,
         LeaseLead, SetCampaignStatus
<1>2. todo = {}
  BY <1>0, <1>1 DEF Seated
<1>3. ASSUME NEW b \in Attempts PROVE Life(b)' /\ Seat(b)'
  BY <1>0, <1>1, <1>2 DEF Calls
<1> QED BY <1>0, <1>1, <1>2, <1>3 DEF Seated, Calls

LEMMA DialingLife ==
  ASSUME LifeInv,
         \/ SchedMark \/ SchedMarkFail \/ SchedOriginate \/ SchedBind
         \/ SchedOrigFail \/ SchedOrigLead
         \/ \E a \in Attempts : SchedCreate(a)
  PROVE  Seated' /\ Calls'
<1>0. /\ TypeOK /\ FreshInv /\ Seated /\ Calls
      /\ sched \in Placing => metaA[cur] # "ghost"
  BY FactsOf
<1>1. /\ ~Holds(<<>>, "answered") /\ ~Holds(<<>>, "amd")
      /\ ~Holds(<<>>, "destroyed")
  BY EmptyQueue
<1>2. ASSUME NEW a \in Attempts, SchedCreate(a) PROVE Seated' /\ Calls'
  <2>1. /\ sched = "create" /\ sched' = "mark" /\ cur' = a /\ Fresh(a)
        /\ UNCHANGED <<asterisk, metaC, session, tasks, curLead, todo, up, crashes>>
    BY <1>2 DEF SchedCreate, SchedAt, CreateAttempt
  <2>2. /\ row'[a].lead = curLead /\ row'[a].outcome = "open"
        /\ \A b \in Attempts \ {a} : row'[b] = row[b]
    BY <1>0, <1>2 DEF SchedCreate, CreateAttempt, TypeOK, StoreTypeOK
  <2>3. metaA'[a] = "nochan" /\ \A b \in Attempts \ {a} : metaA'[b] = metaA[b]
    BY <1>0, <1>2 DEF SchedCreate, TypeOK, MemoryTypes
  <2>4. chan[a] = "none" /\ todo = {} /\ up
    BY <1>0, <2>1 DEF FreshInv, Seated
  <2>5. ASSUME NEW b \in Attempts PROVE Life(b)' /\ Seat(b)'
    <3>1. CASE b = a
      BY <1>0, <1>1, <2>1, <2>2, <2>3, <2>4, <3>1 DEF Calls
    <3>2. CASE b # a
      BY <1>0, <2>1, <2>2, <2>3, <2>4, <3>2 DEF Calls
    <3> QED BY <3>1, <3>2
  <2> QED BY <1>0, <2>1, <2>4, <2>5 DEF Seated, Calls
<1>3. CASE SchedMark
  <2>1. /\ sched = "mark" /\ sched' \in {"originate", "markFail"}
        /\ UNCHANGED <<row, asterisk, memory, tasks, cur, curLead, todo, up, crashes>>
    BY <1>3 DEF SchedMark, SchedAt, MarkLeadDialing
  <2>2. ASSUME NEW b \in Attempts PROVE Life(b)' /\ Seat(b)'
    BY <1>0, <2>1 DEF Calls, Seated
  <2> QED BY <1>0, <2>1, <2>2 DEF Seated, Calls
<1>4. CASE SchedMarkFail
  <2>1. /\ sched = "markFail" /\ sched' = "idle" /\ cur \in Attempts
        /\ UNCHANGED <<asterisk, metaC, session, tasks, todo, up, crashes>>
    BY <1>0, <1>4 DEF SchedMarkFail, SchedDone, SchedAt, Seated
  <2>2. /\ row'[cur].lead = row[cur].lead /\ row'[cur].outcome # "open"
        /\ row'[cur].outcome = "answered_human" => Human(cur)
        /\ \A b \in Attempts \ {cur} : row'[b] = row[b]
    BY <1>0, <1>4, <2>1, FinishEffects DEF SchedMarkFail, EndedOutcome
  <2>3. metaA'[cur] = "none"
        /\ \A b \in Attempts \ {cur} : metaA'[b] = metaA[b]
    BY <1>0, <1>4, <2>1, ForgetEffects DEF SchedMarkFail
  <2>4. ASSUME NEW b \in Attempts PROVE Life(b)' /\ Seat(b)'
    BY <1>0, <1>1, <2>1, <2>2, <2>3 DEF Calls, Seated
  <2> QED BY <1>0, <2>1, <2>4 DEF Seated, Calls
<1>5. CASE SchedOriginate
  <2>1. /\ sched = "originate" /\ cur \in Attempts
        /\ UNCHANGED <<row, events, memory, tasks, cur, curLead, todo, up, crashes>>
    BY <1>0, <1>5 DEF SchedOriginate, SchedAt, Seated
  <2>2. /\ sched' \in {"bind", "origFail"}
        /\ chan'[cur] = chan[cur] \/ chan'[cur] = "ringing"
        /\ sched' = "origFail" /\ NoLostCall => chan'[cur] = chan[cur]
        /\ \A b \in Attempts \ {cur} : chan'[b] = chan[b]
    BY <1>0, <1>5, <2>1
       DEF SchedOriginate, SchedAt, TypeOK, ChannelTypes, NoLostCall
  <2>3. chan[cur] = "none" /\ Held(cur) /\ Untouched(cur)
    BY <1>0, <2>1 DEF Calls
  <2>4. ASSUME NEW b \in Attempts PROVE Life(b)' /\ Seat(b)'
    <3>1. CASE b = cur
      BY <1>0, <1>1, <2>1, <2>2, <2>3, <3>1 DEF Calls, Seated
    <3>2. CASE b # cur
      BY <1>0, <2>1, <2>2, <3>2 DEF Calls, Seated
    <3> QED BY <3>1, <3>2
  <2> QED BY <1>0, <2>1, <2>2, <2>4 DEF Seated, Calls
<1>6. CASE SchedBind
  <2>1. /\ sched = "bind" /\ sched' = "idle" /\ cur \in Attempts
        /\ metaA[cur] # "ghost"
        /\ UNCHANGED <<row, asterisk, session, tasks, todo, up, crashes>>
    BY <1>0, <1>6 DEF SchedBind, SchedDone, SchedAt, Seated, Placing
  <2>2. /\ \/ Held(cur) /\ metaA'[cur] = "chan"
           \/ ~Held(cur) /\ metaA'[cur] = "ghost" /\ metaC'[cur] = "ghost"
        /\ \A b \in Attempts \ {cur} : metaA'[b] = metaA[b] /\ metaC'[b] = metaC[b]
    BY <1>0, <1>6, <2>1 DEF SchedBind, Bound, TypeOK, MemoryTypes, MetaState
  <2>3. ASSUME NEW b \in Attempts PROVE Life(b)' /\ Seat(b)'
    BY <1>0, <2>1, <2>2 DEF Calls, Seated
  <2> QED BY <1>0, <2>1, <2>3 DEF Seated, Calls
<1>7. CASE SchedOrigFail
  <2>1. /\ sched = "origFail" /\ sched' = "origLead" /\ cur \in Attempts
        /\ UNCHANGED <<asterisk, memory, tasks, cur, curLead, todo, up, crashes>>
    BY <1>0, <1>7 DEF SchedOrigFail, SchedAt, Seated
  <2>2. /\ ~Open(cur)' /\ row'[cur].lead = row[cur].lead
        /\ Human(cur)' => Human(cur)
        /\ \A b \in Attempts \ {cur} : row'[b] = row[b]
    BY <1>0, <1>7, <2>1, FinishEffects DEF SchedOrigFail, EndedOutcome
  <2>3. ASSUME NEW b \in Attempts PROVE Life(b)' /\ Seat(b)'
    BY <1>0, <2>1, <2>2 DEF Calls, Seated
  <2> QED BY <1>0, <2>1, <2>3 DEF Seated, Calls
<1>8. CASE SchedOrigLead
  <2>1. /\ sched = "origLead" /\ sched' = "idle" /\ cur \in Attempts
        /\ UNCHANGED <<row, asterisk, metaC, session, tasks, todo, up, crashes>>
    BY <1>0, <1>8 DEF SchedOrigLead, SchedDone, SchedAt, SetLeadState, Seated
  <2>2. metaA'[cur] = "none"
        /\ \A b \in Attempts \ {cur} : metaA'[b] = metaA[b]
    BY <1>0, <1>8, <2>1, ForgetEffects DEF SchedOrigLead
  <2>3. ASSUME NEW b \in Attempts PROVE Life(b)' /\ Seat(b)'
    BY <1>0, <1>1, <2>1, <2>2 DEF Calls, Seated
  <2> QED BY <1>0, <2>1, <2>3 DEF Seated, Calls
<1> QED BY <1>2, <1>3, <1>4, <1>5, <1>6, <1>7, <1>8

----------------------------------------------------------------------------
(* The operator, crashes, and every step together.                         *)

LEMMA OperatorRows ==
  ASSUME TypeOK, Operator
  PROVE  \A b \in Attempts :
           /\ row'[b].lead = row[b].lead
           /\ row'[b].outcome \in {row[b].outcome, "purged"}
<1>1. \/ UNCHANGED row
      \/ \E l \in Leads : row' = Purged(l)
  BY DEF Operator, StartCampaign, PauseCampaign, StopCampaign,
     ArchiveCampaign,
         ImportLead, CancelLead, IgnoreLead, RedialLead, ResetLead,
         DeleteLead,
         SetCampaignStatus
<1> QED BY <1>1 DEF Purged, TypeOK, StoreTypeOK, Row

LEMMA EngineLife ==
  ASSUME LifeInv, Operator \/ Crash \/ Restart \/ UNCHANGED vars
  PROVE  Seated' /\ Calls'
<1>0. /\ TypeOK /\ Seated /\ Calls
      /\ \A b \in Attempts : chan[b] \in ChanState
  BY FactsOf
<1>1. CASE Operator
  <2>1. \A b \in Attempts :
          /\ row'[b].lead = row[b].lead
          /\ row'[b].outcome \in {row[b].outcome, "purged"}
    BY <1>0, <1>1, OperatorRows
  <2>2. UNCHANGED <<asterisk, memory, schedVars, tasks, up, crashes>>
    BY <1>1 DEF Operator
  <2>3. ASSUME NEW b \in Attempts PROVE Life(b)' /\ Seat(b)'
    BY <1>0, <2>1, <2>2 DEF Calls
  <2> QED BY <1>0, <2>2, <2>3 DEF Seated, Calls
<1>2. CASE Crash
  <2>1. crashes' # 0
    BY <1>0, <1>2 DEF Crash, TypeOK, MemoryTypes
  <2>2. /\ ~up' /\ sched' = "idle" /\ todo' = {} /\ UNCHANGED <<row, chan>>
        /\ \A b \in Attempts :
             /\ events'[b] = <<>> /\ metaA'[b] = "none" /\ metaC'[b] = "none"
             /\ session'[b] = "none" /\ ans'[b] = "idle" /\ amd'[b] = "idle"
             /\ des'[b] = "idle" /\ cln'[b] = "idle"
    BY <1>2 DEF Crash
  <2>3. Orderly(<<>>) /\ ~Holds(<<>>, "answered") /\ ~Holds(<<>>, "amd")
        /\ ~Holds(<<>>, "destroyed")
    BY EmptyQueue
  <2>4. ASSUME NEW b \in Attempts PROVE Life(b)' /\ Seat(b)'
    BY <1>0, <2>1, <2>2, <2>3 DEF Calls
  <2> QED BY <2>1, <2>2, <2>4 DEF Seated, Calls
<1>3. CASE Restart
  <2>1. \A b \in Attempts :
          /\ row'[b].lead = row[b].lead
          /\ row'[b].outcome \in {row[b].outcome, "stale"}
    BY <1>0, <1>3 DEF Restart, CleanupStale, TypeOK, StoreTypeOK, Row
  <2>2. ~up /\ up' /\ crashes # 0
        /\ UNCHANGED <<asterisk, memory, schedVars, tasks, crashes>>
    BY <1>0, <1>3 DEF Restart, Seated
  <2>3. ASSUME NEW b \in Attempts PROVE Life(b)' /\ Seat(b)'
    BY <1>0, <2>1, <2>2 DEF Calls, Seated
  <2> QED BY <1>0, <2>2, <2>3 DEF Seated, Calls
<1>4. CASE UNCHANGED vars
  BY <1>0, <1>4 DEF Seated, Calls
<1> QED BY <1>1, <1>2, <1>3, <1>4

LEMMA InitLife == Init => LifeInv
<1> SUFFICES ASSUME Init PROVE LifeInv
  OBVIOUS
<1>1. Orderly(<<>>) /\ ~Holds(<<>>, "answered") /\ ~Holds(<<>>, "amd")
      /\ ~Holds(<<>>, "destroyed")
  BY EmptyQueue
<1>2. Seated
  BY DEF Init, Seated
<1>3. ASSUME NEW a \in Attempts PROVE Life(a) /\ Seat(a)
  BY <1>1 DEF Init, StoreInit, NoRow
<1> QED BY <1>2, <1>3, InitSlots DEF LifeInv

LEMMA NextLife == LifeInv /\ [Next]_vars => LifeInv'
<1> SUFFICES ASSUME LifeInv, [Next]_vars PROVE LifeInv'
  OBVIOUS
<1>0. SlotInv' /\ TypeOK /\ Seated /\ Calls
  BY NextSlots, FactsOf DEF LifeInv
<1>1. CASE Scheduler
  <2>1. Seated' /\ Calls'
    BY <1>1, WatchdogLife, LeasingLife, DialingLife DEF Scheduler
  <2> QED BY <1>0, <2>1 DEF LifeInv, Calls
<1>2. CASE Operator \/ Crash \/ Restart \/ UNCHANGED vars
  BY <1>0, <1>2, EngineLife DEF LifeInv, Calls
<1>3. ASSUME NEW a \in Attempts,
             \/ Answer(a) \/ DialplanReturn(a) \/ RemoteHangup(a)
             \/ Dispatcher(a) \/ Handler(a)
      PROVE  LifeInv'
  <2>1. Step(a)
    BY <1>3, ChannelLife, DispatcherLife, AnswerHandlerLife, AmdHandlerLife,
       DestroyedHandlerLife, CleanupLife DEF Handler
  <2>2. \A b \in Attempts \ {a} : Life(b)' /\ Seat(b)'
    BY <1>0, <2>1, SameLife, SameSeat DEF Calls, Step
  <2> QED BY <1>0, <2>1, <2>2 DEF LifeInv, Seated, Step
<1> QED BY <1>1, <1>2, <1>3 DEF Next

----------------------------------------------------------------------------
(* What the life of a call gives the properties.                           *)

\* Without a crash every attempt whose row is open has somebody left who will
\* close it, whatever the faults and however long things take: an open attempt
\* is tracked, and whoever drops its meta has closed it first.
THEOREM NoOrphans == Spec => [](crashes = 0 => NoOrphanAttempt)
<1>1. LifeInv => (crashes = 0 => NoOrphanAttempt)
  BY DEF LifeInv, NoOrphanAttempt, WillSettle, Tracked
<1> QED BY <1>1, InitLife, NextLife, PTL DEF Spec

\* The lines in use never exceed max_concurrent, as long as the engine does not
\* crash, no hangup fails and no originate answers too late to be heard: a
\* channel that is up is tracked or its hangup is about to be sent.
THEOREM LinesKept ==
  NoAriError /\ NoLostCall => (Spec => [](crashes = 0 => LinesRespected))
<1> SUFFICES ASSUME NoAriError, NoLostCall
             PROVE  Spec => [](crashes = 0 => LinesRespected)
  OBVIOUS
<1>1. ASSUME LifeInv, crashes = 0 PROVE LinesRespected
  <2>1. {a \in Attempts : OnTheLine(a)} \subseteq Tracked
    BY <1>1 DEF LifeInv, OnTheLine, BeingHungUp, Tracked
  <2>2. Cardinality({a \in Attempts : OnTheLine(a)}) <= Cardinality(Tracked)
    BY <2>1, TrackedFinite, FS_Subset
  <2>3. /\ Cardinality({a \in Attempts : OnTheLine(a)}) \in Nat
        /\ Cardinality(Tracked) \in Nat /\ MaxConcurrent \in Nat
        /\ Cardinality(Tracked) <= MaxConcurrent
    BY <1>1, <2>1, TrackedFinite, FS_Subset, FS_CardinalityType,
       DialerAssumption
       DEF LifeInv, SlotInv, CapacityRespected
  <2> QED BY <2>2, <2>3 DEF LinesRespected
<1> QED BY <1>1, InitLife, NextLife, PTL DEF Spec

LEMMA FinishKeeps ==
  ASSUME TypeOK, NEW a \in Attempts, NEW o \in EndedOutcome, FinishAttempt(a, o),
         ~Human(a) \/ o = "answered_human"
  PROVE  \A b \in Attempts : KeepsConversation(b)
BY DEF FinishAttempt, Finished, KeepsConversation, TypeOK, StoreTypeOK, Row,
   Human

\* The tasks of a call that finish its attempt never find it a conversation.
LEMMA TasksKeepConversation ==
  ASSUME LifeInv, NoLostCall, NEW a \in Attempts, Handler(a)
  PROVE  \A b \in Attempts : KeepsConversation(b)
<1>0. TypeOK /\ Life(a)
  BY DEF LifeInv, SlotInv
<1>1. CASE UNCHANGED row
  BY <1>1 DEF KeepsConversation
<1>2. CASE AnsFailFinish(a)
  BY <1>0, <1>2, FinishKeeps DEF AnsFailFinish, AnsAt, EndedOutcome
<1>3. CASE AmdMachineFinish(a)
  BY <1>0, <1>3, FinishKeeps
  DEF AmdMachineFinish, AmdEnds, AmdAt, EndedOutcome
<1>4. CASE AmdDeniedFinish(a)
  BY <1>0, <1>4, FinishKeeps DEF AmdDeniedFinish, AmdEnds, AmdAt, EndedOutcome
<1>5. CASE DesFinish(a)
  BY <1>0, <1>5, FinishKeeps DEF DesFinish, DesAt, EndedOutcome
<1>6. CASE ClnHistory(a)
  BY <1>0, <1>1, <1>6, FinishKeeps DEF ClnHistory, EndedOutcome
<1> QED BY <1>1, <1>2, <1>3, <1>4, <1>5, <1>6
        DEF Handler, AnsLead, AnsAdd, AnsContinue, AnsContinueFails,
            AnsFailLead,
            AnsHang, AmdGate, AmdMachineLead, AmdDeniedLead, AmdForgets,
            AmdSetsLead, AmdHang, AmdHumanLead, AmdAttach, AmdAttachFails,
            AmdVars, AmdTail, DesLead, ClnHangup, ClnHistoryLead, ClnRemove,
            SetLeadState

\* Neither does the scheduler when it dials.
LEMMA SchedulerKeepsConversation ==
  ASSUME LifeInv, NoLostCall, Scheduler, sched # "dogFinish"
  PROVE  \A b \in Attempts : KeepsConversation(b)
<1>0. /\ TypeOK /\ FreshInv /\ Seated /\ Calls
  BY FactsOf
<1>1. CASE UNCHANGED row
  BY <1>1 DEF KeepsConversation
<1>2. CASE SchedMarkFail \/ SchedOrigFail
  <2>1. cur \in Attempts /\ sched \in {"markFail", "origFail"}
    BY <1>0, <1>2 DEF SchedMarkFail, SchedOrigFail, SchedDone, SchedAt, Seated
  <2>2. ~Human(cur)
    BY <1>0, <2>1 DEF Calls
  <2> QED BY <1>0, <1>2, <2>1, <2>2, FinishKeeps
          DEF SchedMarkFail, SchedOrigFail, EndedOutcome
<1>3. ASSUME NEW a \in Attempts, SchedCreate(a)
      PROVE  \A b \in Attempts : KeepsConversation(b)
  BY <1>0, <1>3 DEF SchedCreate, CreateAttempt, Fresh, KeepsConversation,
                    TypeOK, StoreTypeOK
<1> QED BY <1>1, <1>2, <1>3
        DEF Scheduler, BeginScan, DogHangup, DogFinish, DogLead, SchedList,
            SchedNoLead, SchedStats, SchedComplete, SchedMark, SchedOriginate,
            SchedBind, SchedOrigLead, SchedLease, SetLeadState, LeaseLead,
            SetCampaignStatus, MarkLeadDialing, SchedAt

\* Of all that writes outcomes only the watchdog, on its old copy of the meta
\* map, ever writes over a conversation, if every originate that dials is heard
\* to succeed: whatever else the faults, the crashes and the durations.
THEOREM ConversationsKept == NoLostCall => (Spec => OnlyDogRewrites)
<1> SUFFICES ASSUME NoLostCall PROVE Spec => OnlyDogRewrites
  OBVIOUS
<1> DEFINE OnlyDog == \A a \in Attempts :
                     KeepsConversation(a) \/ (sched = "dogFinish" /\ cur = a)
<1>1. LifeInv /\ [Next]_vars => OnlyDog
  <2> SUFFICES ASSUME LifeInv, [Next]_vars PROVE OnlyDog
    OBVIOUS
  <2>0. TypeOK
    BY FactsOf
  <2>1. CASE UNCHANGED row
    BY <2>1 DEF KeepsConversation
  <2>2. CASE Scheduler /\ sched # "dogFinish"
    BY <2>2, SchedulerKeepsConversation
  <2>3. CASE Scheduler /\ sched = "dogFinish"
    <3>1. DogFinish /\ cur \in Attempts
      BY <2>0, <2>3, FactsOf
         DEF Scheduler, BeginScan, DogHangup, DogLead, SchedList, SchedNoLead,
             SchedStats, SchedComplete, SchedMark, SchedMarkFail,
             SchedOriginate,
             SchedBind, SchedOrigFail, SchedOrigLead, SchedCreate, SchedLease,
             SchedDone, SchedAt, Seated
    <3>2. \A b \in Attempts \ {cur} : row'[b] = row[b]
      BY <2>0, <3>1, FinishEffects DEF DogFinish, EndedOutcome
    <3> QED BY <2>3, <3>2 DEF KeepsConversation
  <2>4. ASSUME NEW a \in Attempts, Handler(a) PROVE OnlyDog
    BY <2>4, TasksKeepConversation
  <2>5. CASE Operator
    BY <2>0, <2>5, OperatorRows DEF KeepsConversation
  <2>6. CASE Restart
    BY <2>0, <2>6
    DEF Restart, CleanupStale, KeepsConversation, TypeOK, StoreTypeOK, Row
  <2> QED BY <2>1, <2>2, <2>3, <2>4, <2>5, <2>6
          DEF Next, Answer, DialplanReturn, RemoteHangup, Dispatcher,
              DispatchAnswered, DispatchAmd, DispatchEnd, DispatchDestroyed,
              Crash
<1> QED BY <1>1, InitLife, NextLife, PTL DEF Spec, OnlyDogRewrites

\* The watchdog hangs up only calls that were never answered, if its threshold
\* outlasts the ringing, the AMD dialplan and the handlers, and no event is lost
\* and no request fails: a call that it finds stale and without a session has
\* left Stasis, or never got there.
THEOREM OnlyUnreachedHungUp ==
  Patient /\ NoAriError /\ NoEventLoss => (Spec => UnreachedOnly)
<1> SUFFICES ASSUME Patient, NoAriError, NoEventLoss PROVE Spec => UnreachedOnly
  OBVIOUS
<1>1. LifeInv /\ [Next]_vars =>
        (sched = "dogHangup" /\ sched' = "dogFinish" =>
           chan[cur] \notin {"stasis", "dialplan"})
  BY FactsOf DEF Seated, Calls
<1> QED BY <1>1, InitLife, NextLife, PTL DEF Spec, UnreachedOnly

----------------------------------------------------------------------------
(* The leads.                                                              *)

\* The watchdog is patient, a call is set up before it is torn down, and no
\* originate dials without being heard to.
Timely == Patient /\ OrderlyTeardown /\ NoLostCall

\* The operator adds no work: nothing is imported or recycled.
NoNewWork == OperatorOps \cap {"import", "redial", "reset"} = {}

Marking(a) == sched \in {"mark", "markFail"} /\ cur = a

\* A lead that is being called has a tracked attempt, not counting the one that
\* is only about to be dialed.
DialedInv ==
  Timely /\ crashes = 0 =>
    \A l \in LeadIn(Dialed) : \E a \in Tracked : row[a].lead = l /\ ~Marking(a)

\* What the completion check has seen still holds when the status is written.
DoneInv ==
  Timely /\ crashes = 0 /\ NoNewWork =>
    /\ (sched = "lease" /\ idleSeen) \/ sched \in {"stats", "complete"} =>
         Tracked = {} /\ Active = {}
    /\ sched = "complete" => LeadIn(Runnable) = {}

LeadInv == LifeInv /\ DialedInv /\ DoneInv

\* No lead starts to be called, none becomes runnable, and a tracked attempt is
\* dropped only when its lead is not being called any more.
Settles ==
  \A l \in Leads :
    /\ lead'[l] \in Dialed =>
         /\ lead[l] \in Dialed
         /\ \A b \in Tracked : row[b].lead = l => b \in Tracked'
    /\ NoNewWork /\ lead'[l] \in Runnable => lead[l] \in Runnable

\* The lead of a tracked attempt, and no other, moves on.
Advances(a) ==
  /\ a \in Tracked /\ ~Marking(a)
  /\ \A l \in Leads : lead'[l] # lead[l] => l = row[a].lead
  /\ UNCHANGED metaA

\* A session becomes one of the active calls only while its call is tracked.
Activates ==
  \A b \in Attempts : session'[b] = "full" => session[b] = "full" \/ Held(b)

LEMMA SettleEffects ==
  ASSUME TypeOK, NEW l, NEW s \in FinishedLead, SetLeadState(l, s)
  PROVE  \A k \in Leads :
           /\ lead'[k] \in Dialed => lead[k] \in Dialed /\ k # l
           /\ lead'[k] \in Runnable => lead[k] \in Runnable
BY DEF TypeOK, StoreTypeOK, SetLeadState, LeadSetTo, Exists, FinishedLead,
       Dialed, Runnable, ActiveLead

LEMMA AdvanceEffects ==
  ASSUME TypeOK, NEW l, NEW s, SetLeadState(l, s)
  PROVE  \A k \in Leads : lead'[k] # lead[k] => k = l
BY DEF TypeOK, StoreTypeOK, SetLeadState, LeadSetTo

LEMMA HeldTracked ==
  \A b \in Attempts :
    (Held(b) <=> b \in Tracked) /\ (Held(b)' <=> b \in Tracked')
BY DEF Tracked

\* A step that is not the scheduler's keeps both invariants.
LEMMA KeepsLeads ==
  ASSUME LifeInv, DialedInv, DoneInv, RowsKept, MetasKept, UNCHANGED schedVars,
         UNCHANGED crashes,
         Timely /\ crashes = 0 =>
           Activates /\ (Settles \/ \E a \in Attempts : Advances(a))
  PROVE  DialedInv' /\ DoneInv'
<1> SUFFICES ASSUME Timely, crashes = 0 PROVE DialedInv' /\ DoneInv'
  BY DEF DialedInv, DoneInv
<1>1. CASE Settles
  <2>1. ASSUME NEW l \in LeadIn(Dialed)'
        PROVE  \E b \in Tracked' : row'[b].lead = l /\ ~Marking(b)'
    <3>1. l \in LeadIn(Dialed)
          /\ \A b \in Tracked : row[b].lead = l => b \in Tracked'
      BY <1>1, <2>1 DEF Settles, LeadIn
    <3>2. PICK b \in Tracked : row[b].lead = l /\ ~Marking(b)
      BY <3>1 DEF DialedInv
    <3> QED BY <3>1, <3>2 DEF RowsKept, Tracked, Marking
  <2>2. Tracked' \subseteq Tracked
    BY TrackedShrinks
  <2>3. Tracked = {} => Active' \subseteq Active
    BY HeldTracked DEF Activates, Active
  <2>4. NoNewWork => LeadIn(Runnable)' \subseteq LeadIn(Runnable)
    BY <1>1 DEF Settles, LeadIn
  <2> QED BY <2>1, <2>2, <2>3, <2>4 DEF DialedInv, DoneInv
<1>2. ASSUME NEW a \in Attempts, Advances(a) PROVE DialedInv' /\ DoneInv'
  <2>1. /\ a \in Tracked' /\ ~Marking(a)' /\ Tracked' = Tracked
        /\ row'[a].lead = row[a].lead
    BY <1>2 DEF Advances, Marking, RowsKept, Tracked
  <2>2. ASSUME NEW l \in LeadIn(Dialed)'
        PROVE  \E b \in Tracked' : row'[b].lead = l /\ ~Marking(b)'
    <3>1. CASE l = row[a].lead
      BY <2>1, <3>1
    <3>2. CASE l # row[a].lead
      <4>1. l \in LeadIn(Dialed)
        BY <1>2, <2>2, <3>2 DEF Advances, LeadIn
      <4>2. PICK b \in Tracked : row[b].lead = l /\ ~Marking(b)
        BY <4>1 DEF DialedInv
      <4> QED BY <2>1, <4>2 DEF RowsKept, Tracked, Marking
    <3> QED BY <3>1, <3>2
  <2>3. DoneInv'
    BY <1>2, <2>1 DEF Advances, DoneInv
  <2> QED BY <2>2, <2>3 DEF DialedInv
<1> QED BY <1>1, <1>2

LEMMA TasksKeepLeads ==
  ASSUME LifeInv, NEW a \in Attempts, Handler(a), Timely, crashes = 0
  PROVE  Activates /\ (Settles \/ Advances(a))
<1>0. /\ TypeOK /\ Seated /\ Life(a) /\ Seat(a)
      /\ \A b \in Attempts :
           (Held(b) <=> b \in Tracked) /\ (Held(b)' <=> b \in Tracked')
  BY HeldTracked DEF LifeInv, SlotInv
<1>1. CASE AnsLead(a)
  <2>1. ans[a] = "lead" /\ UNCHANGED <<metaA, session>>
    BY <1>1 DEF AnsLead, AnsAt
  <2>2. Held(a) /\ ~Marking(a)
    BY <1>0, <2>1 DEF Timely, Marking
  <2> QED BY <1>0, <1>1, <2>1, <2>2, AdvanceEffects
          DEF AnsLead, Advances, Activates
<1>2. CASE AmdHumanLead(a)
  <2>1. amd[a] = "humanLead" /\ UNCHANGED <<metaA, session>>
    BY <1>2 DEF AmdHumanLead, AmdAt
  <2>2. Held(a) /\ ~Marking(a)
    BY <1>0, <2>1 DEF Timely, Marking
  <2>3. \A k \in Leads : lead'[k] # lead[k] => k = row[a].lead
    BY <1>0, <1>2, AdvanceEffects DEF AmdHumanLead, AmdSetsLead
  <2> QED BY <1>0, <2>1, <2>2, <2>3 DEF Advances, Activates
<1>3. CASE AnsFailLead(a)
  <2>1. UNCHANGED <<metaA, session>>
    BY <1>3 DEF AnsFailLead
  <2>2. Settles
    BY <1>0, <1>3, <2>1, SettleEffects
    DEF AnsFailLead, FinishedLead, Settles, Tracked
  <2> QED BY <2>1, <2>2 DEF Activates
<1>4. CASE AmdMachineLead(a) \/ AmdDeniedLead(a)
  <2>1. PICK from \in {"machineLead", "deniedLead"}, s \in FinishedLead :
          AmdForgets(a, from, s)
    BY <1>4 DEF AmdMachineLead, AmdDeniedLead, FinishedLead
  <2>2. amd[a] = from /\ UNCHANGED session /\ metaA' = Forget(metaA, a)
    BY <2>1 DEF AmdForgets, AmdAt
  <2>3. SetLeadState(row[a].lead, s)
    BY <1>0, <2>1, <2>2 DEF AmdForgets, AmdSetsLead, Timely
  <2>4. \A b \in Attempts \ {a} : metaA'[b] = metaA[b]
    BY <1>0, <2>2, ForgetEffects
  <2>5. Settles
    BY <1>0, <2>3, <2>4, SettleEffects DEF Settles, Tracked
  <2> QED BY <2>2, <2>5 DEF Activates
<1>5. CASE DesLead(a) \/ ClnHistoryLead(a)
  <2>1. UNCHANGED session /\ metaA' = Forget(metaA, a)
    BY <1>5 DEF DesLead, ClnHistoryLead
  <2>2. PICK s \in FinishedLead : SetLeadState(row[a].lead, s)
    BY <1>5 DEF DesLead, ClnHistoryLead, FinishedLead
  <2>3. \A b \in Attempts \ {a} : metaA'[b] = metaA[b]
    BY <1>0, <2>1, ForgetEffects
  <2>4. Settles
    BY <1>0, <2>2, <2>3, SettleEffects DEF Settles, Tracked
  <2> QED BY <2>1, <2>4 DEF Activates
<1>6. CASE AmdAttach(a) \/ AmdVars(a) \/ AmdTail(a) \/ ClnRemove(a)
  <2>1. UNCHANGED <<lead, metaA>>
    BY <1>6 DEF AmdAttach, AmdVars, AmdTail, ClnRemove
  <2>2. Activates
    <3>1. CASE AmdVars(a)
      BY <1>0, <3>1 DEF AmdVars, AmdAt, Activates, Timely, TypeOK, MemoryTypes
    <3>2. CASE AmdTail(a)
      BY <1>0, <3>2 DEF AmdTail, AmdAt, Activates, Timely, TypeOK, MemoryTypes
    <3>3. CASE AmdAttach(a) \/ ClnRemove(a)
      BY <1>0, <3>3 DEF AmdAttach, ClnRemove, Activates, TypeOK, MemoryTypes
    <3> QED BY <1>6, <3>1, <3>2, <3>3
  <2> QED BY <2>1, <2>2 DEF Settles, Tracked
<1>7. CASE UNCHANGED <<lead, metaA, session>>
  BY <1>7 DEF Settles, Activates, Tracked
<1> QED BY <1>1, <1>2, <1>3, <1>4, <1>5, <1>6, <1>7
        DEF Handler, AnsAdd, AnsContinue, AnsContinueFails, AnsFailFinish,
            AnsHang, AmdGate, AmdMachineFinish, AmdDeniedFinish, AmdEnds,
            AmdHang, AmdAttachFails, DesFinish, ClnHangup, ClnHistory,
            FinishAttempt

LEMMA OperatorKeepsLeads ==
  ASSUME TypeOK, Operator
  PROVE  Activates /\ Settles
<1>1. UNCHANGED <<metaA, session>>
  BY DEF Operator
<1>2. ASSUME NEW l \in Leads
      PROVE  /\ lead'[l] \in Dialed => lead[l] \in Dialed
             /\ NoNewWork /\ lead'[l] \in Runnable => lead[l] \in Runnable
  <2> USE DEF TypeOK, StoreTypeOK, Dialed, Runnable, ActiveLead
  <2>1. CASE UNCHANGED lead
    BY <2>1
  <2>2. CASE StopCampaign
    BY <2>2 DEF StopCampaign
  <2>3. ASSUME NEW k \in Leads, CancelLead(k) \/ IgnoreLead(k) \/ DeleteLead(k)
        PROVE  lead'[l] \in {lead[l], "canceled", "deleted"}
    BY <2>3 DEF CancelLead, IgnoreLead, DeleteLead
  <2>4. ASSUME NEW k \in Leads,
               \/ Allowed("import") /\ ImportLead(k)
               \/ Allowed("redial") /\ RedialLead(k)
               \/ Allowed("reset") /\ ResetLead(k)
        PROVE  lead'[l] \in {lead[l], "pending"} /\ ~NoNewWork
    BY <2>4 DEF Allowed, NoNewWork, ImportLead, RedialLead, ResetLead
  <2> QED BY <2>1, <2>2, <2>3, <2>4
          DEF Operator, StartCampaign, PauseCampaign, ArchiveCampaign,
              SetCampaignStatus
<1> QED BY <1>1, <1>2 DEF Settles, Activates, Tracked

LEMMA DialedKept ==
  ASSUME DialedInv, UNCHANGED crashes,
         \A l \in Leads : lead'[l] \in Dialed =>
           /\ lead[l] \in Dialed
           /\ \A b \in Tracked : row[b].lead = l /\ ~Marking(b) =>
                b \in Tracked' /\ row'[b].lead = l /\ ~Marking(b)'
  PROVE  DialedInv'
<1> SUFFICES ASSUME Timely, crashes = 0, NEW l \in LeadIn(Dialed)'
             PROVE  \E b \in Tracked' : row'[b].lead = l /\ ~Marking(b)'
  BY DEF DialedInv
<1>1. PICK b \in Tracked : row[b].lead = l /\ ~Marking(b)
  BY DEF DialedInv, LeadIn
<1> QED BY <1>1 DEF LeadIn

\* The scheduler's steps: what it stops tracking it has settled, and it starts
\* to call a lead with an attempt it tracks.
LEMMA SchedulerKeepsLeads ==
  ASSUME LifeInv, DialedInv, DoneInv, Scheduler
  PROVE  DialedInv' /\ DoneInv'
<1>0. /\ TypeOK /\ FreshInv /\ Seated /\ Calls
      /\ sched \in Placing => metaA[cur] # "ghost"
  BY FactsOf
<1>1. ASSUME NEW S \in SUBSET Attempts, BeginScan(S)
      PROVE  DialedInv' /\ DoneInv'
  <2>1. sched' \in {"list", "dogHangup"} /\ UNCHANGED <<lead, row, metaA, crashes>>
    BY <1>1, NextStaleAway DEF BeginScan
  <2> QED BY <2>1, DialedKept DEF DoneInv, Tracked, Marking
<1>2. CASE DogHangup
  <2>1. sched' \in {"list", "dogHangup", "dogFinish"}
        /\ UNCHANGED <<lead, row, metaA, crashes>>
    BY <1>2, NextStaleAway DEF DogHangup, SchedAt
  <2> QED BY <2>1, DialedKept DEF DoneInv, Tracked, Marking
<1>3. CASE DogFinish \/ SchedOrigFail
  <2>1. sched' \in {"dogLead", "origLead"} /\ UNCHANGED <<lead, metaA, crashes>>
    BY <1>3 DEF DogFinish, SchedOrigFail, SchedAt, FinishAttempt
  <2>2. RowsKept
    BY <1>0, <1>3, FinishAttemptKeeps
    DEF DogFinish, SchedOrigFail, EndedOutcome
  <2> QED BY <2>1, <2>2, DialedKept DEF DoneInv, Tracked, Marking, RowsKept
<1>4. CASE DogLead
  <2>1. sched' \in {"list", "dogHangup"} /\ cur \in Attempts
        /\ UNCHANGED <<row, crashes>>
    BY <1>0, <1>4, NextStaleAway DEF DogLead, SetLeadState, Seated
  <2>2. \A b \in Attempts \ {cur} : metaA'[b] = metaA[b]
    BY <1>0, <1>4, <2>1, ForgetEffects DEF DogLead
  <2>3. \A k \in Leads : lead'[k] \in Dialed => lead[k] \in Dialed /\ k # row[cur].lead
    BY <1>0, <1>4, SettleEffects DEF DogLead, FinishedLead
  <2> QED BY <2>1, <2>2, <2>3, DialedKept DEF DoneInv, Tracked, Marking
<1>5. CASE SchedList
  <2>1. /\ sched = "list" /\ sched' \in {"lease", "idle"}
        /\ UNCHANGED <<lead, row, metaA, session, crashes>>
        /\ sched' = "lease" => idleSeen' = Idle
    BY <1>5 DEF SchedList
  <2>2. DoneInv'
    BY <2>1 DEF DoneInv, Idle, Tracked, Active
  <2> QED BY <2>1, <2>2, DialedKept DEF Tracked, Marking
<1>6. ASSUME NEW l \in Leads, SchedLease(l)
      PROVE  DialedInv' /\ DoneInv'
  <2>1. sched' = "create" /\ UNCHANGED <<row, metaA, crashes>>
    BY <1>6 DEF SchedLease, SchedAt, LeaseLead
  <2>2. \A k \in Leads : lead'[k] \in Dialed => lead[k] \in Dialed
    BY <1>0, <1>6 DEF SchedLease, LeaseLead, TypeOK, StoreTypeOK, Dialed
  <2> QED BY <2>1, <2>2, DialedKept DEF DoneInv, Tracked, Marking
<1>7. CASE SchedNoLead
  <2>1. /\ sched = "lease" /\ UNCHANGED <<lead, row, metaA, session, crashes>>
        /\ sched' = "idle" \/ (sched' = "stats" /\ idleSeen)
    BY <1>7 DEF SchedNoLead
  <2>2. DoneInv'
    BY <2>1 DEF DoneInv, Tracked, Active
  <2> QED BY <2>1, <2>2, DialedKept DEF Tracked, Marking
<1>8. CASE SchedStats
  <2>1. /\ sched = "stats" /\ UNCHANGED <<lead, row, metaA, session, crashes>>
        /\ sched' = "idle" \/ (sched' = "complete" /\ LeadIn(Runnable) = {})
    BY <1>8 DEF SchedStats, NoRunnableWork
  <2>2. DoneInv'
    BY <2>1 DEF DoneInv, Tracked, Active, LeadIn
  <2> QED BY <2>1, <2>2, DialedKept DEF Tracked, Marking
<1>9. CASE SchedComplete
  <2>1. sched' = "idle" /\ UNCHANGED <<lead, row, metaA, crashes>>
    BY <1>9 DEF SchedComplete, SchedAt, SetCampaignStatus
  <2> QED BY <2>1, DialedKept DEF DoneInv, Tracked, Marking
<1>10. ASSUME NEW a \in Attempts, SchedCreate(a)
       PROVE  DialedInv' /\ DoneInv'
  <2>1. /\ sched' = "mark" /\ cur' = a /\ a \notin Tracked
        /\ UNCHANGED <<lead, crashes>>
    BY <1>0, <1>10 DEF SchedCreate, SchedAt, CreateAttempt, FreshInv, Tracked
  <2>2. \A b \in Attempts \ {a} : row'[b] = row[b] /\ metaA'[b] = metaA[b]
    BY <1>0, <1>10
       DEF SchedCreate, CreateAttempt, TypeOK, StoreTypeOK, MemoryTypes
  <2> QED BY <1>10, <2>1, <2>2, DialedKept
          DEF SchedCreate, SchedAt, DoneInv, Tracked, Marking
<1>11. CASE SchedMark
  <2>1. sched = "mark" /\ cur \in Attempts /\ cur \in Tracked
        /\ row[cur].lead = curLead /\ UNCHANGED <<row, metaA, cur, crashes>>
    BY <1>0, <1>11
       DEF SchedMark, SchedAt, MarkLeadDialing, Seated, Calls, Tracked
  <2>2. CASE sched' = "markFail" /\ UNCHANGED lead
    BY <2>1, <2>2, DialedKept DEF DoneInv, Tracked, Marking
  <2>3. CASE sched' = "originate" /\ MarkLeadDialing(curLead)
    <3>1. \A k \in Leads : lead'[k] # lead[k] => k = curLead
      BY <1>0, <2>3 DEF MarkLeadDialing, TypeOK, StoreTypeOK
    <3>2. ASSUME Timely, crashes = 0, NEW l \in LeadIn(Dialed)'
          PROVE  \E b \in Tracked' : row'[b].lead = l /\ ~Marking(b)'
      <4>1. CASE l = curLead
        BY <2>1, <2>3, <4>1 DEF Tracked, Marking
      <4>2. CASE l # curLead
        <5>1. l \in LeadIn(Dialed)
          BY <3>1, <3>2, <4>2 DEF LeadIn
        <5>2. PICK b \in Tracked : row[b].lead = l /\ ~Marking(b)
          BY <3>2, <5>1 DEF DialedInv
        <5> QED BY <2>1, <2>3, <5>2 DEF Tracked, Marking
      <4> QED BY <4>1, <4>2
    <3>3. DialedInv'
      BY <2>1, <3>2 DEF DialedInv
    <3> QED BY <2>3, <3>3 DEF DoneInv
  <2> QED BY <1>11, <2>2, <2>3 DEF SchedMark, SchedAt
<1>12. CASE SchedMarkFail
  <2>1. sched = "markFail" /\ sched' = "idle" /\ cur \in Attempts
        /\ UNCHANGED <<lead, crashes>>
    BY <1>0, <1>12
       DEF SchedMarkFail, SchedDone, SchedAt, FinishAttempt, Seated
  <2>2. RowsKept
    BY <1>0, <1>12, FinishAttemptKeeps DEF SchedMarkFail, EndedOutcome
  <2>3. \A b \in Attempts \ {cur} : metaA'[b] = metaA[b]
    BY <1>0, <1>12, <2>1, ForgetEffects DEF SchedMarkFail
  <2> QED BY <2>1, <2>2, <2>3, DialedKept
          DEF DoneInv, Tracked, Marking, RowsKept
<1>13. CASE SchedOriginate \/ SchedBind
  <2>1. sched \in {"originate", "bind"} /\ sched' \in {"bind", "origFail", "idle"}
        /\ UNCHANGED <<lead, row, crashes>>
    BY <1>13 DEF SchedOriginate, SchedBind, SchedDone, SchedAt
  <2>2. \A b \in Tracked : b \in Tracked'
    BY <1>0, <1>13
       DEF SchedOriginate, SchedBind, SchedAt, Bound, Tracked, TypeOK,
           MemoryTypes
  <2> QED BY <2>1, <2>2, DialedKept DEF DoneInv, Marking
<1>14. CASE SchedOrigLead
  <2>1. sched' = "idle" /\ cur \in Attempts /\ row[cur].lead = curLead
        /\ UNCHANGED <<row, crashes>>
    BY <1>0, <1>14
       DEF SchedOrigLead, SchedDone, SchedAt, SetLeadState, Seated, Calls
  <2>2. \A b \in Attempts \ {cur} : metaA'[b] = metaA[b]
    BY <1>0, <1>14, <2>1, ForgetEffects DEF SchedOrigLead
  <2>3. \A k \in Leads : lead'[k] \in Dialed => lead[k] \in Dialed /\ k # curLead
    BY <1>0, <1>14, SettleEffects DEF SchedOrigLead, FinishedLead
  <2> QED BY <2>1, <2>2, <2>3, DialedKept DEF DoneInv, Tracked, Marking
<1> QED BY <1>1, <1>2, <1>3, <1>4, <1>5, <1>6, <1>7, <1>8, <1>9, <1>10, <1>11,
           <1>12, <1>13, <1>14 DEF Scheduler

LEMMA InitLeads == Init => LeadInv
<1> SUFFICES ASSUME Init PROVE LeadInv
  OBVIOUS
<1>1. DialedInv /\ DoneInv
  BY DEF Init, StoreInit, DialedInv, DoneInv, LeadIn, Dialed
<1> QED BY <1>1, InitLife DEF LeadInv

LEMMA NextLeads == LeadInv /\ [Next]_vars => LeadInv'
<1> SUFFICES ASSUME LeadInv, [Next]_vars PROVE LeadInv'
  OBVIOUS
<1>0. LifeInv' /\ LifeInv /\ DialedInv /\ DoneInv /\ TypeOK /\ FreshInv
  BY NextLife, FactsOf DEF LeadInv
<1>1. CASE Scheduler
  BY <1>0, <1>1, SchedulerKeepsLeads DEF LeadInv
<1>2. CASE Crash
  <2>1. crashes' # 0
    BY <1>0, <1>2 DEF Crash, TypeOK, MemoryTypes
  <2> QED BY <1>0, <2>1 DEF LeadInv, DialedInv, DoneInv
<1>3. CASE Restart
  <2>1. crashes # 0 /\ UNCHANGED crashes
    BY <1>0, <1>3 DEF LifeInv, Seated, Restart
  <2> QED BY <1>0, <2>1 DEF LeadInv, DialedInv, DoneInv
<1>4. CASE UNCHANGED vars
  <2>1. RowsKept /\ MetasKept
    BY <1>4, SameKeeps
  <2>2. Activates /\ Settles
    BY <1>4 DEF Activates, Settles, Tracked
  <2> QED BY <1>0, <1>4, <2>1, <2>2, KeepsLeads DEF LeadInv
<1>5. CASE Operator
  <2>1. RowsKept /\ MetasKept
    BY <1>0, <1>5, OthersKeep
  <2>2. Activates /\ Settles
    BY <1>0, <1>5, OperatorKeepsLeads
  <2> QED BY <1>0, <1>5, <2>1, <2>2, KeepsLeads DEF LeadInv, Operator
<1>6. ASSUME NEW a \in Attempts,
             \/ Answer(a) \/ DialplanReturn(a) \/ RemoteHangup(a)
             \/ Dispatcher(a) \/ Handler(a)
      PROVE  LeadInv'
  <2>1. RowsKept /\ MetasKept
    BY <1>0, <1>6, OthersKeep
  <2>2. UNCHANGED <<schedVars, crashes>>
    BY <1>0, <1>6, ChannelLife, DispatcherLife, AnswerHandlerLife,
       AmdHandlerLife,
       DestroyedHandlerLife, CleanupLife DEF Handler, Step
  <2>3. ASSUME Timely, crashes = 0 PROVE Activates /\ (Settles \/ Advances(a))
    <3>1. CASE Handler(a)
      BY <1>0, <2>3, <3>1, TasksKeepLeads
    <3>2. CASE ~Handler(a)
      <4>1. UNCHANGED <<lead, session>>
        BY <1>6, <3>2
           DEF Answer, DialplanReturn, RemoteHangup, Dispatcher,
               DispatchAnswered,
               DispatchAmd, DispatchEnd, DispatchDestroyed
      <4>2. \A b \in Tracked : b \in Tracked'
        BY <1>0, <1>6, <3>2
           DEF Answer, DialplanReturn, RemoteHangup, Dispatcher,
               DispatchAnswered,
               DispatchAmd, DispatchEnd, DispatchDestroyed, Tracked, TypeOK,
               MemoryTypes
      <4> QED BY <4>1, <4>2 DEF Activates, Settles
    <3> QED BY <3>1, <3>2
  <2> QED BY <1>0, <2>1, <2>2, <2>3, KeepsLeads DEF LeadInv
<1> QED BY <1>1, <1>2, <1>3, <1>4, <1>5, <1>6 DEF Next

\* While the engine does not crash, a lead that counts as being called has a
\* tracked attempt, which somebody will settle: no interleaving of the watchdog,
\* the event tasks, the scheduler and the operator strands it, under the timing
\* that the run assumes too.
THEOREM NobodyStranded == Timely => (Spec => [](crashes = 0 => NoStrandedLead))
<1> SUFFICES ASSUME Timely PROVE Spec => [](crashes = 0 => NoStrandedLead)
  OBVIOUS
<1>1. LeadInv => (crashes = 0 => NoStrandedLead)
  BY DEF LeadInv, DialedInv, NoStrandedLead, WillSettle, Tracked
<1> QED BY <1>1, InitLeads, NextLeads, PTL DEF Spec

\* A campaign is marked completed only when it has no runnable lead and no call
\* in flight, although four awaits lie between the counts and the write, if the
\* operator neither imports nor recycles leads meanwhile.
THEOREM CompletedInTime == Timely /\ NoNewWork => (Spec => CompletedWhenDone)
<1> SUFFICES ASSUME Timely, NoNewWork PROVE Spec => CompletedWhenDone
  OBVIOUS
<1> DEFINE Completes ==
             campaign # "completed" /\ campaign' = "completed" /\ crashes = 0
           Over == LeadIn(Runnable) = {} /\ Tracked = {} /\ Active = {}
<1>1. LeadInv /\ [Next]_vars => (Completes => Over)
  <2> SUFFICES ASSUME LeadInv, [Next]_vars, Completes PROVE Over
    OBVIOUS
  <2>1. SchedComplete
    BY DEF Next, Scheduler, BeginScan, DogHangup, DogFinish, DogLead,
       SchedList,
           SchedNoLead, SchedStats, SchedMark, SchedMarkFail, SchedOriginate,
           SchedBind, SchedOrigFail, SchedOrigLead, SchedCreate, SchedLease,
           Answer, DialplanReturn, RemoteHangup, Dispatcher, DispatchAnswered,
           DispatchAmd, DispatchEnd, DispatchDestroyed, Handler, AnsLead,
           AnsAdd,
           AnsContinue, AnsContinueFails, AnsFailFinish, AnsFailLead, AnsHang,
           AmdGate, AmdMachineFinish, AmdMachineLead, AmdDeniedFinish,
           AmdDeniedLead, AmdEnds, AmdForgets, AmdSetsLead, AmdHang,
           AmdHumanLead, AmdAttach, AmdAttachFails, AmdVars, AmdTail,
           DesFinish,
           DesLead, ClnHangup, ClnHistory, ClnHistoryLead, ClnRemove,
           Operator,
           StartCampaign, PauseCampaign, StopCampaign, ArchiveCampaign,
           ImportLead, CancelLead, IgnoreLead, RedialLead, ResetLead,
           DeleteLead,
           Crash, Restart, CleanupStale, SetCampaignStatus, SetLeadState,
           FinishAttempt, LeaseLead, MarkLeadDialing, CreateAttempt
  <2> QED BY <2>1 DEF LeadInv, DoneInv, SchedComplete, SchedAt
<1>2. LeadInv /\ [Next]_vars =>
        [campaign # "completed" /\ campaign' = "completed" /\ crashes = 0 =>
           LeadIn(Runnable) = {} /\ Tracked = {} /\ Active = {}]_vars
  BY <1>1
<1> QED BY <1>2, InitLeads, NextLeads, PTL DEF Spec, CompletedWhenDone

=============================================================================
