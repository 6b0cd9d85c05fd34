--------------------------- MODULE CallLifecycle ---------------------------
(***************************************************************************)
(* One call of src/engine.py from StasisStart to the end of its cleanup,   *)
(* over either audio transport: the set-up of the caller, of the media     *)
(* channel (ExternalMedia over src/rtp_server.py, or an AudioSocket        *)
(* channel over src/audio/audiosocket_server.py) and of the provider, the  *)
(* handler of the media channel's StasisStart, the audio that starts a     *)
(* provider, and _cleanup_call.  Other calls take part as users of the RTP *)
(* port pool.                                                              *)
(*                                                                         *)
(* Every handler is an asyncio task.  A step runs up to the next await     *)
(* that suspends: the session store never does, an ARI request, a sleep,   *)
(* the tools before a call, a provider's connect and stop, and the end of  *)
(* an RTP receiver do.  What a request does in Asterisk belongs to the     *)
(* step that sends it, what the code does with the answer to the next one. *)
(* The session is one object every task holds: `stored' says whether the   *)
(* store has it, and a task that saves it puts it back.                    *)
(***************************************************************************)
EXTENDS Integers, Sequences

CONSTANTS MaxPorts,       \* the RTP port range
          MaxNeighbours,  \* bound: other calls that use the ports
          Faults          \* a subset of FaultKinds

\* bridge_refused, media_refused: Asterisk refuses the request.
\* bind_fails: the operating system refuses a port the pool has free.
\* media_dies: the media channel ends by itself.
\* provider_fails, provider_drops: it does not start; it disconnects.
\* slow_response: the answer to the AudioSocket originate comes after the
\*   channel's handler, or the connection, has given up looking for the call.
\* end_first: the end of a channel is reported before the answer to the
\*   request after which the code can find the call by that channel.
FaultKinds == {"bridge_refused", "media_refused", "bind_fails", "media_dies",
               "provider_fails", "provider_drops", "slow_response",
               "end_first"}

ASSUME LifecycleAssumption ==
  /\ MaxPorts \in Nat
  /\ MaxNeighbours \in Nat
  /\ Faults \subseteq FaultKinds

Ports == 1..MaxPorts
NoPort == 0
Call == 0
Neighbours == 1..MaxNeighbours
Users == {Call} \cup Neighbours

VARIABLES
  \* the configured audio_transport
  transport,
  \* Asterisk: channels, bridge, who is in it, undelivered events
  caller, media, bridge, members, events,
  \* the session: in the store, the media channel's id in it,
  \* provider_session_active
  stored, known, active,
  \* RTP: ports in port_allocation, the sockets, the keys of sessions
  reserved, socket, listed,
  \* AudioSocket: pending_audiosocket_channels, uuidext_to_channel, the TCP
  \* connection
  pending, uuid, conn,
  \* the provider: the tasks that start it, in _call_providers, open sessions
  start, registered, open,
  \* the tasks: the caller's StasisStart, the media channel's, _cleanup_call
  setup, attach, cleanup,
  \* history: what came after the cleanup had passed it; a fault hit the call;
  \* the end of a channel was reported when the call could not be found by it
  late, faulty, missed

asterisk == <<caller, media, bridge, members, events>>
session  == <<stored, known, active>>
rtp      == <<reserved, socket, listed>>
audio    == <<pending, uuid, conn>>
provider == <<start, registered, open>>
tasks    == <<setup, attach, cleanup>>
history  == <<late, faulty, missed>>
vars == <<transport, asterisk, session, rtp, audio, provider, tasks, history>>

\* Who asks for the provider to be started.
Starters == {"setup", "attach", "audio"}

Resources == {"caller", "bridge", "media", "provider", "port", "conn", "uuid",
              "session"}

SetupState == {"entered", "answered", "bridged", "joined", "unjoined",
               "configuring", "configured", "created", "refused", "unbinding",
               "attached", "unattached", "over"}
AttachState == {"none", "retry", "added", "unadded", "over"}
CleanupState == {"no", "begun", "stopped", "unbridged", "unmediated", "hungup",
                 "unbinding", "unbound", "disconnected", "forgotten", "done"}

MediaTypes ==
  /\ transport \in {"externalmedia", "audiosocket"}
  /\ caller \in {"up", "gone"}
  /\ media \in {"none", "up", "gone"}
  /\ bridge \in {"none", "up", "gone"}
  /\ members \subseteq {"caller", "media"}
  /\ conn \in {"none", "open", "bound", "closed"}

EventTypes == events \in Seq({"caller_end", "media_start", "media_end"})

RtpTypes ==
  /\ reserved \subseteq Ports
  /\ socket \in [Users -> Ports \cup {NoPort}]
  /\ listed \subseteq Users

FlagTypes ==
  /\ stored \in BOOLEAN /\ known \in BOOLEAN /\ active \in BOOLEAN
  /\ pending \in BOOLEAN /\ uuid \in BOOLEAN
  /\ registered \in BOOLEAN
  /\ faulty \in BOOLEAN /\ missed \in BOOLEAN

TaskTypes ==
  /\ start \in [Starters -> {"none", "new", "precall", "connecting"}]
  /\ open \in Nat
  /\ setup \in SetupState /\ attach \in AttachState
  /\ cleanup \in CleanupState
  /\ late \subseteq Resources

TypeOK == MediaTypes /\ EventTypes /\ RtpTypes /\ FlagTypes /\ TaskTypes

\* The caller has entered the application; there is no session for it.
Init ==
  /\ transport \in {"externalmedia", "audiosocket"}
  /\ caller = "up" /\ media = "none" /\ bridge = "none" /\ members = {}
  /\ events = <<>>
  /\ stored = FALSE /\ known = FALSE /\ active = FALSE
  /\ reserved = {} /\ socket = [u \in Users |-> NoPort] /\ listed = {}
  /\ pending = FALSE /\ uuid = FALSE /\ conn = "none"
  /\ start = [s \in Starters |-> "none"] /\ registered = FALSE /\ open = 0
  /\ setup = "entered" /\ attach = "none" /\ cleanup = "no"
  /\ late = {} /\ faulty = FALSE /\ missed = FALSE

----------------------------------------------------------------------------
(* What several steps do.                                                  *)

\* What the cleanup has already released, or will not look at again.
Passed ==
  LET before == [provider |-> {"no", "begun"},
                 media    |-> {"no", "begun", "stopped", "unbridged"},
                 port     |-> {"no", "begun", "stopped", "unbridged",
                               "unmediated", "hungup"},
                 session  |-> CleanupState \ {"done"},
                 uuid     |-> CleanupState \ {"forgotten", "done"}]
  IN {r \in DOMAIN before : cleanup \notin before[r]}

Gains(R) == late' = late \cup (R \cap Passed)

Save == stored' = TRUE

\* A request or the media fails.
Fault(f) == f \in Faults /\ faulty' = TRUE

CanAttach == bridge = "up" /\ media = "up"

\* POST bridges/<id>/addChannel for the media channel.
AddMedia ==
  members' = IF CanAttach THEN members \cup {"media"} ELSE members

Report(e) == events' = Append(events, e)

\* The caller's channel ends.
DropCaller ==
  IF caller = "up"
  THEN caller' = "gone" /\ members' = members \ {"caller"}
       /\ Report("caller_end")
  ELSE UNCHANGED <<caller, members, events>>

\* The media channel ends; q is what is left of the queue.
DropMedia(q) ==
  IF media = "up"
  THEN media' = "gone" /\ members' = members \ {"media"}
       /\ events' = Append(q, "media_end")
  ELSE events' = q /\ UNCHANGED <<media, members>>

\* Mutant: the port after the one that was reserved is bound.
AllocateNext(u, p) ==
  /\ p \in Ports \ reserved
  /\ reserved' = reserved \cup {p}
  /\ socket' = [socket EXCEPT ![u] = p + 1]
  /\ listed' = listed \cup {u}

\* allocate_session: the first port that is not reserved.
Allocate(u, p) ==
  /\ p \in Ports \ reserved
  /\ \A q \in Ports \ reserved : p <= q
  /\ reserved' = reserved \cup {p}
  /\ socket' = [socket EXCEPT ![u] = p]
  /\ listed' = listed \cup {u}

\* Mutant: the port is released before the receiver has ended.
ReleaseEarly(u) ==
  /\ listed' = listed \ {u} /\ reserved' = reserved \ {socket[u]}
  /\ UNCHANGED socket

\* cleanup_session, in two steps: the session leaves the table at once; its
\* socket is closed and its port released when the receiver has ended.
Unlist(u) == listed' = listed \ {u} /\ UNCHANGED <<reserved, socket>>

Release(u) ==
  /\ reserved' = reserved \ {socket[u]}
  /\ socket' = [socket EXCEPT ![u] = NoPort]

\* Mutant: every task starts the provider.
StartAnyway(s) ==
  start' = IF active THEN start ELSE [start EXCEPT ![s] = "new"]

\* _ensure_provider_session_started: one start at a time.
NoStart == \A s \in Starters : start[s] = "none"

Asks == IF ~active /\ NoStart THEN {"provider"} ELSE {}

EnsureStart(s) ==
  start' = IF ~active /\ NoStart THEN [start EXCEPT ![s] = "new"] ELSE start

\* The end of _cleanup_call's first step, with its guards.
BeginCleanup ==
  cleanup' = IF stored /\ cleanup = "no" THEN "begun" ELSE cleanup

----------------------------------------------------------------------------
(* The caller's StasisStart.                                               *)

Answer ==
  /\ setup = "entered" /\ ~stored
  /\ setup' = "answered"
  /\ UNCHANGED <<transport, asterisk, session, rtp, audio, provider, attach,
                 cleanup, history>>

CreateBridge ==
  /\ setup = "answered"
  /\ bridge' = "up" /\ setup' = "bridged"
  /\ UNCHANGED <<transport, caller, media, members, events, session, rtp,
                 audio, provider, attach, cleanup, history>>

\* The handler's cleanup finds no session: the answered caller stays.
BridgeRefused ==
  /\ setup = "answered"
  /\ Fault("bridge_refused")
  /\ setup' = "over"
  /\ UNCHANGED <<transport, asterisk, session, rtp, audio, provider, attach,
                 cleanup, late, missed>>

JoinCaller ==
  /\ setup = "bridged"
  /\ IF caller = "up"
     THEN members' = members \cup {"caller"} /\ setup' = "joined"
     ELSE setup' = "unjoined" /\ UNCHANGED members
  /\ UNCHANGED <<transport, caller, media, bridge, events, session, rtp, audio,
                 provider, attach, cleanup, history>>

\* Again no session: the bridge stays.
JoinFails ==
  /\ setup = "unjoined"
  /\ setup' = "over"
  /\ UNCHANGED <<transport, asterisk, session, rtp, audio, provider, attach,
                 cleanup, history>>

StoreSession ==
  /\ setup = "joined"
  /\ Save /\ Gains({"session"})
  /\ setup' = "configuring"
  /\ UNCHANGED <<transport, asterisk, known, active, rtp, audio, provider,
                 attach, cleanup, faulty, missed>>

\* Called number, outbound metadata, transport profile, codec, audio profile,
\* provider: requests, and a save after each.  This is the last of the saves.
Configure ==
  /\ setup = "configuring"
  /\ Save /\ Gains({"session"})
  /\ setup' = "configured"
  /\ UNCHANGED <<transport, asterisk, known, active, rtp, audio, provider,
                 attach, cleanup, faulty, missed>>

\* A port is bound and the ExternalMedia channel asked for.
RequestExternalMedia ==
  /\ setup = "configured" /\ transport = "externalmedia"
  /\ \E p \in Ports : Allocate(Call, p)
  /\ Gains({"port"})
  /\ \/ /\ media' = "up" /\ Report("media_start")
        /\ setup' = "created"
        /\ UNCHANGED faulty
     \/ /\ Fault("media_refused")
        /\ setup' = "refused"
        /\ UNCHANGED <<media, events>>
  /\ UNCHANGED <<transport, caller, bridge, members, session, audio, provider,
                 attach, cleanup, missed>>

\* No port: the handler ends and the caller stays.  A port that cannot be
\* bound stays reserved.
NoPortForCall ==
  /\ setup = "configured" /\ transport = "externalmedia"
  /\ \/ reserved = Ports /\ UNCHANGED reserved
     \/ /\ "bind_fails" \in Faults
        /\ \E p \in Ports \ reserved :
             /\ \A q \in Ports \ reserved : p <= q
             /\ reserved' = reserved \cup {p}
  /\ faulty' = TRUE
  /\ setup' = "over"
  /\ UNCHANGED <<transport, asterisk, session, socket, listed, audio, provider,
                 attach, cleanup, late, missed>>

\* The AudioSocket channel is originated: Asterisk connects at once.
RequestAudioSocket ==
  /\ setup = "configured" /\ transport = "audiosocket"
  /\ \/ /\ media' = "up" /\ conn' = "open" /\ Report("media_start")
        /\ setup' = "created"
        /\ UNCHANGED faulty
     \/ /\ Fault("media_refused")
        /\ setup' = "refused"
        /\ UNCHANGED <<media, events, conn>>
  /\ UNCHANGED <<transport, caller, bridge, members, session, rtp, pending,
                 uuid, provider, attach, cleanup, late, missed>>

\* The ExternalMedia request failed: the RTP session goes.
ExternalMediaRefused ==
  /\ setup = "refused" /\ transport = "externalmedia"
  /\ IF Call \in listed
     THEN Unlist(Call) /\ setup' = "unbinding"
     ELSE setup' = "over" /\ UNCHANGED rtp
  /\ UNCHANGED <<transport, asterisk, session, audio, provider, attach,
                 cleanup, history>>

Unbound ==
  /\ setup = "unbinding"
  /\ Release(Call)
  /\ setup' = "over"
  /\ UNCHANGED <<transport, asterisk, session, listed, audio, provider, attach,
                 cleanup, history>>

\* The originate failed: the handler tears the call down.
AudioSocketRefused ==
  /\ setup = "refused" /\ transport = "audiosocket"
  /\ BeginCleanup
  /\ setup' = "over"
  /\ UNCHANGED <<transport, asterisk, session, rtp, audio, provider, attach,
                 history>>

\* The channel is known by its id, saved in the session and added directly.
MediaCreated ==
  /\ setup = "created" /\ transport = "externalmedia"
  /\ known' = TRUE /\ Save /\ Gains({"session", "media"})
  /\ AddMedia
  /\ setup' = IF CanAttach THEN "attached" ELSE "unattached"
  /\ UNCHANGED <<transport, caller, media, bridge, events, active, rtp, audio,
                 provider, attach, cleanup, faulty, missed>>

Attached ==
  /\ setup = "attached"
  /\ Save /\ Gains({"session"} \cup Asks)
  /\ EnsureStart("setup")
  /\ setup' = "over"
  /\ UNCHANGED <<transport, asterisk, known, active, rtp, audio, registered,
                 open, attach, cleanup, faulty, missed>>

\* A channel or a bridge that is gone does not come back: the attempts that
\* follow fail like the first.
AttachFails ==
  /\ setup = "unattached"
  /\ setup' = "over"
  /\ UNCHANGED <<transport, asterisk, session, rtp, audio, provider, attach,
                 cleanup, history>>

\* The mappings by which the channel and the connection find the call.
Originated ==
  /\ setup = "created" /\ transport = "audiosocket"
  /\ pending' = TRUE /\ uuid' = TRUE /\ Gains({"uuid"})
  /\ setup' = "over"
  /\ UNCHANGED <<transport, asterisk, session, rtp, conn, provider, attach,
                 cleanup, faulty, missed>>

SetupStep ==
  \/ Answer \/ CreateBridge \/ BridgeRefused \/ JoinCaller \/ JoinFails
  \/ StoreSession \/ Configure
  \/ RequestExternalMedia \/ NoPortForCall \/ RequestAudioSocket
  \/ ExternalMediaRefused \/ Unbound \/ AudioSocketRefused
  \/ MediaCreated \/ Attached \/ AttachFails \/ Originated

----------------------------------------------------------------------------
(* The media channel's StasisStart.                                        *)

\* The call is found: by the channel's id in a session, or in the pending map.
Finds == IF transport = "externalmedia" THEN stored /\ known ELSE pending

\* The channel is added to the bridge; an AudioSocket channel whose session is
\* gone is hung up.
TryAttach(q) ==
  /\ pending' = FALSE
  /\ IF stored
     THEN /\ AddMedia
          /\ attach' = IF CanAttach THEN "added" ELSE "unadded"
          /\ events' = q /\ UNCHANGED media
     ELSE DropMedia(q) /\ attach' = "over"

\* Mutant: no retry, the channel is hung up.
GiveUpAtOnce(q) ==
  IF Finds THEN TryAttach(q)
  ELSE DropMedia(q) /\ attach' = "over" /\ UNCHANGED pending

MediaArrives(q) ==
  IF Finds THEN TryAttach(q)
  ELSE attach' = "retry" /\ events' = q /\ UNCHANGED <<media, members, pending>>

RetryFinds ==
  /\ attach = "retry" /\ Finds
  /\ TryAttach(events)
  /\ UNCHANGED <<transport, caller, bridge, session, rtp, uuid, conn, provider,
                 setup, cleanup, history>>

\* An ExternalMedia channel is left to the set-up, which adds it as well; an
\* AudioSocket channel is hung up.
RetryExhausted ==
  /\ attach = "retry" /\ ~Finds
  /\ attach' = "over"
  /\ IF transport = "externalmedia"
     THEN UNCHANGED <<media, members, events, faulty>>
     ELSE Fault("slow_response") /\ DropMedia(events)
  /\ UNCHANGED <<transport, caller, bridge, session, rtp, audio, provider,
                 setup, cleanup, late, missed>>

MediaAdded ==
  /\ attach = "added"
  /\ known' = TRUE /\ Save /\ Gains({"session", "media"} \cup Asks)
  /\ EnsureStart("attach")
  /\ attach' = "over"
  /\ UNCHANGED <<transport, asterisk, active, rtp, audio, registered, open,
                 setup, cleanup, faulty, missed>>

MediaNotAdded ==
  /\ attach = "unadded"
  /\ attach' = "over"
  /\ IF transport = "audiosocket"
     THEN DropMedia(events)
     ELSE UNCHANGED <<media, members, events>>
  /\ UNCHANGED <<transport, caller, bridge, session, rtp, audio, provider,
                 setup, cleanup, history>>

AttachStep == RetryFinds \/ RetryExhausted \/ MediaAdded \/ MediaNotAdded

----------------------------------------------------------------------------
(* The AudioSocket connection, and the audio of either transport.          *)

\* _audiosocket_handle_uuid, with its short wait for the mapping.
BindConnection ==
  /\ conn = "open" /\ uuid
  /\ conn' = "bound"
  /\ UNCHANGED <<transport, asterisk, session, rtp, pending, uuid, provider,
                 tasks, history>>

\* Nothing is mapped: the originate's answer is late, or the cleanup has come.
RejectConnection ==
  /\ conn = "open" /\ ~uuid
  /\ IF setup = "created" THEN Fault("slow_response") ELSE UNCHANGED faulty
  /\ conn' = "closed"
  /\ UNCHANGED <<transport, asterisk, session, rtp, pending, uuid, provider,
                 tasks, late, missed>>

\* One side closes it, the other follows.
ConnectionEnds ==
  /\ conn \in {"open", "bound"} /\ media = "gone"
  /\ conn' = "closed"
  /\ UNCHANGED <<transport, asterisk, session, rtp, pending, uuid, provider,
                 tasks, history>>

ChannelFollows ==
  /\ conn = "closed" /\ media = "up"
  /\ DropMedia(events)
  /\ UNCHANGED <<transport, caller, bridge, session, rtp, audio, provider,
                 tasks, history>>

Flowing ==
  \/ transport = "externalmedia" /\ Call \in listed /\ media = "up"
  \/ transport = "audiosocket" /\ conn = "bound"

\* A frame finds no provider: _kickoff_provider_session_start.
Audio ==
  /\ Flowing /\ stored
  /\ ~registered /\ ~active /\ NoStart
  /\ EnsureStart("audio") /\ Gains(Asks)
  /\ UNCHANGED <<transport, asterisk, session, rtp, audio, registered, open,
                 tasks, faulty, missed>>

ConnectionStep == BindConnection \/ RejectConnection \/ ConnectionEnds
                    \/ ChannelFollows

----------------------------------------------------------------------------
(* _start_provider_session.                                                *)

Become(s, pc) == start' = [start EXCEPT ![s] = pc]

StartLooks(s) ==
  /\ start[s] = "new"
  /\ Become(s, IF stored /\ ~(active /\ registered) THEN "precall" ELSE "none")
  /\ UNCHANGED <<transport, asterisk, session, rtp, audio, registered, open,
                 tasks, history>>

\* The tools before the call are over.  With a context the session is saved.
StartConnects(s) ==
  /\ start[s] = "precall"
  /\ registered' = TRUE
  /\ Become(s, "connecting")
  /\ \/ Save /\ Gains({"session"})
     \/ UNCHANGED <<stored, late>>
  /\ UNCHANGED <<transport, asterisk, known, active, rtp, audio, open, tasks,
                 faulty, missed>>

\* The tools brought results, and the session they belong to is gone.
StartWithoutSession(s) ==
  /\ start[s] = "precall" /\ ~stored
  /\ registered' = FALSE
  /\ Become(s, "none")
  /\ UNCHANGED <<transport, asterisk, session, rtp, audio, open, tasks,
                 history>>

StartConnected(s) ==
  /\ start[s] = "connecting"
  /\ open' = open + 1
  /\ active' = TRUE /\ Save /\ Gains({"session"})
  /\ Become(s, "none")
  /\ UNCHANGED <<transport, asterisk, known, rtp, audio, registered, tasks,
                 faulty, missed>>

\* The next frame tries again.
StartFails(s) ==
  /\ start[s] = "connecting" /\ "provider_fails" \in Faults
  /\ registered' = FALSE
  /\ Become(s, "none")
  /\ UNCHANGED <<transport, asterisk, session, rtp, audio, open, tasks,
                 history>>

\* ProviderDisconnected: the caller is hung up.
ProviderDrops ==
  /\ "provider_drops" \in Faults
  /\ open > 0 /\ active /\ registered /\ stored
  /\ open' = open - 1
  /\ active' = FALSE
  /\ DropCaller
  /\ UNCHANGED <<transport, media, bridge, stored, known, rtp, audio, start,
                 registered, tasks, history>>

StartStep(s) == StartLooks(s) \/ StartConnects(s) \/ StartWithoutSession(s)
                  \/ StartConnected(s) \/ StartFails(s)

----------------------------------------------------------------------------
(* _cleanup_call.                                                          *)

\* The task that starts the provider is cancelled, the provider stopped.
StopProvider ==
  /\ cleanup = "begun"
  /\ start' = [s \in Starters |-> "none"]
  /\ registered' = FALSE
  /\ open' = IF registered /\ open > 0 THEN open - 1 ELSE open
  /\ cleanup' = "stopped"
  /\ UNCHANGED <<transport, asterisk, session, rtp, audio, setup, attach,
                 history>>

DestroyBridge ==
  /\ cleanup = "stopped"
  /\ bridge' = "gone" /\ members' = {}
  /\ cleanup' = "unbridged"
  /\ UNCHANGED <<transport, caller, media, events, session, rtp, audio,
                 provider, setup, attach, history>>

\* Mutant: only a channel that is in the bridge is hung up.
HangupMember ==
  /\ cleanup = "unbridged"
  /\ IF "media" \in members
     THEN DropMedia(events) ELSE UNCHANGED <<media, members, events>>
  /\ cleanup' = "unmediated"
  /\ UNCHANGED <<transport, caller, bridge, session, rtp, audio, provider,
                 setup, attach, history>>

HangupMedia ==
  /\ cleanup = "unbridged"
  /\ IF known THEN DropMedia(events) ELSE UNCHANGED <<media, members, events>>
  /\ cleanup' = "unmediated"
  /\ UNCHANGED <<transport, caller, bridge, session, rtp, audio, provider,
                 setup, attach, history>>

HangupCaller ==
  /\ cleanup = "unmediated"
  /\ DropCaller
  /\ cleanup' = "hungup"
  /\ UNCHANGED <<transport, media, bridge, session, rtp, audio, provider,
                 setup, attach, history>>

UnlistRtp ==
  /\ cleanup = "hungup"
  /\ IF Call \in listed
     THEN Unlist(Call) /\ cleanup' = "unbinding"
     ELSE cleanup' = "unbound" /\ UNCHANGED rtp
  /\ UNCHANGED <<transport, asterisk, session, audio, provider, setup, attach,
                 history>>

CloseRtp ==
  /\ cleanup = "unbinding"
  /\ Release(Call)
  /\ cleanup' = "unbound"
  /\ UNCHANGED <<transport, asterisk, session, listed, audio, provider, setup,
                 attach, history>>

\* A bound connection is closed first; the mappings go when that is done.
Disconnect ==
  /\ cleanup = "unbound"
  /\ IF conn = "bound"
     THEN conn' = "closed" /\ cleanup' = "disconnected" /\ UNCHANGED uuid
     ELSE uuid' = FALSE /\ cleanup' = "forgotten" /\ UNCHANGED conn
  /\ UNCHANGED <<transport, asterisk, session, rtp, pending, provider, setup,
                 attach, history>>

Forget ==
  /\ cleanup = "disconnected"
  /\ uuid' = FALSE
  /\ cleanup' = "forgotten"
  /\ UNCHANGED <<transport, asterisk, session, rtp, pending, conn, provider,
                 setup, attach, history>>

\* E-mails, tools after the call and the history are done.
RemoveSession ==
  /\ cleanup = "forgotten"
  /\ stored' = FALSE
  /\ cleanup' = "done"
  /\ UNCHANGED <<transport, asterisk, known, active, rtp, audio, provider,
                 setup, attach, history>>

CleanupStep ==
  \/ StopProvider \/ DestroyBridge \/ HangupMedia \/ HangupCaller
  \/ UnlistRtp \/ CloseRtp \/ Disconnect \/ Forget \/ RemoveSession

----------------------------------------------------------------------------
(* Events, and what happens of its own accord.                             *)

NextEvent == events # <<>>

MediaStarts ==
  /\ NextEvent /\ Head(events) = "media_start"
  /\ MediaArrives(Tail(events))
  /\ UNCHANGED <<transport, caller, bridge, session, rtp, uuid, conn, provider,
                 setup, cleanup, history>>

\* The answer that stores the session, or the channel's id in it, is on its way.
AnswerDue(e) ==
  IF e = "caller_end"
  THEN setup = "joined"
  ELSE attach = "added" \/ (setup = "created" /\ transport = "externalmedia")

\* Mutant: the call is looked up by its own id only.
FoundById(e) == e = "caller_end"

\* The call is looked up by its own id, then by the channels in the store.
FoundBy(e) == e = "caller_end" \/ known

\* StasisEnd and ChannelDestroyed of one channel.
ChannelEnds(e) ==
  /\ NextEvent /\ Head(events) = e
  /\ AnswerDue(e) /\ (e = "media_end" => ~known) => "end_first" \in Faults
  /\ events' = Tail(events)
  /\ IF FoundBy(e) THEN BeginCleanup ELSE UNCHANGED cleanup
  /\ missed' = (missed \/ IF e = "caller_end" THEN setup = "joined" ELSE ~known)
  /\ UNCHANGED <<transport, caller, media, bridge, members, session, rtp, audio,
                 provider, setup, attach, late, faulty>>

Deliver == MediaStarts \/ ChannelEnds("caller_end") \/ ChannelEnds("media_end")

CallerLeaves ==
  /\ caller = "up"
  /\ DropCaller
  /\ UNCHANGED <<transport, media, bridge, session, rtp, audio, provider, tasks,
                 history>>

MediaDies ==
  /\ media = "up"
  /\ Fault("media_dies")
  /\ DropMedia(events)
  /\ UNCHANGED <<transport, caller, bridge, session, rtp, audio, provider,
                 tasks, late, missed>>

\* Another call allocates a port, leaves the table, closes its socket.
NeighbourStep(n) ==
  /\ \/ socket[n] = NoPort /\ \E p \in Ports : Allocate(n, p)
     \/ /\ n \in listed
        /\ Unlist(n)
     \/ /\ n \notin listed /\ socket[n] # NoPort
        /\ Release(n) /\ UNCHANGED listed
  /\ UNCHANGED <<transport, asterisk, session, audio, provider, tasks, history>>

Next ==
  \/ SetupStep \/ AttachStep \/ ConnectionStep \/ Audio \/ CleanupStep
  \/ \E s \in Starters : StartStep(s)
  \/ ProviderDrops
  \/ Deliver \/ CallerLeaves \/ MediaDies
  \/ \E n \in Neighbours : NeighbourStep(n)

\* Every task goes on when the answer it awaits comes, events are delivered,
\* audio flows as long as the media is up.  A provider that is tried again and
\* again answers in the end.  Nobody has to hang up, and nothing has to fail.
Fairness ==
  /\ WF_vars(SetupStep) /\ WF_vars(AttachStep) /\ WF_vars(ConnectionStep)
  /\ WF_vars(Audio) /\ WF_vars(CleanupStep) /\ WF_vars(Deliver)
  /\ \A s \in Starters : WF_vars(StartStep(s)) /\ SF_vars(StartConnected(s))

Spec == Init /\ [][Next]_vars /\ Fairness

----------------------------------------------------------------------------
(* Properties.                                                             *)

\* Every open socket's port is reserved, and no two calls have one port: the
\* set-up that lost its channel and the cleanup may both close the call's RTP
\* session while other calls allocate (rtp_server.py, allocate_session and
\* cleanup_session).
PortsReserved ==
  /\ \A u \in Users : socket[u] # NoPort => socket[u] \in reserved
  /\ \A u, v \in Users : socket[u] = socket[v] /\ u # v => socket[u] = NoPort

\* A call never has two provider sessions open: the set-up, the media channel's
\* handler and every frame of audio ask for one (engine.py,
\* _ensure_provider_session_started), until the cleanup has taken the one there
\* was and no longer stops those that come later.
OneProvider == open <= 1

\* What is still there when everything about a call that was cleaned up has come
\* to rest.
Settled ==
  /\ cleanup = "done" /\ setup = "over" /\ attach \in {"none", "over"}
  /\ NoStart /\ events = <<>>
  /\ conn # "open" /\ (conn = "bound" => media = "up")
  /\ (conn = "closed" => media # "up")

Held ==
  {r \in Resources :
     CASE r = "caller"   -> caller = "up"
       [] r = "bridge"   -> bridge = "up"
       [] r = "media"    -> media = "up"
       [] r = "provider" -> open > 0 \/ registered
       [] r = "port"     -> socket[Call] # NoPort
       [] r = "conn"     -> conn = "bound"
       [] r = "uuid"     -> uuid
       [] r = "session"  -> stored}

\* The cleanup leaves nothing of the call behind but what a task acquired, or
\* learned of, after the cleanup had been there: not the caller, the bridge, the
\* media channel, the AudioSocket connection, the RTP port, the provider session,
\* whatever the call was doing when it ended (engine.py, _cleanup_call).
AllReleased == Settled => Held \subseteq late

\* A call that lost its caller or its media channel is torn down, unless the end
\* of the channel was reported before the code could find the call by it
\* (engine.py, _handle_stasis_end and _handle_channel_destroyed).
CallTornDown ==
  (stored /\ ~missed /\ (caller = "gone" \/ media = "gone"))
     ~> (cleanup = "done" \/ missed)

\* A caller who stays on the line reaches the agent: media in the bridge and a
\* provider session, whichever of the set-up, the channel's handler and the
\* frames of audio comes first, and though a provider does not start at first.
Served == "media" \in members /\ open > 0
CallerServed == <>(Served \/ caller = "gone" \/ faulty)

\* docs/RELEASE_CHECKLIST.md: "Clean hangup (no orphan channels / stuck Stasis
\* sessions)".
NoOrphanChannel == Settled => media # "up"
=============================================================================
