-------------------------- MODULE LifecycleProofs --------------------------
(***************************************************************************)
(* What holds of a call for every port range, any number of other calls    *)
(* and every combination of faults: the variables keep their types, an     *)
(* open socket keeps its port, one provider at a time is started, and what *)
(* is left after the cleanup was acquired, or learned of, behind its back. *)
(* The lemma of each invariant has a case per action that can disturb it,  *)
(* and collects the others.                                                *)
(***************************************************************************)
EXTENDS CallLifecycle, TLAPS

----------------------------------------------------------------------------
(* Types.                                                                  *)

\* The cleanup passes resources only.
LEMMA PassedResources == Passed \subseteq Resources
  BY DEF Passed, Resources

\* The channels, the bridge, and the connection keep their types.
LEMMA MediaTypesStep == MediaTypes /\ [Next]_vars => MediaTypes'
<1> SUFFICES ASSUME MediaTypes, [Next]_vars PROVE MediaTypes'
  OBVIOUS
<1>1. CASE Answer \/ BridgeRefused \/ JoinFails \/ StoreSession \/ Configure
          \/ NoPortForCall \/ ExternalMediaRefused \/ Unbound
          \/ AudioSocketRefused
  BY <1>1 DEF Answer, BridgeRefused, JoinFails, StoreSession, Configure,
    NoPortForCall, ExternalMediaRefused, Unbound, AudioSocketRefused,
    asterisk, audio, MediaTypes
<1>2. CASE Attached \/ AttachFails \/ Originated \/ MediaAdded \/ Audio
          \/ StopProvider \/ UnlistRtp \/ CloseRtp \/ Forget
  BY <1>2 DEF Attached, AttachFails, Originated, MediaAdded, Audio,
    StopProvider, UnlistRtp, CloseRtp, Forget, asterisk, audio, MediaTypes
<1>3. CASE RemoveSession \/ (\E s \in Starters : StartLooks(s))
          \/ (\E s \in Starters : StartConnects(s))
          \/ (\E s \in Starters : StartWithoutSession(s))
          \/ (\E s \in Starters : StartConnected(s))
          \/ (\E s \in Starters : StartFails(s))
          \/ ChannelEnds("caller_end") \/ ChannelEnds("media_end")
          \/ (\E n \in Neighbours : NeighbourStep(n))
  BY <1>3 DEF RemoveSession, StartLooks, StartConnects, StartWithoutSession,
    StartConnected, StartFails, ChannelEnds, NeighbourStep, asterisk, audio,
    MediaTypes
<1>4. CASE CreateBridge
  BY <1>4 DEF CreateBridge, audio, MediaTypes
<1>5. CASE JoinCaller
  BY <1>5 DEF JoinCaller, audio, MediaTypes
<1>6. CASE RequestExternalMedia
  BY <1>6 DEF RequestExternalMedia, Ports, Allocate, Call, Gains, Report,
    Fault, audio, MediaTypes
<1>7. CASE RequestAudioSocket
  BY <1>7 DEF RequestAudioSocket, Report, Fault, MediaTypes
<1>8. CASE MediaCreated
  BY <1>8 DEF MediaCreated, Save, Gains, AddMedia, CanAttach, audio,
    MediaTypes
<1>9. CASE RetryFinds
  BY <1>9 DEF RetryFinds, Finds, TryAttach, AddMedia, CanAttach, DropMedia,
    MediaTypes
<1>10. CASE RetryExhausted
  BY <1>10 DEF RetryExhausted, Finds, Fault, DropMedia, audio, MediaTypes
<1>11. CASE MediaNotAdded
  BY <1>11 DEF MediaNotAdded, DropMedia, audio, MediaTypes
<1>12. CASE BindConnection
  BY <1>12 DEF BindConnection, asterisk, MediaTypes
<1>13. CASE RejectConnection
  BY <1>13 DEF RejectConnection, Fault, asterisk, MediaTypes
<1>14. CASE ConnectionEnds
  BY <1>14 DEF ConnectionEnds, asterisk, MediaTypes
<1>15. CASE ChannelFollows
  BY <1>15 DEF ChannelFollows, DropMedia, audio, MediaTypes
<1>16. CASE DestroyBridge
  BY <1>16 DEF DestroyBridge, audio, MediaTypes
<1>17. CASE HangupMedia
  BY <1>17 DEF HangupMedia, DropMedia, audio, MediaTypes
<1>18. CASE HangupCaller
  BY <1>18 DEF HangupCaller, DropCaller, audio, Report, MediaTypes
<1>19. CASE Disconnect
  BY <1>19 DEF Disconnect, asterisk, MediaTypes
<1>20. CASE ProviderDrops
  BY <1>20 DEF ProviderDrops, DropCaller, audio, Report, MediaTypes
<1>21. CASE MediaStarts
  BY <1>21 DEF MediaStarts, NextEvent, MediaArrives, Finds, TryAttach,
    AddMedia, CanAttach, DropMedia, MediaTypes
<1>22. CASE CallerLeaves
  BY <1>22 DEF CallerLeaves, DropCaller, audio, Report, MediaTypes
<1>23. CASE MediaDies
  BY <1>23 DEF MediaDies, Fault, DropMedia, audio, MediaTypes
<1>24. CASE UNCHANGED vars
  BY <1>24 DEF vars, asterisk, audio, MediaTypes
<1> QED
  BY <1>1, <1>2, <1>3, <1>4, <1>5, <1>6, <1>7, <1>8, <1>9, <1>10, <1>11,
    <1>12, <1>13, <1>14, <1>15, <1>16, <1>17, <1>18, <1>19, <1>20, <1>21,
    <1>22, <1>23, <1>24 DEF Next, SetupStep,
    AttachStep, ConnectionStep, CleanupStep, StartStep, Deliver

\* The queue holds events.
LEMMA EventTypesStep == EventTypes /\ [Next]_vars => EventTypes'
<1> SUFFICES ASSUME EventTypes, [Next]_vars PROVE EventTypes'
  OBVIOUS
<1>1. CASE Answer \/ CreateBridge \/ BridgeRefused \/ JoinCaller \/ JoinFails
          \/ StoreSession \/ Configure \/ NoPortForCall
          \/ ExternalMediaRefused
  BY <1>1 DEF Answer, CreateBridge, BridgeRefused, JoinCaller, JoinFails,
    StoreSession, Configure, NoPortForCall, ExternalMediaRefused, asterisk,
    EventTypes
<1>2. CASE Unbound \/ AudioSocketRefused \/ MediaCreated \/ Attached
          \/ AttachFails \/ Originated \/ MediaAdded \/ BindConnection
          \/ RejectConnection
  BY <1>2 DEF Unbound, AudioSocketRefused, MediaCreated, Attached,
    AttachFails, Originated, MediaAdded, BindConnection, RejectConnection,
    asterisk, EventTypes
<1>3. CASE ConnectionEnds \/ Audio \/ StopProvider \/ DestroyBridge
          \/ UnlistRtp \/ CloseRtp \/ Disconnect \/ Forget \/ RemoveSession
  BY <1>3 DEF ConnectionEnds, Audio, StopProvider, DestroyBridge, UnlistRtp,
    CloseRtp, Disconnect, Forget, RemoveSession, asterisk, EventTypes
<1>4. CASE (\E s \in Starters : StartLooks(s))
          \/ (\E s \in Starters : StartConnects(s))
          \/ (\E s \in Starters : StartWithoutSession(s))
          \/ (\E s \in Starters : StartConnected(s))
          \/ (\E s \in Starters : StartFails(s))
          \/ (\E n \in Neighbours : NeighbourStep(n))
  BY <1>4 DEF StartLooks, StartConnects, StartWithoutSession,
    StartConnected, StartFails, NeighbourStep, asterisk, EventTypes
<1>5. CASE RequestExternalMedia
  BY <1>5 DEF RequestExternalMedia, Ports, Allocate, Call, Gains, Report,
    Fault, EventTypes
<1>6. CASE RequestAudioSocket
  BY <1>6 DEF RequestAudioSocket, Report, Fault, EventTypes
<1>7. CASE RetryFinds
  BY <1>7 DEF RetryFinds, Finds, TryAttach, AddMedia, CanAttach, DropMedia,
    EventTypes
<1>8. CASE RetryExhausted
  BY <1>8 DEF RetryExhausted, Finds, Fault, DropMedia, EventTypes
<1>9. CASE MediaNotAdded
  BY <1>9 DEF MediaNotAdded, DropMedia, EventTypes
<1>10. CASE ChannelFollows
  BY <1>10 DEF ChannelFollows, DropMedia, EventTypes
<1>11. CASE HangupMedia
  BY <1>11 DEF HangupMedia, DropMedia, EventTypes
<1>12. CASE HangupCaller
  BY <1>12 DEF HangupCaller, DropCaller, Report, EventTypes
<1>13. CASE ProviderDrops
  BY <1>13 DEF ProviderDrops, DropCaller, Report, EventTypes
<1>14. CASE MediaStarts
  <2>1. Tail(events) \in Seq({"caller_end", "media_start", "media_end"})
    BY <1>14 DEF MediaStarts, NextEvent, EventTypes
  <2> QED
    BY <1>14, <2>1 DEF MediaStarts, MediaArrives, TryAttach, DropMedia, EventTypes
<1>15. CASE ChannelEnds("caller_end") \/ ChannelEnds("media_end")
  BY <1>15 DEF ChannelEnds, NextEvent, AnswerDue, FoundBy, BeginCleanup,
    EventTypes
<1>16. CASE CallerLeaves
  BY <1>16 DEF CallerLeaves, DropCaller, Report, EventTypes
<1>17. CASE MediaDies
  BY <1>17 DEF MediaDies, Fault, DropMedia, EventTypes
<1>18. CASE UNCHANGED vars
  BY <1>18 DEF vars, asterisk, EventTypes
<1> QED
  BY <1>1, <1>2, <1>3, <1>4, <1>5, <1>6, <1>7, <1>8, <1>9, <1>10, <1>11,
    <1>12, <1>13, <1>14, <1>15, <1>16, <1>17, <1>18 DEF Next, SetupStep,
    AttachStep, ConnectionStep, CleanupStep, StartStep, Deliver

\* The port pool keeps its types.
LEMMA RtpTypesStep == RtpTypes /\ [Next]_vars => RtpTypes'
<1> SUFFICES ASSUME RtpTypes, [Next]_vars PROVE RtpTypes'
  OBVIOUS
<1>1. CASE Answer \/ CreateBridge \/ BridgeRefused \/ JoinCaller \/ JoinFails
          \/ StoreSession \/ Configure \/ RequestAudioSocket
          \/ AudioSocketRefused
  BY <1>1 DEF Answer, CreateBridge, BridgeRefused, JoinCaller, JoinFails,
    StoreSession, Configure, RequestAudioSocket, AudioSocketRefused, rtp,
    RtpTypes, Users
<1>2. CASE MediaCreated \/ Attached \/ AttachFails \/ Originated
          \/ RetryFinds \/ RetryExhausted \/ MediaAdded \/ MediaNotAdded
          \/ BindConnection
  BY <1>2 DEF MediaCreated, Attached, AttachFails, Originated, RetryFinds,
    RetryExhausted, MediaAdded, MediaNotAdded, BindConnection, rtp, RtpTypes,
    Users
<1>3. CASE RejectConnection \/ ConnectionEnds \/ ChannelFollows \/ Audio
          \/ StopProvider \/ DestroyBridge \/ HangupMedia \/ HangupCaller
          \/ Disconnect
  BY <1>3 DEF RejectConnection, ConnectionEnds, ChannelFollows, Audio,
    StopProvider, DestroyBridge, HangupMedia, HangupCaller, Disconnect, rtp,
    RtpTypes, Users
<1>4. CASE Forget \/ RemoveSession \/ (\E s \in Starters : StartLooks(s))
          \/ (\E s \in Starters : StartConnects(s))
          \/ (\E s \in Starters : StartWithoutSession(s))
          \/ (\E s \in Starters : StartConnected(s))
          \/ (\E s \in Starters : StartFails(s)) \/ ProviderDrops
          \/ MediaStarts
  BY <1>4 DEF Forget, RemoveSession, StartLooks, StartConnects,
    StartWithoutSession, StartConnected, StartFails, ProviderDrops,
    MediaStarts, rtp, RtpTypes, Users
<1>5. CASE ChannelEnds("caller_end") \/ ChannelEnds("media_end")
          \/ CallerLeaves \/ MediaDies
  BY <1>5 DEF ChannelEnds, CallerLeaves, MediaDies, rtp, RtpTypes, Users
<1>6. CASE RequestExternalMedia
  BY <1>6 DEF RequestExternalMedia, Ports, Allocate, Call, Gains, Report,
    Fault, RtpTypes, Users
<1>7. CASE NoPortForCall
  BY <1>7 DEF NoPortForCall, Ports, RtpTypes, Users
<1>8. CASE ExternalMediaRefused
  BY <1>8 DEF ExternalMediaRefused, Call, Unlist, rtp, RtpTypes, Users
<1>9. CASE Unbound
  BY <1>9 DEF Unbound, Release, Call, NoPort, RtpTypes, Users
<1>10. CASE UnlistRtp
  BY <1>10 DEF UnlistRtp, Call, Unlist, rtp, RtpTypes, Users
<1>11. CASE CloseRtp
  BY <1>11 DEF CloseRtp, Release, Call, NoPort, RtpTypes, Users
<1>12. CASE \E n \in Neighbours : NeighbourStep(n)
  <2> PICK n \in Neighbours : NeighbourStep(n)
    BY <1>12
  <2> n \in Users
    BY DEF Users
  <2>1. CASE \E p \in Ports : Allocate(n, p)
    BY <2>1 DEF Allocate, RtpTypes
  <2>2. CASE Unlist(n)
    BY <2>2 DEF Unlist, RtpTypes
  <2>3. CASE Release(n) /\ UNCHANGED listed
    BY <2>3 DEF Release, RtpTypes
  <2> QED
    BY <2>1, <2>2, <2>3 DEF NeighbourStep
<1>13. CASE UNCHANGED vars
  BY <1>13 DEF vars, rtp, RtpTypes, Users
<1> QED
  BY <1>1, <1>2, <1>3, <1>4, <1>5, <1>6, <1>7, <1>8, <1>9, <1>10, <1>11,
    <1>12, <1>13 DEF Next, SetupStep,
    AttachStep, ConnectionStep, CleanupStep, StartStep, Deliver

\* The flags of the session, of the tables and of the history are Booleans.
LEMMA FlagTypesStep == FlagTypes /\ [Next]_vars => FlagTypes'
<1> SUFFICES ASSUME FlagTypes, [Next]_vars PROVE FlagTypes'
  OBVIOUS
<1>1. CASE Answer \/ CreateBridge \/ JoinCaller \/ JoinFails
          \/ ExternalMediaRefused \/ Unbound \/ AudioSocketRefused
          \/ AttachFails \/ MediaNotAdded
  BY <1>1 DEF Answer, CreateBridge, JoinCaller, JoinFails,
    ExternalMediaRefused, Unbound, AudioSocketRefused, AttachFails,
    MediaNotAdded, session, audio, provider, history, FlagTypes
<1>2. CASE BindConnection \/ ConnectionEnds \/ ChannelFollows \/ Audio
          \/ DestroyBridge \/ HangupMedia \/ HangupCaller \/ UnlistRtp
          \/ CloseRtp
  BY <1>2 DEF BindConnection, ConnectionEnds, ChannelFollows, Audio,
    DestroyBridge, HangupMedia, HangupCaller, UnlistRtp, CloseRtp, session,
    audio, provider, history, FlagTypes
<1>3. CASE (\E s \in Starters : StartLooks(s)) \/ CallerLeaves
          \/ (\E n \in Neighbours : NeighbourStep(n))
  BY <1>3 DEF StartLooks, CallerLeaves, NeighbourStep, session, audio,
    provider, history, FlagTypes
<1>4. CASE BridgeRefused
  BY <1>4 DEF BridgeRefused, Fault, session, audio, provider, FlagTypes
<1>5. CASE StoreSession
  BY <1>5 DEF StoreSession, Save, Gains, audio, provider, FlagTypes
<1>6. CASE Configure
  BY <1>6 DEF Configure, Save, Gains, audio, provider, FlagTypes
<1>7. CASE RequestExternalMedia
  BY <1>7 DEF RequestExternalMedia, Ports, Allocate, Call, Gains, Report,
    Fault, session, audio, provider, FlagTypes
<1>8. CASE NoPortForCall
  BY <1>8 DEF NoPortForCall, Ports, session, audio, provider, FlagTypes
<1>9. CASE RequestAudioSocket
  BY <1>9 DEF RequestAudioSocket, Report, Fault, session, provider,
    FlagTypes
<1>10. CASE MediaCreated
  BY <1>10 DEF MediaCreated, Save, Gains, AddMedia, CanAttach, audio,
    provider, FlagTypes
<1>11. CASE Attached
  BY <1>11 DEF Attached, Save, Gains, Asks, EnsureStart, audio, NoStart,
    Starters, FlagTypes
<1>12. CASE Originated
  BY <1>12 DEF Originated, Gains, session, provider, FlagTypes
<1>13. CASE RetryFinds
  BY <1>13 DEF RetryFinds, Finds, TryAttach, session, provider, history,
    AddMedia, CanAttach, DropMedia, FlagTypes
<1>14. CASE RetryExhausted
  BY <1>14 DEF RetryExhausted, Finds, Fault, DropMedia, session, audio,
    provider, FlagTypes
<1>15. CASE MediaAdded
  BY <1>15 DEF MediaAdded, Save, Gains, Asks, EnsureStart, audio, NoStart,
    Starters, FlagTypes
<1>16. CASE RejectConnection
  BY <1>16 DEF RejectConnection, Fault, session, provider, FlagTypes
<1>17. CASE StopProvider
  BY <1>17 DEF StopProvider, Starters, session, audio, history, FlagTypes
<1>18. CASE Disconnect
  BY <1>18 DEF Disconnect, session, provider, history, FlagTypes
<1>19. CASE Forget
  BY <1>19 DEF Forget, session, provider, history, FlagTypes
<1>20. CASE RemoveSession
  BY <1>20 DEF RemoveSession, audio, provider, history, FlagTypes
<1>21. CASE \E s \in Starters : StartConnects(s)
  BY <1>21 DEF StartConnects, Become, Save, Gains, audio, FlagTypes
<1>22. CASE \E s \in Starters : StartWithoutSession(s)
  BY <1>22 DEF StartWithoutSession, Become, session, audio, history,
    FlagTypes
<1>23. CASE \E s \in Starters : StartConnected(s)
  BY <1>23 DEF StartConnected, Save, Gains, Become, audio, FlagTypes
<1>24. CASE \E s \in Starters : StartFails(s)
  BY <1>24 DEF StartFails, Become, session, audio, history, FlagTypes
<1>25. CASE ProviderDrops
  BY <1>25 DEF ProviderDrops, DropCaller, audio, history, Report, FlagTypes
<1>26. CASE MediaStarts
  BY <1>26 DEF MediaStarts, NextEvent, MediaArrives, session, provider,
    history, Finds, TryAttach, AddMedia, CanAttach, DropMedia, FlagTypes
<1>27. CASE ChannelEnds("caller_end") \/ ChannelEnds("media_end")
  BY <1>27 DEF ChannelEnds, NextEvent, AnswerDue, FoundBy, BeginCleanup,
    session, audio, provider, FlagTypes
<1>28. CASE MediaDies
  BY <1>28 DEF MediaDies, Fault, DropMedia, session, audio, provider,
    FlagTypes
<1>29. CASE UNCHANGED vars
  BY <1>29 DEF vars, session, audio, provider, history, FlagTypes
<1> QED
  BY <1>1, <1>2, <1>3, <1>4, <1>5, <1>6, <1>7, <1>8, <1>9, <1>10, <1>11,
    <1>12, <1>13, <1>14, <1>15, <1>16, <1>17, <1>18, <1>19, <1>20, <1>21,
    <1>22, <1>23, <1>24, <1>25, <1>26, <1>27, <1>28, <1>29 DEF Next, SetupStep,
    AttachStep, ConnectionStep, CleanupStep, StartStep, Deliver

\* The starts and the tasks keep to their stages.
LEMMA TaskTypesStep == TaskTypes /\ [Next]_vars => TaskTypes'
<1> SUFFICES ASSUME TaskTypes, [Next]_vars PROVE TaskTypes'
  OBVIOUS
<1>1. CASE BindConnection \/ RejectConnection \/ ConnectionEnds
          \/ ChannelFollows \/ CallerLeaves \/ MediaDies
          \/ (\E n \in Neighbours : NeighbourStep(n))
  BY <1>1 DEF BindConnection, RejectConnection, ConnectionEnds,
    ChannelFollows, CallerLeaves, MediaDies, NeighbourStep, provider, tasks,
    history, TaskTypes
<1>2. CASE Answer
  BY <1>2, PassedResources DEF Answer, provider, history, SetupState,
    TaskTypes
<1>3. CASE CreateBridge
  BY <1>3, PassedResources DEF CreateBridge, provider, history, SetupState,
    TaskTypes
<1>4. CASE BridgeRefused
  BY <1>4, PassedResources DEF BridgeRefused, Fault, provider, SetupState,
    TaskTypes
<1>5. CASE JoinCaller
  BY <1>5, PassedResources DEF JoinCaller, provider, history, SetupState,
    TaskTypes
<1>6. CASE JoinFails
  BY <1>6, PassedResources DEF JoinFails, provider, history, SetupState,
    TaskTypes
<1>7. CASE StoreSession
  BY <1>7, PassedResources DEF StoreSession, Save, Gains, provider,
    SetupState, TaskTypes
<1>8. CASE Configure
  BY <1>8, PassedResources DEF Configure, Save, Gains, provider, SetupState,
    TaskTypes
<1>9. CASE RequestExternalMedia
  BY <1>9, PassedResources DEF RequestExternalMedia, Ports, Allocate, Call,
    Gains, Report, Fault, provider, SetupState, TaskTypes
<1>10. CASE NoPortForCall
  BY <1>10, PassedResources DEF NoPortForCall, Ports, provider, SetupState,
    TaskTypes
<1>11. CASE RequestAudioSocket
  BY <1>11, PassedResources DEF RequestAudioSocket, Report, Fault, provider,
    SetupState, TaskTypes
<1>12. CASE ExternalMediaRefused
  BY <1>12, PassedResources DEF ExternalMediaRefused, Call, Unlist,
    provider, history, SetupState, TaskTypes
<1>13. CASE Unbound
  BY <1>13, PassedResources DEF Unbound, Release, Call, provider, history,
    NoPort, SetupState, TaskTypes
<1>14. CASE AudioSocketRefused
  BY <1>14, PassedResources DEF AudioSocketRefused, BeginCleanup, provider,
    history, SetupState, CleanupState, TaskTypes
<1>15. CASE MediaCreated
  BY <1>15, PassedResources DEF MediaCreated, Save, Gains, AddMedia,
    CanAttach, provider, SetupState, TaskTypes
<1>16. CASE Attached
  BY <1>16, PassedResources DEF Attached, Save, Gains, Asks, EnsureStart,
    NoStart, Starters, SetupState, TaskTypes
<1>17. CASE AttachFails
  BY <1>17, PassedResources DEF AttachFails, provider, history, SetupState,
    TaskTypes
<1>18. CASE Originated
  BY <1>18, PassedResources DEF Originated, Gains, provider, SetupState,
    TaskTypes
<1>19. CASE RetryFinds
  BY <1>19, PassedResources DEF RetryFinds, Finds, TryAttach, provider,
    history, AddMedia, CanAttach, DropMedia, AttachState, TaskTypes
<1>20. CASE RetryExhausted
  BY <1>20, PassedResources DEF RetryExhausted, Finds, Fault, DropMedia,
    provider, AttachState, TaskTypes
<1>21. CASE MediaAdded
  BY <1>21, PassedResources DEF MediaAdded, Save, Gains, Asks, EnsureStart,
    NoStart, Starters, AttachState, TaskTypes
<1>22. CASE MediaNotAdded
  BY <1>22, PassedResources DEF MediaNotAdded, DropMedia, provider, history,
    AttachState, TaskTypes
<1>23. CASE Audio
  BY <1>23, PassedResources DEF Audio, Flowing, NoStart, EnsureStart, Gains,
    Asks, tasks, Call, Starters, TaskTypes
<1>24. CASE StopProvider
  BY <1>24, PassedResources DEF StopProvider, Starters, history,
    CleanupState, TaskTypes
<1>25. CASE DestroyBridge
  BY <1>25, PassedResources DEF DestroyBridge, provider, history,
    CleanupState, TaskTypes
<1>26. CASE HangupMedia
  BY <1>26, PassedResources DEF HangupMedia, DropMedia, provider, history,
    CleanupState, TaskTypes
<1>27. CASE HangupCaller
  BY <1>27, PassedResources DEF HangupCaller, DropCaller, provider, history,
    Report, CleanupState, TaskTypes
<1>28. CASE UnlistRtp
  BY <1>28, PassedResources DEF UnlistRtp, Call, Unlist, provider, history,
    CleanupState, TaskTypes
<1>29. CASE CloseRtp
  BY <1>29, PassedResources DEF CloseRtp, Release, Call, provider, history,
    NoPort, CleanupState, TaskTypes
<1>30. CASE Disconnect
  BY <1>30, PassedResources DEF Disconnect, provider, history, CleanupState,
    TaskTypes
<1>31. CASE Forget
  BY <1>31, PassedResources DEF Forget, provider, history, CleanupState,
    TaskTypes
<1>32. CASE RemoveSession
  BY <1>32, PassedResources DEF RemoveSession, provider, history,
    CleanupState, TaskTypes
<1>33. CASE \E s \in Starters : StartLooks(s)
  BY <1>33, PassedResources DEF StartLooks, Become, tasks, history,
    TaskTypes
<1>34. CASE \E s \in Starters : StartConnects(s)
  BY <1>34, PassedResources DEF StartConnects, Become, Save, Gains, tasks,
    TaskTypes
<1>35. CASE \E s \in Starters : StartWithoutSession(s)
  BY <1>35, PassedResources DEF StartWithoutSession, Become, tasks, history,
    TaskTypes
<1>36. CASE \E s \in Starters : StartConnected(s)
  BY <1>36, PassedResources DEF StartConnected, Save, Gains, Become, tasks,
    TaskTypes
<1>37. CASE \E s \in Starters : StartFails(s)
  BY <1>37, PassedResources DEF StartFails, Become, tasks, history,
    TaskTypes
<1>38. CASE ProviderDrops
  BY <1>38, PassedResources DEF ProviderDrops, DropCaller, tasks, history,
    Report, TaskTypes
<1>39. CASE MediaStarts
  BY <1>39, PassedResources DEF MediaStarts, NextEvent, MediaArrives,
    provider, history, Finds, TryAttach, AddMedia, CanAttach, DropMedia,
    AttachState, TaskTypes
<1>40. CASE ChannelEnds("caller_end") \/ ChannelEnds("media_end")
  BY <1>40, PassedResources DEF ChannelEnds, NextEvent, AnswerDue, FoundBy,
    BeginCleanup, provider, CleanupState, TaskTypes
<1>41. CASE UNCHANGED vars
  BY <1>41 DEF vars, provider, tasks, history, TaskTypes
<1> QED
  BY <1>1, <1>2, <1>3, <1>4, <1>5, <1>6, <1>7, <1>8, <1>9, <1>10, <1>11,
    <1>12, <1>13, <1>14, <1>15, <1>16, <1>17, <1>18, <1>19, <1>20, <1>21,
    <1>22, <1>23, <1>24, <1>25, <1>26, <1>27, <1>28, <1>29, <1>30, <1>31,
    <1>32, <1>33, <1>34, <1>35, <1>36, <1>37, <1>38, <1>39, <1>40, <1>41 DEF Next, SetupStep,
    AttachStep, ConnectionStep, CleanupStep, StartStep, Deliver

\* The channels, the session, the ports and every task keep their types.
THEOREM LifecycleTypes == Spec => []TypeOK
<1>1. Init => MediaTypes /\ FlagTypes
  BY DEF Init, MediaTypes, FlagTypes
<1>4. Init => EventTypes
  BY DEF Init, EventTypes
<1>2. Init => RtpTypes
  BY DEF Init, RtpTypes
<1>3. Init => TaskTypes
  BY DEF Init, TaskTypes, SetupState, AttachState, CleanupState
<1> QED
  BY <1>1, <1>2, <1>3, <1>4, MediaTypesStep, EventTypesStep, RtpTypesStep,
     FlagTypesStep, TaskTypesStep, PTL DEF Spec, TypeOK

----------------------------------------------------------------------------
(* The RTP ports.                                                          *)

\* A port is bound by one call at a time.
LEMMA PortsStep == PortsReserved /\ TypeOK /\ [Next]_vars => PortsReserved'
<1> SUFFICES ASSUME PortsReserved, TypeOK, [Next]_vars PROVE PortsReserved'
  OBVIOUS
<1>1. CASE Answer \/ CreateBridge \/ BridgeRefused \/ JoinCaller \/ JoinFails
          \/ StoreSession \/ Configure \/ RequestAudioSocket
          \/ AudioSocketRefused
  BY <1>1 DEF Answer, CreateBridge, BridgeRefused, JoinCaller, JoinFails,
    StoreSession, Configure, RequestAudioSocket, AudioSocketRefused, rtp,
    PortsReserved
<1>2. CASE MediaCreated \/ Attached \/ AttachFails \/ Originated
          \/ RetryFinds \/ RetryExhausted \/ MediaAdded \/ MediaNotAdded
          \/ BindConnection
  BY <1>2 DEF MediaCreated, Attached, AttachFails, Originated, RetryFinds,
    RetryExhausted, MediaAdded, MediaNotAdded, BindConnection, rtp,
    PortsReserved
<1>3. CASE RejectConnection \/ ConnectionEnds \/ ChannelFollows \/ Audio
          \/ StopProvider \/ DestroyBridge \/ HangupMedia \/ HangupCaller
          \/ Disconnect
  BY <1>3 DEF RejectConnection, ConnectionEnds, ChannelFollows, Audio,
    StopProvider, DestroyBridge, HangupMedia, HangupCaller, Disconnect, rtp,
    PortsReserved
<1>4. CASE Forget \/ RemoveSession \/ (\E s \in Starters : StartLooks(s))
          \/ (\E s \in Starters : StartConnects(s))
          \/ (\E s \in Starters : StartWithoutSession(s))
          \/ (\E s \in Starters : StartConnected(s))
          \/ (\E s \in Starters : StartFails(s)) \/ ProviderDrops
          \/ MediaStarts
  BY <1>4 DEF Forget, RemoveSession, StartLooks, StartConnects,
    StartWithoutSession, StartConnected, StartFails, ProviderDrops,
    MediaStarts, rtp, PortsReserved
<1>5. CASE ChannelEnds("caller_end") \/ ChannelEnds("media_end")
          \/ CallerLeaves \/ MediaDies
  BY <1>5 DEF ChannelEnds, CallerLeaves, MediaDies, rtp, PortsReserved
<1>6. CASE RequestExternalMedia
  BY <1>6 DEF RequestExternalMedia, Ports, Allocate, Call, Gains, Report,
    Fault, TypeOK, RtpTypes, Users, PortsReserved
<1>7. CASE NoPortForCall
  BY <1>7 DEF NoPortForCall, Ports, PortsReserved
<1>8. CASE ExternalMediaRefused
  BY <1>8 DEF ExternalMediaRefused, Call, Unlist, rtp, TypeOK, RtpTypes,
    Users, PortsReserved
<1>9. CASE Unbound
  BY <1>9 DEF Unbound, Release, Call, NoPort, TypeOK, RtpTypes, Users,
    PortsReserved
<1>10. CASE UnlistRtp
  BY <1>10 DEF UnlistRtp, Call, Unlist, rtp, TypeOK, RtpTypes, Users,
    PortsReserved
<1>11. CASE CloseRtp
  BY <1>11 DEF CloseRtp, Release, Call, NoPort, TypeOK, RtpTypes, Users,
    PortsReserved
<1>12. CASE \E n \in Neighbours : NeighbourStep(n)
  <2> PICK n \in Neighbours : NeighbourStep(n)
    BY <1>12
  <2> n \in Users
    BY DEF Users
  <2>1. CASE \E p \in Ports : Allocate(n, p)
    BY <2>1 DEF Allocate, TypeOK, RtpTypes, Ports, NoPort, PortsReserved
  <2>2. CASE Unlist(n)
    BY <2>2 DEF Unlist, PortsReserved
  <2>3. CASE Release(n) /\ UNCHANGED listed
    BY <2>3 DEF Release, TypeOK, RtpTypes, NoPort, PortsReserved
  <2> QED
    BY <2>1, <2>2, <2>3 DEF NeighbourStep
<1>13. CASE UNCHANGED vars
  BY <1>13 DEF vars, rtp, PortsReserved
<1> QED
  BY <1>1, <1>2, <1>3, <1>4, <1>5, <1>6, <1>7, <1>8, <1>9, <1>10, <1>11,
    <1>12, <1>13 DEF Next, SetupStep,
    AttachStep, ConnectionStep, CleanupStep, StartStep, Deliver

\* An open socket's port is reserved and belongs to one call.
THEOREM PortsStayReserved == Spec => []PortsReserved
<1>1. Init => PortsReserved
  BY DEF Init, PortsReserved
<1> QED
  BY <1>1, LifecycleTypes, PortsStep, PTL DEF Spec

----------------------------------------------------------------------------
(* The provider.                                                           *)

\* The stages in which the cleanup has dealt with the provider, the bridge, the
\* media channel, the caller, the port, the connection and the mappings.
ProviderPassed == CleanupState \ {"no", "begun"}
BridgePassed   == ProviderPassed \ {"stopped"}
MediaPassed    == BridgePassed \ {"unbridged"}
CallerPassed   == MediaPassed \ {"unmediated"}
PortPassed     == CallerPassed \ {"hungup"}
ConnPassed     == PortPassed \ {"unbinding", "unbound"}
UuidPassed     == ConnPassed \ {"disconnected"}

\* What is acquired in these stages is late.
LEMMA PassedMembers ==
  /\ cleanup \in ProviderPassed => "provider" \in Passed
  /\ cleanup \in MediaPassed => "media" \in Passed
  /\ cleanup \in PortPassed => "port" \in Passed
  /\ cleanup \in UuidPassed => "uuid" \in Passed
  /\ cleanup = "done" => "session" \in Passed
  BY DEF Passed, ProviderPassed, BridgePassed, MediaPassed, CallerPassed,
    PortPassed, ConnPassed, UuidPassed, CleanupState

\* One start at a time, only while no session is open, and of a registered
\* provider; a start that comes after the cleanup is late.
ProviderInv ==
  /\ \A s, t \in Starters : start[s] # "none" /\ start[t] # "none" => s = t
  /\ \A s \in Starters : start[s] # "none" => open = 0
  /\ \A s \in Starters : start[s] = "connecting" => registered
  /\ open \in {0, 1}
  /\ open > 0 => active /\ registered
  /\ cleanup \in ProviderPassed /\ (open > 0 \/ registered \/ ~NoStart)
       => "provider" \in late

\* Every step keeps one start or one session.
LEMMA ProviderStep == ProviderInv /\ TypeOK /\ [Next]_vars => ProviderInv'
<1> SUFFICES ASSUME ProviderInv, TypeOK, [Next]_vars PROVE ProviderInv'
  OBVIOUS
<1>1. CASE Answer \/ CreateBridge \/ BridgeRefused \/ JoinCaller \/ JoinFails
          \/ NoPortForCall \/ RequestAudioSocket \/ ExternalMediaRefused
          \/ Unbound
  BY <1>1 DEF Answer, CreateBridge, BridgeRefused, JoinCaller, JoinFails,
    NoPortForCall, RequestAudioSocket, ExternalMediaRefused, Unbound, session,
    provider, history, ProviderInv, NoStart
<1>2. CASE AttachFails \/ RetryFinds \/ RetryExhausted \/ MediaNotAdded
          \/ BindConnection \/ RejectConnection \/ ConnectionEnds
          \/ ChannelFollows \/ MediaStarts
  BY <1>2 DEF AttachFails, RetryFinds, RetryExhausted, MediaNotAdded,
    BindConnection, RejectConnection, ConnectionEnds, ChannelFollows,
    MediaStarts, session, provider, tasks, history, ProviderInv, NoStart
<1>3. CASE CallerLeaves \/ MediaDies
          \/ (\E n \in Neighbours : NeighbourStep(n))
  BY <1>3 DEF CallerLeaves, MediaDies, NeighbourStep, session, provider,
    tasks, history, ProviderInv, NoStart
<1>4. CASE StoreSession
  BY <1>4, PassedMembers DEF StoreSession, Save, Gains, provider,
    ProviderInv, NoStart
<1>5. CASE Configure
  BY <1>5, PassedMembers DEF Configure, Save, Gains, provider, ProviderInv,
    NoStart
<1>6. CASE RequestExternalMedia
  BY <1>6, PassedMembers DEF RequestExternalMedia, Ports, Allocate, Call,
    Gains, Report, Fault, session, provider, ProviderInv, NoStart
<1>7. CASE AudioSocketRefused
  BY <1>7, PassedMembers DEF AudioSocketRefused, BeginCleanup, session,
    provider, history, ProviderPassed, CleanupState, ProviderInv, NoStart
<1>8. CASE MediaCreated
  BY <1>8, PassedMembers DEF MediaCreated, Save, Gains, AddMedia, CanAttach,
    provider, ProviderInv, NoStart
<1>9. CASE Attached
  BY <1>9, PassedMembers DEF Attached, Save, Gains, Asks, EnsureStart,
    NoStart, TypeOK, TaskTypes, ProviderInv
<1>10. CASE Originated
  BY <1>10, PassedMembers DEF Originated, Gains, session, provider,
    ProviderInv, NoStart
<1>11. CASE MediaAdded
  BY <1>11, PassedMembers DEF MediaAdded, Save, Gains, Asks, EnsureStart,
    NoStart, TypeOK, TaskTypes, ProviderInv
<1>12. CASE Audio
  BY <1>12, PassedMembers DEF Audio, Flowing, NoStart, EnsureStart, Gains,
    Asks, session, tasks, Call, TypeOK, TaskTypes, ProviderInv
<1>13. CASE StopProvider
  BY <1>13, PassedMembers DEF StopProvider, session, history, TypeOK,
    TaskTypes, ProviderPassed, CleanupState, ProviderInv, NoStart
<1>14. CASE DestroyBridge
  BY <1>14, PassedMembers DEF DestroyBridge, session, provider, history,
    ProviderPassed, CleanupState, ProviderInv, NoStart
<1>15. CASE HangupMedia
  BY <1>15, PassedMembers DEF HangupMedia, DropMedia, session, provider,
    history, ProviderPassed, CleanupState, ProviderInv, NoStart
<1>16. CASE HangupCaller
  BY <1>16, PassedMembers DEF HangupCaller, DropCaller, session, provider,
    history, Report, ProviderPassed, CleanupState, ProviderInv, NoStart
<1>17. CASE UnlistRtp
  BY <1>17, PassedMembers DEF UnlistRtp, Call, Unlist, session, provider,
    history, ProviderPassed, CleanupState, ProviderInv, NoStart
<1>18. CASE CloseRtp
  BY <1>18, PassedMembers DEF CloseRtp, Release, Call, session, provider,
    history, NoPort, ProviderPassed, CleanupState, ProviderInv, NoStart
<1>19. CASE Disconnect
  BY <1>19, PassedMembers DEF Disconnect, session, provider, history,
    ProviderPassed, CleanupState, ProviderInv, NoStart
<1>20. CASE Forget
  BY <1>20, PassedMembers DEF Forget, session, provider, history,
    ProviderPassed, CleanupState, ProviderInv, NoStart
<1>21. CASE RemoveSession
  BY <1>21, PassedMembers DEF RemoveSession, provider, history,
    ProviderPassed, CleanupState, ProviderInv, NoStart
<1>22. CASE \E s \in Starters : StartLooks(s)
  BY <1>22, PassedMembers DEF StartLooks, Become, session, tasks, history,
    TypeOK, TaskTypes, ProviderInv, NoStart
<1>23. CASE \E s \in Starters : StartConnects(s)
  BY <1>23, PassedMembers DEF StartConnects, Become, Save, Gains, tasks,
    TypeOK, TaskTypes, ProviderInv, NoStart
<1>24. CASE \E s \in Starters : StartWithoutSession(s)
  BY <1>24, PassedMembers DEF StartWithoutSession, Become, session, tasks,
    history, TypeOK, TaskTypes, ProviderInv, NoStart
<1>25. CASE \E s \in Starters : StartConnected(s)
  BY <1>25, PassedMembers DEF StartConnected, Save, Gains, Become, tasks,
    TypeOK, TaskTypes, ProviderInv, NoStart
<1>26. CASE \E s \in Starters : StartFails(s)
  BY <1>26, PassedMembers DEF StartFails, Become, session, tasks, history,
    TypeOK, TaskTypes, ProviderInv, NoStart
<1>27. CASE ProviderDrops
  BY <1>27, PassedMembers DEF ProviderDrops, DropCaller, tasks, history,
    Report, ProviderInv, NoStart
<1>28. CASE ChannelEnds("caller_end") \/ ChannelEnds("media_end")
  BY <1>28, PassedMembers DEF ChannelEnds, NextEvent, AnswerDue, FoundBy,
    BeginCleanup, session, provider, ProviderPassed, CleanupState,
    ProviderInv, NoStart
<1>29. CASE UNCHANGED vars
  BY <1>29 DEF vars, session, provider, tasks, history, ProviderInv, NoStart
<1> QED
  BY <1>1, <1>2, <1>3, <1>4, <1>5, <1>6, <1>7, <1>8, <1>9, <1>10, <1>11,
    <1>12, <1>13, <1>14, <1>15, <1>16, <1>17, <1>18, <1>19, <1>20, <1>21,
    <1>22, <1>23, <1>24, <1>25, <1>26, <1>27, <1>28, <1>29 DEF Next, SetupStep,
    AttachStep, ConnectionStep, CleanupStep, StartStep, Deliver

\* A call has one provider session at most.
THEOREM OneProviderAtATime == Spec => []OneProvider
<1>1. Init => ProviderInv
  BY DEF Init, ProviderInv, ProviderPassed
<1>2. ProviderInv => OneProvider
  BY DEF ProviderInv, OneProvider
<1> QED
  BY <1>1, <1>2, LifecycleTypes, ProviderStep, PTL DEF Spec

----------------------------------------------------------------------------
(* What the cleanup leaves.                                                *)

\* There is no session, and no start, before the caller is in its bridge, and no
\* media channel before it is asked for.
Unstored == {"entered", "answered", "bridged", "joined", "unjoined"}
Unrequested ==
  Unstored \cup {"configuring", "configured", "refused", "unbinding"}

StageInv ==
  /\ setup \in Unstored => ~stored /\ NoStart /\ cleanup = "no"
  /\ setup \in Unrequested =>
       media = "none" /\ ~known /\ attach = "none" /\ conn = "none"
  /\ transport = "externalmedia" => conn = "none" /\ ~pending
  /\ pending => setup = "over"
  /\ media = "none" => attach = "none"
  /\ media = "none" => \A i \in 1..Len(events) : events[i] = "caller_end"
  /\ media # "none" /\ attach = "none" =>
       \E i \in 1..Len(events) : events[i] = "media_start"

\* Every step keeps StageInv.
LEMMA StageStep == StageInv /\ TypeOK /\ [Next]_vars => StageInv'
<1> SUFFICES ASSUME StageInv, TypeOK, [Next]_vars PROVE StageInv'
  OBVIOUS
<1>1. CASE (\E n \in Neighbours : NeighbourStep(n))
  BY <1>1 DEF NeighbourStep, asterisk, session, audio, provider, tasks,
    StageInv, NoStart, Unstored, Unrequested
<1>2. CASE Answer
  BY <1>2 DEF Answer, asterisk, session, audio, provider, StageInv, NoStart,
    Unstored, Unrequested
<1>3. CASE CreateBridge
  BY <1>3 DEF CreateBridge, session, audio, provider, StageInv, NoStart,
    Unstored, Unrequested
<1>4. CASE BridgeRefused
  BY <1>4 DEF BridgeRefused, Fault, asterisk, session, audio, provider,
    StageInv, NoStart, Unstored, Unrequested
<1>5. CASE JoinCaller
  BY <1>5 DEF JoinCaller, session, audio, provider, StageInv, NoStart,
    Unstored, Unrequested
<1>6. CASE JoinFails
  BY <1>6 DEF JoinFails, asterisk, session, audio, provider, StageInv,
    NoStart, Unstored, Unrequested
<1>7. CASE StoreSession
  BY <1>7 DEF StoreSession, Save, asterisk, audio, provider, StageInv,
    NoStart, Unstored, Unrequested
<1>8. CASE Configure
  BY <1>8 DEF Configure, Save, asterisk, audio, provider, StageInv, NoStart,
    Unstored, Unrequested
<1>9. CASE RequestExternalMedia
  BY <1>9 DEF RequestExternalMedia, Ports, Allocate, Call, Report, Fault,
    session, audio, provider, TypeOK, EventTypes, StageInv, NoStart, Unstored,
    Unrequested
<1>10. CASE NoPortForCall
  BY <1>10 DEF NoPortForCall, Ports, asterisk, session, audio, provider,
    StageInv, NoStart, Unstored, Unrequested
<1>11. CASE RequestAudioSocket
  BY <1>11 DEF RequestAudioSocket, Report, Fault, session, provider, TypeOK,
    EventTypes, StageInv, NoStart, Unstored, Unrequested
<1>12. CASE ExternalMediaRefused
  BY <1>12 DEF ExternalMediaRefused, Call, Unlist, asterisk, session, audio,
    provider, StageInv, NoStart, Unstored, Unrequested
<1>13. CASE Unbound
  BY <1>13 DEF Unbound, Release, Call, asterisk, session, audio, provider,
    NoPort, StageInv, NoStart, Unstored, Unrequested
<1>14. CASE AudioSocketRefused
  BY <1>14 DEF AudioSocketRefused, BeginCleanup, asterisk, session, audio,
    provider, StageInv, NoStart, Unstored, Unrequested
<1>15. CASE MediaCreated
  BY <1>15 DEF MediaCreated, Save, AddMedia, CanAttach, audio, provider,
    StageInv, NoStart, Unstored, Unrequested
<1>16. CASE Attached
  BY <1>16 DEF Attached, Save, EnsureStart, asterisk, audio, TypeOK,
    TaskTypes, StageInv, NoStart, Unstored, Unrequested
<1>17. CASE AttachFails
  BY <1>17 DEF AttachFails, asterisk, session, audio, provider, StageInv,
    NoStart, Unstored, Unrequested
<1>18. CASE Originated
  BY <1>18 DEF Originated, asterisk, session, provider, StageInv, NoStart,
    Unstored, Unrequested
<1>19. CASE RetryFinds
  BY <1>19 DEF RetryFinds, Finds, TryAttach, session, provider, AddMedia,
    CanAttach, DropMedia, TypeOK, EventTypes, StageInv, NoStart, Unstored,
    Unrequested
<1>20. CASE RetryExhausted
  BY <1>20 DEF RetryExhausted, Finds, Fault, DropMedia, session, audio,
    provider, TypeOK, EventTypes, StageInv, NoStart, Unstored, Unrequested
<1>21. CASE MediaAdded
  BY <1>21 DEF MediaAdded, Save, EnsureStart, asterisk, audio, TypeOK,
    TaskTypes, StageInv, NoStart, Unstored, Unrequested
<1>22. CASE MediaNotAdded
  BY <1>22 DEF MediaNotAdded, DropMedia, session, audio, provider, TypeOK,
    EventTypes, StageInv, NoStart, Unstored, Unrequested
<1>23. CASE BindConnection
  BY <1>23 DEF BindConnection, asterisk, session, provider, tasks, StageInv,
    NoStart, Unstored, Unrequested
<1>24. CASE RejectConnection
  BY <1>24 DEF RejectConnection, Fault, asterisk, session, provider, tasks,
    StageInv, NoStart, Unstored, Unrequested
<1>25. CASE ConnectionEnds
  BY <1>25 DEF ConnectionEnds, asterisk, session, provider, tasks, StageInv,
    NoStart, Unstored, Unrequested
<1>26. CASE ChannelFollows
  BY <1>26 DEF ChannelFollows, DropMedia, session, audio, provider, tasks,
    TypeOK, EventTypes, StageInv, NoStart, Unstored, Unrequested
<1>27. CASE Audio
  BY <1>27 DEF Audio, Flowing, EnsureStart, asterisk, session, audio, tasks,
    Call, TypeOK, TaskTypes, StageInv, NoStart, Unstored, Unrequested
<1>28. CASE StopProvider
  BY <1>28 DEF StopProvider, asterisk, session, audio, TypeOK, TaskTypes,
    StageInv, NoStart, Unstored, Unrequested
<1>29. CASE DestroyBridge
  BY <1>29 DEF DestroyBridge, session, audio, provider, StageInv, NoStart,
    Unstored, Unrequested
<1>30. CASE HangupMedia
  BY <1>30 DEF HangupMedia, DropMedia, session, audio, provider, TypeOK,
    EventTypes, StageInv, NoStart, Unstored, Unrequested
<1>31. CASE HangupCaller
  BY <1>31 DEF HangupCaller, DropCaller, session, audio, provider, Report,
    TypeOK, EventTypes, StageInv, NoStart, Unstored, Unrequested
<1>32. CASE UnlistRtp
  BY <1>32 DEF UnlistRtp, Call, Unlist, asterisk, session, audio, provider,
    StageInv, NoStart, Unstored, Unrequested
<1>33. CASE CloseRtp
  BY <1>33 DEF CloseRtp, Release, Call, asterisk, session, audio, provider,
    NoPort, StageInv, NoStart, Unstored, Unrequested
<1>34. CASE Disconnect
  BY <1>34 DEF Disconnect, asterisk, session, provider, StageInv, NoStart,
    Unstored, Unrequested
<1>35. CASE Forget
  BY <1>35 DEF Forget, asterisk, session, provider, StageInv, NoStart,
    Unstored, Unrequested
<1>36. CASE RemoveSession
  BY <1>36 DEF RemoveSession, asterisk, audio, provider, StageInv, NoStart,
    Unstored, Unrequested
<1>37. CASE \E s \in Starters : StartLooks(s)
  BY <1>37 DEF StartLooks, Become, asterisk, session, audio, tasks, TypeOK,
    TaskTypes, StageInv, NoStart, Unstored, Unrequested
<1>38. CASE \E s \in Starters : StartConnects(s)
  BY <1>38 DEF StartConnects, Become, Save, asterisk, audio, tasks, TypeOK,
    TaskTypes, StageInv, NoStart, Unstored, Unrequested
<1>39. CASE \E s \in Starters : StartWithoutSession(s)
  BY <1>39 DEF StartWithoutSession, Become, asterisk, session, audio, tasks,
    TypeOK, TaskTypes, StageInv, NoStart, Unstored, Unrequested
<1>40. CASE \E s \in Starters : StartConnected(s)
  BY <1>40 DEF StartConnected, Save, Become, asterisk, audio, tasks, TypeOK,
    TaskTypes, StageInv, NoStart, Unstored, Unrequested
<1>41. CASE \E s \in Starters : StartFails(s)
  BY <1>41 DEF StartFails, Become, asterisk, session, audio, tasks, TypeOK,
    TaskTypes, StageInv, NoStart, Unstored, Unrequested
<1>42. CASE ProviderDrops
  BY <1>42 DEF ProviderDrops, DropCaller, audio, tasks, Report, TypeOK,
    EventTypes, StageInv, NoStart, Unstored, Unrequested
<1>43. CASE MediaStarts
  BY <1>43 DEF MediaStarts, NextEvent, MediaArrives, session, provider,
    Finds, TryAttach, AddMedia, CanAttach, DropMedia, TypeOK, EventTypes,
    StageInv, NoStart, Unstored, Unrequested
<1>44. CASE ChannelEnds("caller_end") \/ ChannelEnds("media_end")
  <2> PICK e \in {"caller_end", "media_end"} : ChannelEnds(e)
    BY <1>44
  <2>1. events # <<>> /\ Head(events) = e /\ events' = Tail(events)
    BY DEF ChannelEnds, NextEvent
  <2>2. Len(events') = Len(events) - 1 /\ events[1] = e
    BY <2>1 DEF TypeOK, EventTypes
  <2>3. \A i \in 1..Len(events') : events'[i] = events[i + 1]
    BY <2>1 DEF TypeOK, EventTypes
  <2>4. media = "none" => \A i \in 1..Len(events') : events'[i] = "caller_end"
    BY <2>2, <2>3 DEF StageInv, TypeOK, EventTypes
  <2>5. ASSUME media # "none", attach = "none"
        PROVE  \E i \in 1..Len(events') : events'[i] = "media_start"
    <3>1. PICK i \in 1..Len(events) : events[i] = "media_start"
      BY <2>5 DEF StageInv
    <3>2. i # 1
      BY <3>1, <2>2
    <3>3. i - 1 \in 1..Len(events') /\ events'[i - 1] = "media_start"
      BY <3>1, <3>2, <2>2, <2>3 DEF TypeOK, EventTypes
    <3> QED
      BY <3>3
  <2>6. UNCHANGED <<setup, stored, start, media, known, attach, conn, transport,
                    pending>>
    BY DEF ChannelEnds, session, audio, provider
  <2>7. cleanup' = cleanup \/ stored
    BY DEF ChannelEnds, BeginCleanup
  <2> QED
    BY <2>4, <2>5, <2>6, <2>7 DEF StageInv, NoStart, Unstored, Unrequested
<1>45. CASE CallerLeaves
  BY <1>45 DEF CallerLeaves, DropCaller, session, audio, provider, tasks,
    Report, TypeOK, EventTypes, StageInv, NoStart, Unstored, Unrequested
<1>46. CASE MediaDies
  BY <1>46 DEF MediaDies, Fault, DropMedia, session, audio, provider, tasks,
    TypeOK, EventTypes, StageInv, NoStart, Unstored, Unrequested
<1>47. CASE UNCHANGED vars
  BY <1>47 DEF vars, asterisk, session, audio, provider, tasks, StageInv,
    NoStart, Unstored, Unrequested
<1> QED
  BY <1>1, <1>2, <1>3, <1>4, <1>5, <1>6, <1>7, <1>8, <1>9, <1>10, <1>11,
    <1>12, <1>13, <1>14, <1>15, <1>16, <1>17, <1>18, <1>19, <1>20, <1>21,
    <1>22, <1>23, <1>24, <1>25, <1>26, <1>27, <1>28, <1>29, <1>30, <1>31,
    <1>32, <1>33, <1>34, <1>35, <1>36, <1>37, <1>38, <1>39, <1>40, <1>41,
    <1>42, <1>43, <1>44, <1>45, <1>46, <1>47 DEF Next, SetupStep,
    AttachStep, ConnectionStep, CleanupStep, StartStep, Deliver

\* A media channel whose handlers are through is known to the session, so the
\* cleanup hangs it up or has passed it; one that was added to the bridge has
\* lost its connection, or never gets one, when the cleanup has closed it.
MediaInv ==
  /\ transport = "externalmedia" /\ media = "up" /\ setup # "created" => known
  /\ transport = "audiosocket" /\ media # "none" => conn # "none"
  /\ transport = "audiosocket" /\ media = "up" /\ attach = "over" => known
  /\ transport = "audiosocket" /\ attach = "added" => setup = "over"
  /\ transport = "audiosocket" /\ media = "up" /\ attach = "over" =>
       setup = "over"
  /\ transport = "audiosocket" /\ media = "up" /\ attach \in {"added", "over"}
       /\ cleanup \in ConnPassed =>
         conn = "closed" \/ (conn = "open" /\ ~uuid /\ cleanup \in UuidPassed)
  /\ cleanup \in MediaPassed /\ known /\ media = "up" => "media" \in late
  /\ cleanup \in BridgePassed => bridge # "up"

\* Every step keeps MediaInv.
LEMMA MediaStep == MediaInv /\ TypeOK /\ StageInv /\ [Next]_vars => MediaInv'
<1> SUFFICES ASSUME MediaInv, TypeOK, StageInv, [Next]_vars PROVE MediaInv'
  OBVIOUS
<1>1. CASE (\E s \in Starters : StartLooks(s))
          \/ (\E s \in Starters : StartWithoutSession(s))
          \/ (\E s \in Starters : StartFails(s)) \/ ProviderDrops
          \/ CallerLeaves \/ (\E n \in Neighbours : NeighbourStep(n))
  BY <1>1 DEF StartLooks, StartWithoutSession, StartFails, ProviderDrops,
    CallerLeaves, NeighbourStep, asterisk, session, audio, tasks, history,
    MediaInv
<1>2. CASE Answer
  BY <1>2, PassedMembers DEF Answer, asterisk, session, audio, history,
    MediaInv
<1>3. CASE CreateBridge
  BY <1>3, PassedMembers DEF CreateBridge, session, audio, history,
    StageInv, Unstored, ProviderPassed, BridgePassed, MediaPassed,
    CallerPassed, PortPassed, ConnPassed, UuidPassed, CleanupState, MediaInv
<1>4. CASE BridgeRefused
  BY <1>4, PassedMembers DEF BridgeRefused, Fault, asterisk, session, audio,
    MediaInv
<1>5. CASE JoinCaller
  BY <1>5, PassedMembers DEF JoinCaller, session, audio, history, MediaInv
<1>6. CASE JoinFails
  BY <1>6, PassedMembers DEF JoinFails, asterisk, session, audio, history,
    MediaInv
<1>7. CASE StoreSession
  BY <1>7, PassedMembers DEF StoreSession, Save, Gains, asterisk, audio,
    MediaInv
<1>8. CASE Configure
  BY <1>8, PassedMembers DEF Configure, Save, Gains, asterisk, audio,
    MediaInv
<1>9. CASE RequestExternalMedia
  BY <1>9, PassedMembers DEF RequestExternalMedia, Ports, Allocate, Call,
    Gains, Report, Fault, session, audio, StageInv, Unrequested, Unstored,
    TypeOK, MediaTypes, MediaInv
<1>10. CASE NoPortForCall
  BY <1>10, PassedMembers DEF NoPortForCall, Ports, asterisk, session,
    audio, MediaInv
<1>11. CASE RequestAudioSocket
  BY <1>11, PassedMembers DEF RequestAudioSocket, Report, Fault, session,
    StageInv, Unrequested, Unstored, TypeOK, MediaTypes, MediaInv
<1>12. CASE ExternalMediaRefused
  BY <1>12, PassedMembers DEF ExternalMediaRefused, Call, Unlist, asterisk,
    session, audio, history, MediaInv
<1>13. CASE Unbound
  BY <1>13, PassedMembers DEF Unbound, Release, Call, asterisk, session,
    audio, history, NoPort, MediaInv
<1>14. CASE AudioSocketRefused
  BY <1>14, PassedMembers DEF AudioSocketRefused, BeginCleanup, asterisk,
    session, audio, history, ProviderPassed, BridgePassed, MediaPassed,
    CallerPassed, PortPassed, ConnPassed, UuidPassed, CleanupState, MediaInv
<1>15. CASE MediaCreated
  BY <1>15, PassedMembers DEF MediaCreated, Save, Gains, AddMedia,
    CanAttach, audio, StageInv, MediaInv
<1>16. CASE Attached
  BY <1>16, PassedMembers DEF Attached, Save, Gains, EnsureStart, asterisk,
    audio, MediaInv
<1>17. CASE AttachFails
  BY <1>17, PassedMembers DEF AttachFails, asterisk, session, audio,
    history, MediaInv
<1>18. CASE Originated
  BY <1>18, PassedMembers DEF Originated, Gains, asterisk, session, MediaInv
<1>19. CASE RetryFinds
  BY <1>19, PassedMembers DEF RetryFinds, Finds, TryAttach, session,
    history, AddMedia, CanAttach, DropMedia, StageInv, Unrequested, Unstored,
    TypeOK, MediaTypes, ProviderPassed, BridgePassed, MediaPassed,
    CallerPassed, PortPassed, ConnPassed, UuidPassed, CleanupState, MediaInv
<1>20. CASE RetryExhausted
  BY <1>20, PassedMembers DEF RetryExhausted, Finds, Fault, DropMedia,
    session, audio, StageInv, Unrequested, Unstored, TypeOK, MediaTypes,
    ProviderPassed, BridgePassed, MediaPassed, CallerPassed, PortPassed,
    ConnPassed, UuidPassed, CleanupState, MediaInv
<1>21. CASE MediaAdded
  BY <1>21, PassedMembers DEF MediaAdded, Save, Gains, EnsureStart,
    asterisk, audio, StageInv, ProviderPassed, BridgePassed, MediaPassed,
    CallerPassed, PortPassed, ConnPassed, UuidPassed, CleanupState, MediaInv
<1>22. CASE MediaNotAdded
  BY <1>22, PassedMembers DEF MediaNotAdded, DropMedia, session, audio,
    history, StageInv, Unrequested, Unstored, TypeOK, MediaTypes,
    ProviderPassed, BridgePassed, MediaPassed, CallerPassed, PortPassed,
    ConnPassed, UuidPassed, CleanupState, MediaInv
<1>23. CASE BindConnection
  BY <1>23, PassedMembers DEF BindConnection, asterisk, session, tasks,
    history, StageInv, TypeOK, MediaTypes, MediaInv
<1>24. CASE RejectConnection
  BY <1>24, PassedMembers DEF RejectConnection, Fault, asterisk, session,
    tasks, StageInv, TypeOK, MediaTypes, MediaInv
<1>25. CASE ConnectionEnds
  BY <1>25, PassedMembers DEF ConnectionEnds, asterisk, session, tasks,
    history, StageInv, TypeOK, MediaTypes, MediaInv
<1>26. CASE ChannelFollows
  BY <1>26, PassedMembers DEF ChannelFollows, DropMedia, session, audio,
    tasks, history, StageInv, Unrequested, Unstored, TypeOK, MediaTypes,
    MediaInv
<1>27. CASE Audio
  BY <1>27, PassedMembers DEF Audio, Flowing, EnsureStart, Gains, asterisk,
    session, audio, tasks, Call, MediaInv
<1>28. CASE StopProvider
  BY <1>28, PassedMembers DEF StopProvider, asterisk, session, audio,
    history, ProviderPassed, BridgePassed, MediaPassed, CallerPassed,
    PortPassed, ConnPassed, UuidPassed, CleanupState, MediaInv
<1>29. CASE DestroyBridge
  BY <1>29, PassedMembers DEF DestroyBridge, session, audio, history,
    ProviderPassed, BridgePassed, MediaPassed, CallerPassed, PortPassed,
    ConnPassed, UuidPassed, CleanupState, StageInv, Unstored, MediaInv
<1>30. CASE HangupMedia
  BY <1>30, PassedMembers DEF HangupMedia, DropMedia, session, audio,
    history, ProviderPassed, BridgePassed, MediaPassed, CallerPassed,
    PortPassed, ConnPassed, UuidPassed, CleanupState, StageInv, Unrequested,
    Unstored, TypeOK, MediaTypes, MediaInv
<1>31. CASE HangupCaller
  BY <1>31, PassedMembers DEF HangupCaller, DropCaller, session, audio,
    history, Report, ProviderPassed, BridgePassed, MediaPassed, CallerPassed,
    PortPassed, ConnPassed, UuidPassed, CleanupState, MediaInv
<1>32. CASE UnlistRtp
  BY <1>32, PassedMembers DEF UnlistRtp, Call, Unlist, asterisk, session,
    audio, history, ProviderPassed, BridgePassed, MediaPassed, CallerPassed,
    PortPassed, ConnPassed, UuidPassed, CleanupState, MediaInv
<1>33. CASE CloseRtp
  BY <1>33, PassedMembers DEF CloseRtp, Release, Call, asterisk, session,
    audio, history, NoPort, ProviderPassed, BridgePassed, MediaPassed,
    CallerPassed, PortPassed, ConnPassed, UuidPassed, CleanupState, MediaInv
<1>34. CASE Disconnect
  BY <1>34, PassedMembers DEF Disconnect, asterisk, session, history,
    ProviderPassed, BridgePassed, MediaPassed, CallerPassed, PortPassed,
    ConnPassed, UuidPassed, CleanupState, StageInv, TypeOK, MediaTypes,
    MediaInv
<1>35. CASE Forget
  BY <1>35, PassedMembers DEF Forget, asterisk, session, history,
    ProviderPassed, BridgePassed, MediaPassed, CallerPassed, PortPassed,
    ConnPassed, UuidPassed, CleanupState, MediaInv
<1>36. CASE RemoveSession
  BY <1>36, PassedMembers DEF RemoveSession, asterisk, audio, history,
    ProviderPassed, BridgePassed, MediaPassed, CallerPassed, PortPassed,
    ConnPassed, UuidPassed, CleanupState, MediaInv
<1>37. CASE \E s \in Starters : StartConnects(s)
  BY <1>37, PassedMembers DEF StartConnects, Become, Save, Gains, asterisk,
    audio, tasks, MediaInv
<1>38. CASE \E s \in Starters : StartConnected(s)
  BY <1>38, PassedMembers DEF StartConnected, Save, Gains, Become, asterisk,
    audio, tasks, MediaInv
<1>39. CASE MediaStarts
  BY <1>39, PassedMembers DEF MediaStarts, NextEvent, MediaArrives, session,
    history, Finds, TryAttach, AddMedia, CanAttach, DropMedia, StageInv,
    Unrequested, Unstored, TypeOK, MediaTypes, ProviderPassed, BridgePassed,
    MediaPassed, CallerPassed, PortPassed, ConnPassed, UuidPassed,
    CleanupState, MediaInv
<1>40. CASE ChannelEnds("caller_end") \/ ChannelEnds("media_end")
  BY <1>40, PassedMembers DEF ChannelEnds, NextEvent, AnswerDue, FoundBy,
    BeginCleanup, session, audio, ProviderPassed, BridgePassed, MediaPassed,
    CallerPassed, PortPassed, ConnPassed, UuidPassed, CleanupState, MediaInv
<1>41. CASE MediaDies
  BY <1>41, PassedMembers DEF MediaDies, Fault, DropMedia, session, audio,
    tasks, StageInv, Unrequested, Unstored, TypeOK, MediaTypes, MediaInv
<1>42. CASE UNCHANGED vars
  BY <1>42 DEF vars, asterisk, session, audio, tasks, history, MediaInv
<1> QED
  BY <1>1, <1>2, <1>3, <1>4, <1>5, <1>6, <1>7, <1>8, <1>9, <1>10, <1>11,
    <1>12, <1>13, <1>14, <1>15, <1>16, <1>17, <1>18, <1>19, <1>20, <1>21,
    <1>22, <1>23, <1>24, <1>25, <1>26, <1>27, <1>28, <1>29, <1>30, <1>31,
    <1>32, <1>33, <1>34, <1>35, <1>36, <1>37, <1>38, <1>39, <1>40, <1>41,
    <1>42 DEF Next, SetupStep,
    AttachStep, ConnectionStep, CleanupStep, StartStep, Deliver

\* Of the rest, what is there after the cleanup had been there is late, or its
\* release is under way.
ReleaseInv ==
  /\ cleanup \in CallerPassed => caller = "gone"
  /\ socket[Call] # NoPort /\ Call \notin listed =>
       cleanup = "unbinding" \/ setup = "unbinding"
  /\ cleanup \in PortPassed \ {"unbinding"} /\ socket[Call] # NoPort =>
       "port" \in late \/ setup = "unbinding"
  /\ cleanup \in UuidPassed /\ uuid => "uuid" \in late
  /\ cleanup = "done" /\ stored => "session" \in late

\* Every step keeps ReleaseInv.
LEMMA ReleaseStep == ReleaseInv /\ TypeOK /\ StageInv /\ [Next]_vars => ReleaseInv'
<1> SUFFICES ASSUME ReleaseInv, TypeOK, StageInv, [Next]_vars PROVE ReleaseInv'
  OBVIOUS
<1>1. CASE RetryFinds \/ RetryExhausted \/ MediaNotAdded \/ BindConnection
          \/ RejectConnection \/ ConnectionEnds \/ ChannelFollows
          \/ (\E s \in Starters : StartLooks(s))
          \/ (\E s \in Starters : StartWithoutSession(s))
  BY <1>1 DEF RetryFinds, RetryExhausted, MediaNotAdded, BindConnection,
    RejectConnection, ConnectionEnds, ChannelFollows, StartLooks,
    StartWithoutSession, asterisk, session, rtp, audio, tasks, history,
    ReleaseInv
<1>2. CASE (\E s \in Starters : StartFails(s)) \/ MediaStarts \/ MediaDies
  BY <1>2 DEF StartFails, MediaStarts, MediaDies, asterisk, session, rtp,
    audio, tasks, history, ReleaseInv
<1>3. CASE Answer
  BY <1>3, PassedMembers DEF Answer, asterisk, session, rtp, audio, history,
    ReleaseInv
<1>4. CASE CreateBridge
  BY <1>4, PassedMembers DEF CreateBridge, session, rtp, audio, history,
    ReleaseInv
<1>5. CASE BridgeRefused
  BY <1>5, PassedMembers DEF BridgeRefused, Fault, asterisk, session, rtp,
    audio, ReleaseInv
<1>6. CASE JoinCaller
  BY <1>6, PassedMembers DEF JoinCaller, session, rtp, audio, history,
    ReleaseInv
<1>7. CASE JoinFails
  BY <1>7, PassedMembers DEF JoinFails, asterisk, session, rtp, audio,
    history, ReleaseInv
<1>8. CASE StoreSession
  BY <1>8, PassedMembers DEF StoreSession, Save, Gains, asterisk, rtp,
    audio, ReleaseInv
<1>9. CASE Configure
  BY <1>9, PassedMembers DEF Configure, Save, Gains, asterisk, rtp, audio,
    ReleaseInv
<1>10. CASE RequestExternalMedia
  BY <1>10, PassedMembers DEF RequestExternalMedia, Ports, Allocate, Call,
    Gains, Report, Fault, session, audio, TypeOK, RtpTypes, Users, PortPassed,
    ReleaseInv
<1>11. CASE NoPortForCall
  BY <1>11, PassedMembers DEF NoPortForCall, Ports, asterisk, session,
    audio, ReleaseInv
<1>12. CASE RequestAudioSocket
  BY <1>12, PassedMembers DEF RequestAudioSocket, Report, Fault, session,
    rtp, ReleaseInv
<1>13. CASE ExternalMediaRefused
  BY <1>13, PassedMembers DEF ExternalMediaRefused, Call, Unlist, rtp,
    asterisk, session, audio, history, TypeOK, RtpTypes, Users, PortPassed,
    ReleaseInv
<1>14. CASE Unbound
  BY <1>14, PassedMembers DEF Unbound, Release, Call, asterisk, session,
    audio, history, NoPort, TypeOK, RtpTypes, Users, PortPassed, ReleaseInv
<1>15. CASE AudioSocketRefused
  BY <1>15, PassedMembers DEF AudioSocketRefused, BeginCleanup, asterisk,
    session, rtp, audio, history, ProviderPassed, BridgePassed, MediaPassed,
    CallerPassed, PortPassed, ConnPassed, UuidPassed, CleanupState, ReleaseInv
<1>16. CASE MediaCreated
  BY <1>16, PassedMembers DEF MediaCreated, Save, Gains, AddMedia,
    CanAttach, rtp, audio, ReleaseInv
<1>17. CASE Attached
  BY <1>17, PassedMembers DEF Attached, Save, Gains, EnsureStart, asterisk,
    rtp, audio, ReleaseInv
<1>18. CASE AttachFails
  BY <1>18, PassedMembers DEF AttachFails, asterisk, session, rtp, audio,
    history, ReleaseInv
<1>19. CASE Originated
  BY <1>19, PassedMembers DEF Originated, Gains, asterisk, session, rtp,
    ReleaseInv
<1>20. CASE MediaAdded
  BY <1>20, PassedMembers DEF MediaAdded, Save, Gains, EnsureStart,
    asterisk, rtp, audio, ReleaseInv
<1>21. CASE Audio
  BY <1>21, PassedMembers DEF Audio, Flowing, EnsureStart, Gains, asterisk,
    session, rtp, audio, tasks, Call, ReleaseInv
<1>22. CASE StopProvider
  BY <1>22, PassedMembers DEF StopProvider, asterisk, session, rtp, audio,
    history, ProviderPassed, BridgePassed, MediaPassed, CallerPassed,
    PortPassed, ConnPassed, UuidPassed, CleanupState, ReleaseInv
<1>23. CASE DestroyBridge
  BY <1>23, PassedMembers DEF DestroyBridge, session, rtp, audio, history,
    ProviderPassed, BridgePassed, MediaPassed, CallerPassed, PortPassed,
    ConnPassed, UuidPassed, CleanupState, ReleaseInv
<1>24. CASE HangupMedia
  BY <1>24, PassedMembers DEF HangupMedia, DropMedia, session, rtp, audio,
    history, ProviderPassed, BridgePassed, MediaPassed, CallerPassed,
    PortPassed, ConnPassed, UuidPassed, CleanupState, ReleaseInv
<1>25. CASE HangupCaller
  BY <1>25, PassedMembers DEF HangupCaller, DropCaller, session, rtp, audio,
    history, Report, ProviderPassed, BridgePassed, MediaPassed, CallerPassed,
    PortPassed, ConnPassed, UuidPassed, CleanupState, TypeOK, MediaTypes,
    ReleaseInv
<1>26. CASE UnlistRtp
  BY <1>26, PassedMembers DEF UnlistRtp, Call, Unlist, rtp, asterisk,
    session, audio, history, ProviderPassed, BridgePassed, MediaPassed,
    CallerPassed, PortPassed, ConnPassed, UuidPassed, CleanupState, TypeOK,
    RtpTypes, Users, ReleaseInv
<1>27. CASE CloseRtp
  BY <1>27, PassedMembers DEF CloseRtp, Release, Call, asterisk, session,
    audio, history, NoPort, ProviderPassed, BridgePassed, MediaPassed,
    CallerPassed, PortPassed, ConnPassed, UuidPassed, CleanupState, TypeOK,
    RtpTypes, Users, ReleaseInv
<1>28. CASE Disconnect
  BY <1>28, PassedMembers DEF Disconnect, asterisk, session, rtp, history,
    ProviderPassed, BridgePassed, MediaPassed, CallerPassed, PortPassed,
    ConnPassed, UuidPassed, CleanupState, ReleaseInv
<1>29. CASE Forget
  BY <1>29, PassedMembers DEF Forget, asterisk, session, rtp, history,
    ProviderPassed, BridgePassed, MediaPassed, CallerPassed, PortPassed,
    ConnPassed, UuidPassed, CleanupState, ReleaseInv
<1>30. CASE RemoveSession
  BY <1>30, PassedMembers DEF RemoveSession, asterisk, rtp, audio, history,
    ProviderPassed, BridgePassed, MediaPassed, CallerPassed, PortPassed,
    ConnPassed, UuidPassed, CleanupState, ReleaseInv
<1>31. CASE \E s \in Starters : StartConnects(s)
  BY <1>31, PassedMembers DEF StartConnects, Become, Save, Gains, asterisk,
    rtp, audio, tasks, ReleaseInv
<1>32. CASE \E s \in Starters : StartConnected(s)
  BY <1>32, PassedMembers DEF StartConnected, Save, Gains, Become, asterisk,
    rtp, audio, tasks, ReleaseInv
<1>33. CASE ProviderDrops
  BY <1>33, PassedMembers DEF ProviderDrops, DropCaller, rtp, audio, tasks,
    history, Report, TypeOK, MediaTypes, ReleaseInv
<1>34. CASE ChannelEnds("caller_end") \/ ChannelEnds("media_end")
  BY <1>34, PassedMembers DEF ChannelEnds, NextEvent, AnswerDue, FoundBy,
    BeginCleanup, session, rtp, audio, ProviderPassed, BridgePassed,
    MediaPassed, CallerPassed, PortPassed, ConnPassed, UuidPassed,
    CleanupState, ReleaseInv
<1>35. CASE CallerLeaves
  BY <1>35, PassedMembers DEF CallerLeaves, DropCaller, session, rtp, audio,
    tasks, history, Report, TypeOK, MediaTypes, ReleaseInv
<1>36. CASE \E n \in Neighbours : NeighbourStep(n)
  <2> PICK n \in Neighbours : NeighbourStep(n)
    BY <1>36
  <2>1. n # Call
    BY DEF Neighbours, Call
  <2>2. socket'[Call] = socket[Call] /\ (Call \in listed' <=> Call \in listed)
    BY <2>1 DEF NeighbourStep, Allocate, Unlist, Release, TypeOK, RtpTypes, Users
  <2>3. UNCHANGED <<setup, cleanup, caller, uuid, stored, late>>
    BY DEF NeighbourStep, asterisk, session, audio, tasks, history
  <2> QED
    BY <2>2, <2>3 DEF ReleaseInv
<1>37. CASE UNCHANGED vars
  BY <1>37 DEF vars, asterisk, session, rtp, audio, tasks, history,
    ReleaseInv
<1> QED
  BY <1>1, <1>2, <1>3, <1>4, <1>5, <1>6, <1>7, <1>8, <1>9, <1>10, <1>11,
    <1>12, <1>13, <1>14, <1>15, <1>16, <1>17, <1>18, <1>19, <1>20, <1>21,
    <1>22, <1>23, <1>24, <1>25, <1>26, <1>27, <1>28, <1>29, <1>30, <1>31,
    <1>32, <1>33, <1>34, <1>35, <1>36, <1>37 DEF Next, SetupStep,
    AttachStep, ConnectionStep, CleanupStep, StartStep, Deliver

\* When everything has come to rest, nothing of a call that was cleaned up is
\* left but what a task acquired, or learned of, behind the cleanup's back.
THEOREM CleanupReleasesAll == Spec => []AllReleased
<1>1. Init => ProviderInv /\ StageInv /\ MediaInv /\ ReleaseInv
  <2>1. Init => ProviderInv
    BY DEF Init, ProviderInv, ProviderPassed
  <2>2. Init => StageInv
    BY DEF Init, StageInv, NoStart, Unstored, Unrequested
  <2>3. Init => MediaInv
    BY DEF Init, MediaInv, ConnPassed, PortPassed, CallerPassed, MediaPassed,
      BridgePassed, ProviderPassed
  <2>4. Init => ReleaseInv
    BY DEF Init, ReleaseInv, UuidPassed, ConnPassed, PortPassed, CallerPassed,
      MediaPassed, BridgePassed, ProviderPassed, Call, Users
  <2> QED
    BY <2>1, <2>2, <2>3, <2>4
<1>2. TypeOK /\ ProviderInv /\ StageInv /\ MediaInv /\ ReleaseInv => AllReleased
  <2> SUFFICES ASSUME TypeOK, ProviderInv, StageInv, MediaInv, ReleaseInv,
                      Settled, NEW r \in Held
               PROVE  r \in late
    BY DEF AllReleased
  <2> cleanup = "done" /\ setup = "over" /\ events = <<>>
    BY DEF Settled
  <2> USE DEF UuidPassed, ConnPassed, PortPassed, CallerPassed, MediaPassed,
        BridgePassed, ProviderPassed, CleanupState
  <2>1. CASE r = "caller"
    BY <2>1 DEF Held, ReleaseInv
  <2>2. CASE r = "bridge"
    BY <2>2 DEF Held, MediaInv
  <2>3. CASE r = "provider"
    BY <2>3 DEF Held, ProviderInv
  <2>4. CASE r = "port"
    BY <2>4 DEF Held, ReleaseInv
  <2>5. CASE r = "uuid"
    BY <2>5 DEF Held, ReleaseInv
  <2>6. CASE r = "session"
    BY <2>6 DEF Held, ReleaseInv
  <2>7. media # "none" => attach = "over"
    <3>1. Len(events) = 0
      OBVIOUS
    <3> QED
      BY <3>1 DEF StageInv, Settled
  <2>8. transport = "audiosocket" => media # "up"
    BY <2>7 DEF MediaInv, Settled
  <2>9. CASE r = "conn"
    BY <2>8, <2>9 DEF Held, Settled, StageInv, TypeOK, MediaTypes
  <2>10. CASE r = "media"
    BY <2>8, <2>10 DEF Held, MediaInv, TypeOK, MediaTypes
  <2> QED
    BY <2>1, <2>2, <2>3, <2>4, <2>5, <2>6, <2>9, <2>10 DEF Held, Resources
<1> QED
  BY <1>1, <1>2, LifecycleTypes, ProviderStep, StageStep, MediaStep, ReleaseStep,
     PTL DEF Spec

=============================================================================
