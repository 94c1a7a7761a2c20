-------------------------- MODULE MCHostScreens -----------------------------
(* What users see of a host: its desktop (input broker, helper, video and     *)
(* quality), the pairing window and the update menu. The components share no *)
(* state, so one of them runs in each behaviour, once for each question with *)
(* the bounds that make its case happen. DesktopHelper is extended, so that  *)
(* the run checks the definitions of DesktopHelperProofs themselves.         *)
EXTENDS DesktopHelper, Integers, Sequences, FiniteSets

CONSTANTS c1, c2, s1, s2, p1, p2, p3  \* model values

VARIABLES
    part,  \* the component that runs
    \* DesktopInput
    d, inputDown, inputGeneration, displays, layout_displays, seen, streams, guards,
    viewers, open, auth, valid, gate,
    \* DesktopMedia
    mediaAttached, existing, stream, why, os, mediaLayout, mediaConfig,
    mediaCounter, flow, mediaTold, mediaMedia,
    \* DesktopQuality
    qualityAttached, qualityLayout, qualityConfig, qualityCounter, quality, recv,
    sent, op, earned, reports,
    \* PairingGui
    conn, queue, ctl, view, drawn, notification, windowTold, visible, approved,
    \* GuiSocket
    path, socketNext, pc, sock, identity, gone,
    \* UpdateMenu
    updater, changes, link, events, ui, dialog, channel, command, asked

Input == INSTANCE DesktopInput WITH Connections <- {c1}, Clients <- {"alice"},
    ClientOf <- [c \in {c1} |-> "alice"], Keys <- {"a"}, Buttons <- {},
    Modes <- {"Physical"}, MaxAttached <- 2, MaxId <- 2, MaxEpoch <- 2,
    MaxLayout <- 1, Lease <- 1, Displays <- {11}, MaxGeneration <- 0,
    down <- inputDown, generation <- inputGeneration
Layout == INSTANCE DesktopInput WITH Connections <- {c1}, Clients <- {"alice"},
    ClientOf <- [c \in {c1} |-> "alice"], Keys <- {"a"}, Buttons <- {},
    Modes <- {"Physical"}, MaxAttached <- 1, MaxId <- 1, MaxEpoch <- 2,
    MaxLayout <- 2, Lease <- 1, Displays <- {11, 12}, MaxGeneration <- 0,
    down <- inputDown, generation <- inputGeneration
Leaving == INSTANCE DesktopInput WITH Connections <- {c1, c2}, Clients <- {"alice"},
    ClientOf <- [c \in {c1, c2} |-> "alice"], Keys <- {"a"}, Buttons <- {},
    Modes <- {"Physical", "Text"}, MaxAttached <- 1, MaxId <- 1, MaxEpoch <- 2,
    MaxLayout <- 1, Lease <- 1, Displays <- {11}, MaxGeneration <- 1,
    down <- inputDown, generation <- inputGeneration
Media == INSTANCE DesktopMedia WITH Screens <- {s1, s2}, MaxViewports <- 1,
    Window <- 2, Ledger <- 3, MaxLayout <- 1, MaxEpoch <- 2, MaxGroups <- 2,
    MaxObjects <- 2, attached <- mediaAttached, layout <- mediaLayout,
    config <- mediaConfig, counter <- mediaCounter, told <- mediaTold,
    media <- mediaMedia
Follow == INSTANCE DesktopMedia WITH Screens <- {s1, s2}, MaxViewports <- 1,
    Window <- 1, Ledger <- 1, MaxLayout <- 2, MaxEpoch <- 2, MaxGroups <- 1,
    MaxObjects <- 1, attached <- mediaAttached, layout <- mediaLayout,
    config <- mediaConfig, counter <- mediaCounter, told <- mediaTold,
    media <- mediaMedia
Quality == INSTANCE DesktopQuality WITH Ladder <- {1, 2}, Custom <- {},
    Healthy <- 2, MaxLayout <- 1, MaxEpoch <- 3, MaxGroup <- 1,
    attached <- qualityAttached, layout <- qualityLayout, config <- qualityConfig,
    counter <- qualityCounter
Relaid == INSTANCE DesktopQuality WITH Ladder <- {1, 2}, Custom <- {}, Healthy <- 1,
    MaxLayout <- 2, MaxEpoch <- 2, MaxGroup <- 1, attached <- qualityAttached,
    layout <- qualityLayout, config <- qualityConfig, counter <- qualityCounter
Window == INSTANCE PairingGui WITH Conns <- {c1, c2}, Asked <- {"confirm", "code"},
    MaxGeneration <- 1, told <- windowTold
Gone == INSTANCE PairingGui WITH Conns <- {c1, c2}, Asked <- {"confirm", "code"},
    MaxGeneration <- 0, told <- windowTold
Socket == INSTANCE GuiSocket WITH Procs <- {p1, p2, p3}, Leavers <- {p1, p2, p3},
    MaxSockets <- 4, next <- socketNext
Menu == INSTANCE UpdateMenu WITH MaxChanges <- 1, MaxEpochs <- 2, MaxLinks <- 2,
    MaxSerial <- 2
Request == INSTANCE UpdateMenu WITH MaxChanges <- 0, MaxEpochs <- 1, MaxLinks <- 2,
    MaxSerial <- 2

ASSUME BoundsAssumption ==
    /\ Input!ConstantsAssumption
    /\ Layout!ConstantsAssumption
    /\ Leaving!ConstantsAssumption
    /\ HelperAssumption
    /\ Media!MediaAssumption
    /\ Follow!MediaAssumption
    /\ Quality!QualityAssumption
    /\ Relaid!QualityAssumption
    /\ Window!GuiAssumption /\ Window!NoneAssumption
    /\ Gone!GuiAssumption /\ Gone!NoneAssumption
    /\ Socket!SocketAssumption
    /\ Menu!MenuAssumption
    /\ Request!MenuAssumption

Parts == {"input", "layout", "leaving", "helper", "media", "follow", "quality",
          "relaid", "window", "gone", "socket", "menu", "request"}
HostInit ==
    /\ part \in Parts
    /\ CASE part = "layout" -> Layout!Init
         [] part = "leaving" -> Leaving!Init
         [] OTHER -> Input!Init
    /\ Init
    /\ CASE part = "follow" -> Follow!Init
         [] OTHER -> Media!Init
    /\ part \notin {"media", "follow"} => existing /\ os = {}
    /\ CASE part = "relaid" -> Relaid!Init
         [] OTHER -> Quality!Init
    /\ CASE part = "gone" -> Gone!Init
         [] OTHER -> Window!Init
    /\ part \notin {"window", "gone"} => visible
    /\ Socket!Init
    /\ part # "socket" => path = 0
    /\ CASE part = "request" -> Request!Init
         [] OTHER -> Menu!Init

inputVars == <<d, inputDown, inputGeneration, displays, layout_displays, seen,
    streams, guards, viewers, open, auth, valid, gate>>
helperVars == <<generation, ready, minimum, uncertain, calls, connected, next,
    pending, ledger, wire, replies, helper, last, groups, captures, down, broker,
    recovered, media, made, forgotten>>
mediaVars == <<mediaAttached, existing, stream, why, os, mediaLayout, mediaConfig,
    mediaCounter, flow, mediaTold, mediaMedia>>
qualityVars == <<qualityAttached, qualityLayout, qualityConfig, qualityCounter,
    quality, recv, sent, op, earned, reports>>
windowVars == <<conn, queue, ctl, view, drawn, notification, windowTold, visible,
    approved>>
socketVars == <<path, socketNext, pc, sock, identity, gone>>
menuVars == <<updater, changes, link, events, ui, dialog, channel, command, asked>>

\* One component runs, the others stay as they are.
InputRuns ==
    /\ part = "input" /\ Input!Next
    /\ UNCHANGED <<part, helperVars, mediaVars, qualityVars, windowVars, socketVars,
               menuVars>>
LayoutRuns ==
    /\ part = "layout" /\ Layout!Next
    /\ UNCHANGED <<part, helperVars, mediaVars, qualityVars, windowVars, socketVars,
               menuVars>>
LeavingRuns ==
    /\ part = "leaving" /\ Leaving!Next
    /\ UNCHANGED <<part, helperVars, mediaVars, qualityVars, windowVars, socketVars,
               menuVars>>
HelperRuns ==
    /\ part = "helper" /\ Next
    /\ UNCHANGED <<part, inputVars, mediaVars, qualityVars, windowVars, socketVars,
               menuVars>>
MediaRuns ==
    /\ part = "media" /\ Media!Next
    /\ UNCHANGED <<part, inputVars, helperVars, qualityVars, windowVars, socketVars,
               menuVars>>
FollowRuns ==
    /\ part = "follow" /\ Follow!Next
    /\ UNCHANGED <<part, inputVars, helperVars, qualityVars, windowVars, socketVars,
               menuVars>>
QualityRuns ==
    /\ part = "quality" /\ Quality!Next
    /\ UNCHANGED <<part, inputVars, helperVars, mediaVars, windowVars, socketVars,
               menuVars>>
RelaidRuns ==
    /\ part = "relaid" /\ Relaid!Next
    /\ UNCHANGED <<part, inputVars, helperVars, mediaVars, windowVars, socketVars,
               menuVars>>
WindowRuns ==
    /\ part = "window" /\ Window!Next
    /\ UNCHANGED <<part, inputVars, helperVars, mediaVars, qualityVars, socketVars,
               menuVars>>
GoneRuns ==
    /\ part = "gone" /\ Gone!Next
    /\ UNCHANGED <<part, inputVars, helperVars, mediaVars, qualityVars, socketVars,
               menuVars>>
SocketRuns ==
    /\ part = "socket" /\ Socket!Next
    /\ UNCHANGED <<part, inputVars, helperVars, mediaVars, qualityVars, windowVars,
               menuVars>>
MenuRuns ==
    /\ part = "menu" /\ Menu!Next
    /\ UNCHANGED <<part, inputVars, helperVars, mediaVars, qualityVars, windowVars,
               socketVars>>
RequestRuns ==
    /\ part = "request" /\ Request!Next
    /\ UNCHANGED <<part, inputVars, helperVars, mediaVars, qualityVars, windowVars,
               socketVars>>

HostNext == InputRuns \/ LayoutRuns \/ LeavingRuns \/ HelperRuns \/ MediaRuns \/
    FollowRuns \/ QualityRuns \/ RelaidRuns \/ WindowRuns \/ GoneRuns \/ SocketRuns
    \/ MenuRuns \/ RequestRuns
hostVars == <<part, inputVars, helperVars, mediaVars, qualityVars, windowVars,
    socketVars, menuVars>>

HostSpec == HostInit /\ [][HostNext]_hostVars

\* What is scheduled fairly while a component runs: the Fairness of its module.
LeavingFairness ==
    /\ WF_inputVars(part = "leaving" /\ Leaving!Handler)
    /\ WF_inputVars(part = "leaving" /\ 1 \in viewers
          /\ (1 \notin DOMAIN d.attachments \/ d.attachments[1].conn \notin open)
          /\ Leaving!AttachStreamEnds(1))
    /\ SF_inputVars(part = "leaving" /\ Leaving!ExpireTick(TRUE))
MediaFairness ==
    /\ WF_mediaVars(part = "media" /\ Media!AttachStream) /\ SF_mediaVars(part = "media" /\ Media!Tick) /\ WF_mediaVars(part = "media" /\ Media!MediaTask) /\ WF_mediaVars(part = "media" /\ Media!Age)
FollowFairness ==
    /\ WF_mediaVars(part = "follow" /\ Follow!AttachStream) /\ SF_mediaVars(part = "follow" /\ Follow!Tick) /\ WF_mediaVars(part = "follow" /\ Follow!MediaTask) /\ WF_mediaVars(part = "follow" /\ Follow!Age)
GoneFairness ==
    /\ WF_windowVars(part = "gone" /\ Gone!Tick) /\ WF_windowVars(part = "gone" /\ \E shown \in BOOLEAN : Gone!Notified(shown))
    /\ \A c \in {c1, c2} : WF_windowVars(part = "gone" /\ Gone!SeesEof(c)) /\ WF_windowVars(part = "gone" /\ Gone!Responds(c))
RequestFairness ==
    /\ WF_menuVars(part = "request" /\ Request!Handle) /\ WF_menuVars(part = "request" /\ Request!Decide) /\ WF_menuVars(part = "request" /\ Request!Takes) /\ WF_menuVars(part = "request" /\ Request!Carries)
    /\ WF_menuVars(part = "request" /\ Request!Completes) /\ WF_menuVars(part = "request" /\ \E yes \in BOOLEAN : Request!Replies(yes))

-----------------------------------------------------------------------------
\* What the OS holds down was pressed in the current control period by the attachment
\* that has control, and no update is granted the machine while something is stuck;
\* below the broker, the ledger names everything held however answers are lost or late
\* and a ready generation inherits nothing pressed, both except for what a recovery named
\* that the worker dropped at its deadline; a live capture keeps its work guard
\* (DesktopState, desktop_ipc).
NothingStaysPressed ==
    /\ part = "input" => Input!TypeOK /\ Input!HeldByHolder /\
         Input!NoUpdateOverStuckInput
    /\ part = "layout" => Layout!TypeOK /\ Layout!HeldByHolder /\
         Layout!NoUpdateOverStuckInput
    /\ part = "helper" => TypeOK /\ LedgerCoversDown /\
         ReadyIsClean /\ CapturesAreGuarded
    /\ part = "leaving" => Leaving!TypeOK

\* What is late or poisoned changes nothing: a poisoned broker grants, presses and
\* drops nothing, a configuration is told after the layout it is of, and the media task
\* of an older configuration does not touch the flow of a newer one.
StaleChangesNothing == Input!PoisonFences /\ Follow!ToldInOrder /\
    Media!FlowNeverGoesBack

\* Configurations outlive nothing they depend on: a viewport of an older display
\* arrangement is gone, automatic quality stays on levels verified for this very
\* configuration and goes up only when it has earned it (refresh_layout, query_quality,
\* adjust_quality).
ConfiguredAsVerified ==
    /\ part = "layout" => Layout!ViewportsAreCurrent
    /\ part = "quality" => Quality!TypeOK /\ Quality!AutoOnVerified /\
         Quality!UpIsEarned
    /\ part = "relaid" => Relaid!TypeOK /\ Relaid!AutoOnVerified
    /\ part = "media" => Media!TypeOK
    /\ part = "follow" => Follow!TypeOK

\* The user decides on what is shown: a pairing is accepted by a click on the picture
\* of its own request, a waiting one is on the route and within the user's reach, an
\* update is requested while everything its question showed still holds, the resting
\* menu shows the newest status, and some process serves the window (controller, view,
\* transport).
ConfirmedAsSeen ==
    /\ part = "window" => Window!TypeOK /\ Window!AcceptedAsSeen /\
         Window!PendingOnRoute /\ Window!NeverUnseen
    /\ part = "menu" => Menu!TypeOK /\ Menu!ConfirmedAsShown /\ Menu!QuietAgrees
    /\ part = "socket" => Socket!TypeOK /\ Socket!SomeoneServes
    /\ part = "gone" => Gone!TypeOK
    /\ part = "request" => Request!TypeOK

\* Nothing is held for somebody who is gone: closed connections, revoked clients and
\* silent holders lose their attachments and leases, a stalled track is refreshed and
\* the video follows the displays, confirmations of a gone connection and menu requests
\* end.
AbandonedEnds ==
    /\ part = "leaving" /\ LeavingFairness => Leaving!ClosedConnectionsLeave /\
         Leaving!RevokedClientsLeave /\ Leaving!LeasesEnd
    /\ part = "media" /\ MediaFairness => Media!StalledIsRefreshed
    /\ part = "follow" /\ FollowFairness => Follow!VideoFollows
    /\ part = "gone" /\ GoneFairness => Gone!GoneEnds
    /\ part = "request" /\ RequestFairness => Request!PendingEnds
=============================================================================
