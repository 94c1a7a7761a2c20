---------------------------- MODULE DesktopMedia ----------------------------
(***************************************************************************)
(* Video of one desktop attachment: daemon/host/src/desktop.rs (layout,    *)
(* configure_impl, media_flow, feedback), desktop_flow.rs and the attach   *)
(* stream and media task of server/desktop_rpc.rs.                         *)
(*                                                                         *)
(* Four parties meet in the runtime's tables: the attach stream, which     *)
(* tells the viewer of layouts and configurations and starts media tasks;  *)
(* the media task of a track, paced by the viewer's receipts; quality      *)
(* calls (DesktopQuality), which here only replace a configuration; and    *)
(* the operating system, whose displays come and go. Every configuration   *)
(* has a codec epoch of its own, and an epoch tells old from new.          *)
(*                                                                         *)
(* The tracks of a configuration share its epoch and are treated alike;    *)
(* one of them is followed. An age is the threshold it has crossed.        *)
(***************************************************************************)
EXTENDS Integers, Sequences, FiniteSets

CONSTANTS
    Screens,      \* displays the operating system may report
    MaxViewports, \* MAX_VIEWPORTS
    Window,       \* max_n: objects in flight before a track waits
    Ledger,       \* objects the ledger of a flow holds (40)
    MaxLayout, MaxEpoch, MaxGroups, MaxObjects

None == [epoch |-> 0]  \* no configuration, flow, media task, ...

MediaAssumption ==
    /\ IsFiniteSet(Screens)
    /\ {MaxViewports, Window, Ledger, MaxLayout, MaxEpoch} \subseteq Nat \ {0}
    /\ {MaxGroups, MaxObjects} \subseteq Nat

VARIABLES
    attached,  \* the attachment exists in the broker
    existing,  \* AttachExistingDesktop: the server owns the viewports
    stream,    \* step of the attach stream
    why,       \* what ended the stream
    os,        \* Backend::displays()
    layout,    \* layout_epoch and layout_displays
    config,    \* Runtime.configurations
    counter,   \* Runtime.next_codec_epoch
    flow,      \* Runtime.flow
    told,      \* previous_layout and configuration of the attach stream
    media      \* the media task

streamVars == <<stream, why, told>>
vars == <<attached, existing, streamVars, os, layout, config, counter, flow, media>>

Epochs == 0..MaxEpoch
Objects == [epoch : Epochs, group : 1..MaxGroups, object : 0..MaxObjects]
Configs == [epoch : 1..MaxEpoch, layout : 1..MaxLayout, screens : SUBSET Screens]

TypeOK ==
    /\ attached \in BOOLEAN /\ existing \in BOOLEAN
    /\ stream \in {"idle", "layout", "missing", "config", "ended"}
    /\ why \in {"", "viewer", "media", "configure", "limit"}
    /\ os \in SUBSET Screens
    /\ layout \in [epoch : 1..MaxLayout, screens : SUBSET Screens]
    /\ config \in Configs \cup {None} /\ counter \in Epochs
    /\ flow # None => flow.pending \in Seq(Objects) /\ Len(flow.pending) <= Ledger
    /\ told.layout \in 0..MaxLayout /\ told.config \in Configs \cup {None}
    /\ media # None => media.group \in 0..MaxGroups /\ media.object \in 0..MaxObjects

Init ==
    /\ attached = TRUE /\ existing \in BOOLEAN
    /\ stream = "idle" /\ why = ""
    /\ \E s \in {t \in SUBSET Screens : Cardinality(t) <= MaxViewports} :
        /\ os = s /\ layout = [epoch |-> 1, screens |-> s]
        /\ IF existing THEN config = [epoch |-> 1, layout |-> 1, screens |-> s] /\ counter = 1
                       ELSE config = None /\ counter = 0
    /\ flow = None
    /\ told = [layout |-> 1, config |-> None] /\ media = None

-----------------------------------------------------------------------------
(* desktop_flow.rs *)

NewFlow(e) == [epoch |-> e, pending |-> <<>>, enabled |-> FALSE, refresh |-> FALSE, age |-> "young"]
Has(f, o) == \E i \in DOMAIN f.pending : f.pending[i] = o
Above(a, b) == a.group > b.group \/ (a.group = b.group /\ a.object > b.object)

SentGrows(f, o) == [f EXCEPT !.pending = Append(@, o)]
Sent(f, o) ==
    LET kept == IF Len(f.pending) = Ledger THEN Tail(f.pending) ELSE f.pending
    IN [f EXCEPT !.pending = Append(kept, o), !.age = IF kept = <<>> THEN "young" ELSE f.age]
receipt(f, o) ==
    IF ~Has(f, o) THEN f
    ELSE [f EXCEPT !.enabled = TRUE, !.age = "young",
                   !.pending = SelectSeq(@, LAMBDA p : Above(p, o))]
failed_group(f, g) ==
    [f EXCEPT !.refresh = TRUE, !.pending = SelectSeq(@, LAMBDA p : p.group # g)]

\* next: what a producer may do, and the flow it leaves.
next(f) ==
    IF f.refresh THEN [decision |-> "refresh", flow |-> [f EXCEPT !.refresh = FALSE, !.pending = <<>>]]
    ELSE IF ~f.enabled \/ f.pending = <<>> THEN [decision |-> "send", flow |-> f]
    ELSE IF f.age = "dead" THEN [decision |-> "refresh", flow |-> [f EXCEPT !.pending = <<>>, !.age = "young"]]
    ELSE IF Len(f.pending) >= Window \/ f.age = "late" THEN [decision |-> "wait", flow |-> f]
    ELSE [decision |-> "send", flow |-> f]

\* media_flow: the flow of a track, of its epoch; a stale producer is fenced off.
NotFenced(e) == attached
Current(e) == config # None /\ config.epoch = e
FlowOf(e) == IF flow # None /\ flow.epoch = e THEN flow ELSE NewFlow(e)

Age ==
    /\ flow # None /\ flow.pending # <<>> /\ flow.age # "dead"
    /\ flow' = [flow EXCEPT !.age = IF flow.age = "young" THEN "late" ELSE "dead"]
    /\ UNCHANGED <<attached, existing, streamVars, os, layout, config, counter, media>>

-----------------------------------------------------------------------------
(* Layouts and configurations. *)

Hotplug(s) ==
    /\ s # os /\ layout.epoch < MaxLayout /\ os = layout.screens
    /\ os' = s
    /\ UNCHANGED <<attached, existing, streamVars, layout, config, counter, flow, media>>

\* mutate drops every entry of an attachment that is gone.
Removed ==
    attached' = FALSE /\ config' = None /\ flow' = None

\* configure_impl up to the new configuration; its displays were read before.
Vanished(screens) == ~(screens \subseteq os)
NewConfig(screens) ==
    [epoch |-> counter + 1, layout |-> layout.epoch, screens |-> screens]

\* ConfigureDesktopViewports of a viewer that sizes its own viewports.
configure(screens) ==
    /\ attached /\ ~existing /\ ~Vanished(screens) /\ Cardinality(screens) <= MaxViewports
    /\ counter < MaxEpoch /\ counter' = counter + 1
    /\ config' = NewConfig(screens)
    /\ UNCHANGED <<attached, existing, streamVars, os, layout, flow, media>>

\* A quality change replaces the configuration of a server-owned attachment.
Requalify ==
    /\ attached /\ existing /\ config # None /\ ~Vanished(config.screens)
    /\ counter < MaxEpoch /\ counter' = counter + 1
    /\ config' = NewConfig(config.screens)
    /\ UNCHANGED <<attached, existing, streamVars, os, layout, flow, media>>

Detach ==
    /\ attached /\ Removed
    /\ UNCHANGED <<existing, streamVars, os, layout, counter, media>>

-----------------------------------------------------------------------------
(* The attach stream. *)

refresh_layout ==
    IF os = layout.screens THEN UNCHANGED <<layout, config>>
    ELSE layout' = [epoch |-> layout.epoch + 1, screens |-> os] /\ config' = None

\* The tick of another attachment's stream refreshes the layout for all.
OtherTick ==
    /\ os # layout.screens /\ refresh_layout
    /\ UNCHANGED <<attached, existing, streamVars, os, counter, flow, media>>

\* A change of the broker, or the tick, which refreshes the layout first.
Wake ==
    /\ stream = "idle" /\ stream' = "layout"
    /\ \/ UNCHANGED <<layout, config>>
       \/ refresh_layout
    /\ UNCHANGED <<attached, existing, why, told, os, counter, flow, media>>

Ends(reason) == stream' = "ended" /\ why' = reason

\* A new layout is told, and its media stopped.
TellLayout ==
    /\ stream = "layout"
    /\ \/ ~attached /\ Ends("viewer") /\ media' = None /\ UNCHANGED told
       \/ /\ attached /\ stream' = "missing" /\ UNCHANGED why
          /\ IF layout.epoch = told.layout THEN UNCHANGED <<told, media>>
             ELSE told' = [told EXCEPT !.layout = layout.epoch] /\ media' = None
    /\ UNCHANGED <<attached, existing, os, layout, config, counter, flow>>

\* configure_existing when there is no configuration. An error other than
\* Stale ends the stream, and its AttachmentCleanup the attachment.
configure_existing ==
    /\ stream = "missing"
    /\ \/ /\ ~existing \/ config # None
          /\ stream' = "config"
          /\ UNCHANGED <<attached, why, config, counter, flow, media>>
       \/ /\ existing /\ config = None
          /\ LET bad == IF ~attached THEN "viewer"
                        ELSE IF Cardinality(layout.screens) > MaxViewports THEN "limit"
                        ELSE IF Vanished(layout.screens) THEN "configure" ELSE ""
             IN IF bad # "" THEN Ends(bad) /\ Removed /\ media' = None /\ UNCHANGED counter
                ELSE /\ counter < MaxEpoch /\ counter' = counter + 1
                     /\ config' = NewConfig(layout.screens)
                     /\ stream' = "config"
                     /\ UNCHANGED <<attached, why, flow, media>>
    /\ UNCHANGED <<existing, told, os, layout>>

\* A new configuration is told if it is of the layout told last, and its media started.
AnyLayout(c) == TRUE
OfToldLayout(c) == c = None \/ c.layout = told.layout
SameLayout(c) == c = told.config \/ (c # None /\ told.config # None /\ c.layout = told.config.layout)
AlreadyTold(c) == c = told.config
TellConfiguration ==
    /\ stream = "config" /\ stream' = "idle"
    /\ IF AlreadyTold(config) \/ ~OfToldLayout(config) THEN UNCHANGED <<told, media>>
       ELSE /\ told' = [told EXCEPT !.config = config]
            /\ media' = IF config = None \/ config.screens = {} THEN None
                        ELSE [epoch |-> config.epoch, step |-> "pace", group |-> 0, object |-> 0]
    /\ UNCHANGED <<attached, existing, why, os, layout, config, counter, flow>>

\* The viewer stops the stream, its credential ends, or the write backs up.
StopStream ==
    /\ stream # "ended" /\ Ends("viewer") /\ Removed /\ media' = None
    /\ UNCHANGED <<existing, told, os, layout, counter>>

-----------------------------------------------------------------------------
(* The media task. *)

Task == <<attached, existing, streamVars, os, layout, config, counter>>
GroupOver == media' = [media EXCEPT !.step = "pace", !.object = 0]
GroupFails ==
    /\ GroupOver
    /\ flow' = IF Current(media.epoch) THEN failed_group(FlowOf(media.epoch), media.group) ELSE flow

\* A paced step: the task ends with its attachment, waits, or asks for a group.
Pace ==
    /\ media # None /\ media.step = "pace"
    /\ \/ ~attached /\ media' = None /\ UNCHANGED flow
       \/ /\ attached /\ Current(media.epoch) /\ media.group < MaxGroups
          /\ LET n == next(FlowOf(media.epoch)) IN
             /\ n.decision # "wait" /\ flow' = n.flow
             /\ media' = [media EXCEPT !.step = "first", !.group = @ + 1]
    /\ UNCHANGED Task

\* The first frame: none when nothing changed or the encoder is busy; a failed
\* encoder takes the attachment with it.
FirstFrame ==
    /\ media # None /\ media.step = "first"
    /\ \/ GroupOver /\ UNCHANGED flow
       \/ GroupFails
       \/ media' = [media EXCEPT !.step = "send"] /\ UNCHANGED flow
    /\ UNCHANGED Task

EncoderFails ==
    /\ media # None /\ media.step \in {"first", "send"}
    /\ Removed /\ media' = None
    /\ UNCHANGED <<existing, streamVars, os, layout, counter>>

\* One object: the window is asked again after the first, and the attachment.
SendObject ==
    /\ media # None /\ media.step = "send" /\ media.object < MaxObjects /\ attached
    /\ LET o == [epoch |-> media.epoch, group |-> media.group, object |-> media.object]
           n == IF media.object = 0 THEN [decision |-> "send", flow |-> flow]
                ELSE IF Current(media.epoch) THEN next(FlowOf(media.epoch))
                ELSE [decision |-> "wait", flow |-> flow]
       IN /\ n.decision = "send"
          /\ flow' = IF Current(media.epoch) THEN Sent(FlowOf(media.epoch), o) ELSE flow
          /\ media' = [media EXCEPT !.object = @ + 1]
    /\ UNCHANGED Task

\* The group is finished, in time or slowly, or abandoned: a write or the
\* window timed out, a refresh was asked for, the attachment is gone.
FinishGroup ==
    /\ media # None /\ media.step = "send"
    /\ \/ media.object > 0 /\ GroupOver /\ UNCHANGED flow
       \/ GroupFails
    /\ UNCHANGED Task

-----------------------------------------------------------------------------
(* The viewer's feedback: accept_input of a Feedback event. A viewer may    *)
(* name any object, sent or not, received before or not.                    *)

Feedback(o, keyframe) ==
    /\ attached /\ Current(o.epoch) 
    /\ LET f == receipt(FlowOf(o.epoch), o) IN
        flow' = IF keyframe THEN [f EXCEPT !.refresh = TRUE] ELSE f
    /\ UNCHANGED <<attached, existing, streamVars, os, layout, config, counter, media>>

-----------------------------------------------------------------------------
AttachStream == Wake \/ TellLayout \/ configure_existing \/ TellConfiguration
MediaTask == Pace \/ FirstFrame \/ SendObject \/ FinishGroup

Next ==
    \/ AttachStream \/ MediaTask \/ Requalify
    \/ StopStream \/ Detach \/ EncoderFails \/ OtherTick
    \/ Age
    \/ \E s \in SUBSET Screens : Hotplug(s) \/ configure(s)
    \/ \E o \in Objects, k \in BOOLEAN : Feedback(o, k)

\* Tasks run, calls return, time passes; the tick comes again and again.
Tick == Wake /\ layout'.screens = os
Fairness ==
    /\ WF_vars(AttachStream) /\ SF_vars(Tick) /\ WF_vars(MediaTask) /\ WF_vars(Age)
Spec == Init /\ [][Next]_vars
FairSpec == Spec /\ Fairness

-----------------------------------------------------------------------------
(* A configuration is told only after the layout it is of (the attach loop *)
(* reads the two under different locks).                                   *)
ToldInOrder ==
    [][told'.config # told.config /\ told'.config # None => told'.config.layout = told.layout]_vars

(* The media task of an older configuration never takes back the flow of a *)
(* newer one, nor leaves its objects in it (desktop.rs media_flow).        *)
FlowNeverGoesBack ==
    [][flow # None /\ flow' # None =>
        flow'.epoch >= flow.epoch /\ \A i \in DOMAIN flow'.pending : flow'.pending[i].epoch = flow'.epoch]_vars

(* A viewer that stops answering is not waited for for ever: its track is  *)
(* refreshed (desktop_flow.rs next).                                       *)
Held == media # None /\ media.step = "pace" /\ Current(media.epoch) /\ media.group < MaxGroups
StalledIsRefreshed == Held ~> ~Held

(* An automatic attachment follows the displays: the stream ends, or the   *)
(* media task is of the present configuration and that of the present      *)
(* displays.                                                               *)
Following ==
    /\ config # None /\ layout.screens = os /\ config.screens = os
    /\ config.screens = {} \/ (media # None /\ media.epoch = config.epoch)
VideoFollows == (existing /\ attached) ~> (~attached \/ Following \/ (config = None /\ counter = MaxEpoch))

(* "It follows the current OS display set, including hotplug, removal and  *)
(* an empty desktop": a change of displays does not end the stream.        *)
FollowsDisplays == why # "configure"
=============================================================================
