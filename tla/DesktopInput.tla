---------------------------- MODULE DesktopInput ----------------------------
(***************************************************************************)
(* The desktop input broker of one daemon: daemon/host/src/desktop.rs      *)
(* (Desktop and the part of Runtime that owns it) with the RPC handlers of *)
(* server/desktop_rpc.rs that drive it.                                    *)
(*                                                                         *)
(* Viewers attach, one of them holds control, and its key and button       *)
(* presses stay down in the operating system until somebody releases them. *)
(* The broker must never let a press outlive the control under which it    *)
(* was made, whatever the interleaving of RPC handlers, the per-connection *)
(* expiry tick, cleanup tasks spawned by dropped guards, display changes,  *)
(* a backend whose calls fail half way, and the loss of the native helper. *)
(*                                                                         *)
(* Every handler first runs desktop_auth, which keeps the credential store *)
(* locked until the handler is done; cleanup tasks do not take that lock.  *)
(* Each call of Runtime::mutate is one action here.  Codecs, tracks and    *)
(* media flow are in DesktopMedia; the helper itself is in DesktopHelper.  *)
(***************************************************************************)
EXTENDS Integers, FiniteSets

CONSTANTS
    Connections,  \* WebTransport sessions, never reused
    Clients,      \* paired clients
    ClientOf,     \* the client each connection authenticated as
    Keys, Buttons,\* keyboard usages and pointer buttons
    Modes,        \* keyboard modes viewers attach with
    MaxAttached,  \* attachments.len() >= 16
    MaxId, MaxEpoch, MaxLayout,  \* MAX_SAFE of each counter
    Lease,        \* LEASE_MS in ticks
    Displays,     \* display arrangements the OS can report
    MaxGeneration \* bound on helper losses

NoHolder == 0
NoDisplays == 0
NoAuth == [conn |-> 0, valid |-> {}]

ConstantsAssumption ==
    /\ ClientOf \in [Connections -> Clients]
    /\ 0 \notin Connections
    /\ Keys \cap Buttons = {}
    /\ Modes \subseteq {"Physical", "Text"}
    /\ NoDisplays \notin Displays
    /\ {MaxAttached, MaxId, MaxEpoch, MaxLayout, Lease} \subseteq Nat \ {0}
    /\ MaxGeneration \in Nat

VARIABLES
    d,                \* Desktop: attachments, holder, epochs, held keys, poison
    down,             \* what the OS really holds: [what, by, epoch] of the press
    generation,       \* Backend::generation()
    displays,         \* Backend::displays()
    layout_displays,  \* Runtime.layout_displays
    seen,             \* displays read by refresh_layout calls not applied yet
    streams,          \* Runtime.streams
    guards,           \* InputGuards of the input streams being served
    viewers,          \* attach streams alive, each owning an AttachmentCleanup
    open,             \* connections, each owning a ConnectionCleanup
    auth,             \* the Auth of the handler that holds the credential store
    valid,            \* clients with a live credential
    gate              \* WorkGate: FALSE while an update has frozen admission

vars == <<d, down, generation, displays, layout_displays, seen, streams, guards,
          viewers, open, auth, valid, gate>>

Ids == 1..MaxId

-----------------------------------------------------------------------------
(* Desktop: operations on x = [d, down], returning the set of results       *)
(* [d, down, r] they can end with.  A failed call of the backend may have   *)
(* had any part of its effect.                                              *)

Attached(x) == DOMAIN x.d.attachments

Ok(x) == [d |-> x.d, down |-> x.down, r |-> "ok"]
Err(x, e) == [d |-> x.d, down |-> x.down, r |-> e]

Without(x, ids) ==
    [x EXCEPT !.d.attachments = [i \in Attached(x) \ ids |-> @[i]]]

\* release_held: ReleaseAll; a failure poisons the broker and keeps its books.
release_held(x) ==
    {[d |-> [x.d EXCEPT !.keys = {}, !.buttons = {}], down |-> {}, r |-> "ok"]}
    \cup {[d |-> [x.d EXCEPT !.poisoned = TRUE], down |-> rest, r |-> "Backend"] :
             rest \in SUBSET x.down}

releaseWrapping(x) ==
    release_held([x EXCEPT !.d.holder = NoHolder, !.d.epoch = @ + 1])

release(x) ==
    IF x.d.epoch = MaxEpoch
    THEN {Err([x EXCEPT !.d.holder = NoHolder, !.d.poisoned = TRUE], "Limit")}
    ELSE release_held([x EXCEPT !.d.holder = NoHolder, !.d.epoch = @ + 1])

removeIgnoringPoison(x, id) ==
    IF x.d.holder = id
    THEN {IF o.r = "ok" THEN Ok(Without(o, {id})) ELSE o : o \in release(x)}
    ELSE {Ok(Without(x, {id}))}

\* remove: a failed release keeps the attachment, and with it the work guard.
remove(x, id) ==
    IF x.d.poisoned THEN {Err(x, "Backend")}
    ELSE IF x.d.holder = id
    THEN {IF o.r = "ok" THEN Ok(Without(o, {id})) ELSE o : o \in release(x)}
    ELSE {Ok(Without(x, {id}))}

removeAllDespiteFailure(x, ids) ==
    IF x.d.holder \in ids THEN {[Without(o, ids) EXCEPT !.r = o.r] : o \in release(x)}
    ELSE {Ok(Without(x, ids))}

\* The loops of expire and disconnect: in order of id, up to the first failure.
removeAll(x, ids) ==
    IF ids = {} THEN {Ok(x)}
    ELSE IF x.d.poisoned THEN {Err(x, "Backend")}
    ELSE IF x.d.holder \in ids
    THEN {IF o.r = "ok" THEN Ok(Without(o, ids))
          ELSE Err(Without(o, {i \in ids : i < x.d.holder}), o.r) : o \in release(x)}
    ELSE {Ok(Without(x, ids))}

expireByLeaseOnly(x, cred) ==
    removeAll(x, {i \in Attached(x) : x.d.attachments[i].lease = 0})
expireByCredentialOnly(x, cred) ==
    removeAll(x, {i \in Attached(x) : ClientOf[x.d.attachments[i].conn] \notin cred})

expire(x, cred) ==
    removeAll(x, {i \in Attached(x) : \/ x.d.attachments[i].lease = 0
                                      \/ ClientOf[x.d.attachments[i].conn] \notin cred})

disconnect(x, c) == removeAll(x, {i \in Attached(x) : x.d.attachments[i].conn = c})

\* authorize: expire, then the attachment must be this connection's.
authorize(x, cred, c, id) ==
    {IF o.r # "ok" THEN o
     ELSE IF id \notin Attached(o) THEN Err(o, "NotFound")
     ELSE IF o.d.attachments[id].conn # c THEN Err(o, "Unauthorized")
     ELSE IF o.d.poisoned THEN Err(o, "Backend")
     ELSE o : o \in expire(x, cred)}

attach(x, cred, c, mode, admit) ==
    {IF o.r # "ok" THEN o
     ELSE IF ClientOf[c] \notin cred THEN Err(o, "Unauthorized")
     ELSE IF o.d.poisoned THEN Err(o, "Backend")
     ELSE IF Cardinality(Attached(o)) >= MaxAttached THEN Err(o, "Limit")
     ELSE IF ~admit THEN Err(o, "Busy")
     ELSE IF o.d.next_id = MaxId THEN Err(o, "Limit")
     ELSE Ok([o EXCEPT !.d.next_id = @ + 1,
                       !.d.attachments = [i \in Attached(o) \cup {o.d.next_id + 1} |->
                           IF i \in Attached(o) THEN @[i]
                           ELSE [conn |-> c, mode |-> mode, lease |-> Lease, view |-> 0]]])
     : o \in expire(x, cred)}

detach(x, cred, c, id) ==
    UNION {IF o.r = "ok" THEN remove([d |-> o.d, down |-> o.down], id) ELSE {o} :
             o \in authorize(x, cred, c, id)}

renew(x, cred, c, id) ==
    {IF o.r = "ok" THEN [o EXCEPT !.d.attachments[id].lease = Lease] ELSE o :
       o \in authorize(x, cred, c, id)}

set_controlKeepsHeld(x, cred, c, id, action) ==
    {IF o.r = "ok" /\ action # "Release" /\ (action = "Takeover" \/ o.d.holder = NoHolder)
     THEN [o EXCEPT !.d.holder = id] ELSE o : o \in authorize(x, cred, c, id)}

set_control(x, cred, c, id, action) ==
    UNION {IF o.r # "ok" THEN {o}
           ELSE IF action = "Release"
           THEN IF o.d.holder = id THEN release([d |-> o.d, down |-> o.down]) ELSE {o}
           ELSE IF o.d.holder = id THEN {o}
           ELSE IF o.d.holder # NoHolder /\ action = "Acquire" THEN {Err(o, "Busy")}
           ELSE {IF n.r = "ok" THEN [n EXCEPT !.d.holder = id] ELSE n :
                   n \in release([d |-> o.d, down |-> o.down])}
           : o \in authorize(x, cred, c, id)}

\* configure: viewports belong to the layout epoch they were checked against.
configure(x, cred, c, id, layout) ==
    {IF o.r # "ok" THEN o
     ELSE IF layout # o.d.layout_epoch THEN Err(o, "Stale")
     ELSE [o EXCEPT !.d.attachments[id].view = layout] :
       o \in authorize(x, cred, c, id)}

layout_changedKeepsViewports(x) ==
    IF x.d.layout_epoch = MaxLayout THEN Err(x, "Limit")
    ELSE Ok([x EXCEPT !.d.layout_epoch = @ + 1])

layout_changed(x) ==
    IF x.d.layout_epoch = MaxLayout THEN Err(x, "Limit")
    ELSE Ok([x EXCEPT !.d.layout_epoch = @ + 1,
                      !.d.attachments = [i \in Attached(x) |-> [@[i] EXCEPT !.view = 0]]])

-----------------------------------------------------------------------------
(* Desktop::input.  An event names what it does to the OS; coordinates are  *)
(* abstracted to whether the viewport of the frame is configured, sequence  *)
(* numbers to whether the frame carries the next one.                       *)

Events ==
    [kind : {"key"}, what : Keys, down : BOOLEAN]
    \cup [kind : {"button"}, what : Buttons, down : BOOLEAN]
    \cup [kind : {"pointer", "text", "releaseAll", "unsupported"}, what : {0}, down : {FALSE}]

NeedsGeometry(ev) == ev.kind = "pointer" \/ (ev.kind = "button" /\ ev.down)

\* The books the broker keeps of an event, updated before it is sent.
Booked(x, ev) ==
    CASE ev.kind = "key" /\ ev.down -> [x EXCEPT !.d.keys = @ \cup {ev.what}]
      [] ev.kind = "key" /\ ~ev.down -> [x EXCEPT !.d.keys = @ \ {ev.what}]
      [] ev.kind = "button" /\ ev.down -> [x EXCEPT !.d.buttons = @ \cup {ev.what}]
      [] ev.kind = "button" /\ ~ev.down -> [x EXCEPT !.d.buttons = @ \ {ev.what}]
      [] ev.kind = "releaseAll" -> [x EXCEPT !.d.keys = {}, !.d.buttons = {}]
      [] OTHER -> x

\* What the OS holds after an event of attachment id in control period e.
Injected(held, ev, id, e) ==
    CASE ev.kind \in {"key", "button"} /\ ev.down ->
            {p \in held : p.what # ev.what} \cup {[what |-> ev.what, by |-> id, epoch |-> e]}
      [] ev.kind \in {"key", "button"} /\ ~ev.down -> {p \in held : p.what # ev.what}
      [] ev.kind = "releaseAll" -> {}
      [] OTHER -> held

SentWithoutRelease(x, ev, id, e) ==
    {[d |-> x.d, down |-> Injected(x.down, ev, id, e), r |-> "ok"], Err(x, "Backend")}

\* send_viewport: a failure releases control, and its own failure is ignored.
Sent(x, ev, id, e) ==
    {[d |-> x.d, down |-> Injected(x.down, ev, id, e), r |-> "ok"]}
    \cup UNION {{Err(o, "Backend") : o \in release([d |-> x.d, down |-> held])} :
                  held \in {x.down, Injected(x.down, ev, id, e)}}

input(x, cred, c, f) ==
    UNION {IF o.r # "ok" THEN {o}
           ELSE IF o.d.holder # f.id \/ f.epoch # o.d.epoch THEN {Err(o, "Stale")}
           ELSE IF ~f.next THEN {Err(o, "Stale")}
           ELSE LET y == [d |-> o.d, down |-> o.down]
                    a == o.d.attachments[f.id]
                IN  IF NeedsGeometry(f.ev) /\ f.layout # y.d.layout_epoch
                    THEN {Err(y, "Stale")}
                    ELSE IF NeedsGeometry(f.ev) /\ a.view = 0 THEN {Err(y, "Invalid")}
                    ELSE IF f.ev.kind = "key" /\ a.mode = "Text" THEN {Err(y, "Invalid")}
                    ELSE IF f.ev.kind = "text" /\ (a.mode # "Text" \/ y.d.keys # {})
                    THEN {Err(y, "Invalid")}
                    ELSE IF f.ev.kind = "unsupported" THEN {Err(y, "Unsupported")}
                    ELSE Sent(Booked(y, f.ev), f.ev, f.id, f.epoch)
           : o \in authorize(x, cred, c, f.id)}

\* accept_input of a Feedback event: it needs no control, only a configuration.
feedback(x, cred, c, f) ==
    {IF o.r # "ok" THEN o
     ELSE IF o.d.attachments[f.id].view = 0 \/ f.layout # o.d.attachments[f.id].view
     THEN Err(o, "Stale")
     ELSE IF ~f.next THEN Err(o, "Stale")
     ELSE o :
       o \in authorize(x, cred, c, f.id)}

-----------------------------------------------------------------------------
(* Runtime                                                                  *)

X == [d |-> d, down |-> down]

Lost == d.backend_generation # generation

\* mutate: nothing runs on a state of an older helper generation.
mutate(outcomes) == IF Lost THEN {Err(X, "Backend")} ELSE outcomes

Becomes(o) == d' = o.d /\ down' = o.down

Init ==
    /\ d = [attachments |-> [i \in {} |-> 0], holder |-> NoHolder, epoch |-> 1, next_id |-> 0,
            layout_epoch |-> 1, keys |-> {}, buttons |-> {}, poisoned |-> FALSE,
            backend_generation |-> 0]
    /\ down = {} /\ generation = 0
    /\ displays \in Displays /\ layout_displays = NoDisplays /\ seen = {}
    /\ streams = {} /\ guards = {} /\ viewers = {}
    /\ open = Connections
    /\ auth = NoAuth /\ valid = Clients /\ gate = TRUE

\* reconcile_backend: backend.recover() releases what a lost helper left down;
\* only then the old attachments are retired and the epochs move on.
ReconcileOk ==
    IF ~Lost THEN UNCHANGED <<d, down, layout_displays, streams>>
    ELSE /\ d.epoch < MaxEpoch /\ d.layout_epoch < MaxLayout
         /\ d' = [d EXCEPT !.epoch = @ + 1, !.layout_epoch = @ + 1, !.holder = NoHolder,
                           !.keys = {}, !.buttons = {}, !.attachments = [i \in {} |-> 0],
                           !.poisoned = FALSE, !.backend_generation = generation]
         /\ down' = {} /\ streams' = {} /\ layout_displays' = NoDisplays

\* The recovery succeeded but an epoch is exhausted: the state is left alone.
ReconcileExhausted ==
    /\ Lost
    /\ d.epoch = MaxEpoch \/ d.layout_epoch = MaxLayout
    /\ d' = (IF d.epoch = MaxEpoch THEN d ELSE [d EXCEPT !.epoch = @ + 1])
    /\ down' = {} /\ UNCHANGED <<layout_displays, streams>>

-----------------------------------------------------------------------------
(* desktop_auth, and the handlers that run under its Auth                   *)

\* The store is loaded and locked; a revoked client only triggers cleanup, any
\* other goes on with the backend reconciled and the dead attachments expired.
desktop_auth(c) ==
    /\ auth = NoAuth /\ c \in open
    /\ \/ /\ ClientOf[c] \notin valid
          /\ \E o \in mutate(expire(X, valid)) : Becomes(o)
          /\ UNCHANGED <<auth, layout_displays, streams>>
       \/ /\ ClientOf[c] \in valid /\ gate /\ Lost
          /\ ReconcileOk        \* no attachment is left to expire
          /\ auth' = [conn |-> c, valid |-> valid]
       \/ /\ ClientOf[c] \in valid /\ gate /\ ReconcileExhausted
          /\ UNCHANGED auth
       \/ /\ ClientOf[c] \in valid /\ gate /\ ~Lost
          /\ \E o \in expire(X, valid) :
               /\ Becomes(o)
               /\ auth' = IF o.r = "ok"
                          THEN [conn |-> c, valid |-> valid]
                          ELSE NoAuth
          /\ UNCHANGED <<layout_displays, streams>>
    /\ UNCHANGED <<generation, displays, seen, guards, viewers, open, valid, gate>>

\* The mutate of a handler, which then drops its Auth.
HandlerStep(outcomes) ==
    /\ auth # NoAuth /\ auth' = NoAuth
    /\ \E o \in mutate(outcomes) : Becomes(o)
    /\ UNCHANGED <<generation, displays, open, valid, gate>>

\* set_desktop_control_rpc, renew_desktop_lease_rpc, detach_desktop_rpc,
\* configure_desktop_viewports_rpc
SetDesktopControl(id, action) ==
    /\ HandlerStep(set_control(X, auth.valid, auth.conn, id, action))
    /\ UNCHANGED <<layout_displays, seen, streams, guards, viewers>>

RenewDesktopLease(id) ==
    /\ HandlerStep(renew(X, auth.valid, auth.conn, id))
    /\ UNCHANGED <<layout_displays, seen, streams, guards, viewers>>

DetachDesktop(id) ==
    /\ HandlerStep(detach(X, auth.valid, auth.conn, id))
    /\ UNCHANGED <<layout_displays, seen, streams, guards, viewers>>

ConfigureDesktopViewports(id, layout) ==
    /\ HandlerStep(configure(X, auth.valid, auth.conn, id, layout))
    /\ UNCHANGED <<layout_displays, seen, streams, guards, viewers>>

\* The closure of refresh_layout for the displays v the call has read.
Relaid(x, v) ==
    IF layout_displays = v THEN {[o |-> Ok(x), shown |-> v]}
    ELSE IF layout_displays = NoDisplays THEN {[o |-> Ok(x), shown |-> v]}
    ELSE {LET n == IF o.r = "ok" THEN layout_changed([d |-> o.d, down |-> o.down]) ELSE o
          IN  [o |-> n, shown |-> IF n.r = "ok" THEN v ELSE layout_displays] :
            o \in IF x.d.holder # NoHolder THEN release_held(x) ELSE {Ok(x)}}

RefreshApplies(v) ==
    IF Lost THEN UNCHANGED <<d, down, layout_displays>>
    ELSE \E n \in Relaid(X, v) : Becomes(n.o) /\ layout_displays' = n.shown

AttachDesktopUnguarded(mode) ==
    /\ auth # NoAuth /\ auth' = NoAuth
    /\ ~Lost
    /\ \E n \in Relaid(X, displays) :
         /\ layout_displays' = n.shown
         /\ \E o \in attach([d |-> n.o.d, down |-> n.o.down], auth.valid, auth.conn, mode,
                             gate) : Becomes(o)
    /\ UNCHANGED <<generation, displays, seen, streams, guards, viewers, open, valid, gate>>

\* attach_desktop_stream_rpc: refresh_layout, then attach; the new attachment
\* and its cleanup guard exist before the first event is written.
AttachDesktop(mode) ==
    /\ auth # NoAuth /\ auth' = NoAuth
    /\ \/ /\ ~Lost
          /\ \E n \in Relaid(X, displays) :
               /\ layout_displays' = n.shown
               /\ IF n.o.r # "ok" THEN Becomes(n.o) /\ UNCHANGED viewers
                  ELSE \E o \in attach([d |-> n.o.d, down |-> n.o.down], auth.valid,
                                       auth.conn, mode, gate) :
                         /\ Becomes(o)
                         /\ viewers' = IF o.r = "ok" THEN viewers \cup {o.d.next_id}
                                       ELSE viewers
       \/ UNCHANGED <<d, down, layout_displays, viewers>>  \* unsupported, or lost
    /\ UNCHANGED <<generation, displays, seen, streams, guards, open, valid, gate>>

\* write_desktop_input_rpc and begin_input: ownership is validated before the
\* one stream of the attachment is reserved; the guard remembers the input
\* epoch of this moment.
begin_input(id) ==
    /\ auth # NoAuth /\ auth' = NoAuth
    /\ \E o \in mutate(authorize(X, auth.valid, auth.conn, id)) :
         /\ Becomes(o)
         /\ IF o.r # "ok" \/ id \in streams THEN UNCHANGED <<streams, guards>>
            ELSE /\ streams' = streams \cup {id}
                 /\ guards' = guards \cup {[id |-> id, conn |-> auth.conn, epoch |-> o.d.epoch]}
    /\ UNCHANGED <<generation, displays, layout_displays, seen, viewers, open, valid, gate>>

\* Drop for InputGuard, when the stream did not end cleanly: only the control
\* period the stream began in is released.
Dropped(g, x) ==
    IF ~Lost /\ x.d.holder = g.id /\ x.d.epoch = g.epoch
    THEN release([d |-> x.d, down |-> x.down]) ELSE {x}

\* One frame of a stream: accepted, or the handler returns and drops its guard.
Frame(g, outcomes) ==
    /\ auth.conn = g.conn
    /\ \E o \in mutate(outcomes) :
         \/ o.r = "ok" /\ Becomes(o) /\ UNCHANGED <<guards, streams>>
         \/ /\ o.r # "ok"
            /\ \E n \in Dropped(g, o) : Becomes(n)
            /\ guards' = guards \ {g} /\ streams' = streams \ {g.id}
    /\ auth' = NoAuth
    /\ UNCHANGED <<generation, displays, layout_displays, seen, viewers, open, valid, gate>>

\* Frames composed now or before the last change of control or layout, in
\* order or repeated.
Frames(g, events) ==
    [id : {g.id}, epoch : {d.epoch, d.epoch - 1}, layout : {d.layout_epoch, d.layout_epoch - 1},
     next : {TRUE}, ev : events]
    \cup [id : {g.id}, epoch : {d.epoch}, layout : {d.layout_epoch}, next : {FALSE},
          ev : {e \in events : e.down}]

FeedbackEvent == [kind |-> "feedback", what |-> 0, down |-> FALSE]

WriteDesktopInput(g, f) == Frame(g, input(X, auth.valid, auth.conn, f))
WriteFeedback(g, f) == Frame(g, feedback(X, auth.valid, auth.conn, f))

\* A handler whose connection is gone is dropped with its Auth.
AuthDropped ==
    /\ auth # NoAuth /\ auth.conn \notin open
    /\ auth' = NoAuth
    /\ UNCHANGED <<d, down, generation, displays, layout_displays, seen, streams, guards,
                   viewers, open, valid, gate>>

-----------------------------------------------------------------------------
(* What runs outside the credential lock                                    *)

\* A clean end of the input stream keeps control for the next stream.
StreamCompletes(g) ==
    /\ guards' = guards \ {g} /\ streams' = streams \ {g.id}
    /\ UNCHANGED <<d, down, generation, displays, layout_displays, seen, viewers, open, auth,
                   valid, gate>>

\* Reset, malformed data, five idle seconds, a failed desktop_auth.
StreamBreaks(g) ==
    /\ \E o \in Dropped(g, Ok(X)) : Becomes(o)
    /\ guards' = guards \ {g} /\ streams' = streams \ {g.id}
    /\ UNCHANGED <<generation, displays, layout_displays, seen, viewers, open, auth, valid,
                   gate>>

\* Drop for AttachmentCleanup: the attach stream has ended, for whatever
\* reason, and the removal it spawned runs.
AttachStreamEnds(id) ==
    /\ viewers' = viewers \ {id}
    /\ \E o \in mutate(remove(X, id)) : Becomes(o)
    /\ UNCHANGED <<generation, displays, layout_displays, seen, streams, guards, open, auth,
                   valid, gate>>

\* Drop for ConnectionCleanup; a handler of the connection may still be running.
ConnectionEnds(c) ==
    /\ open' = open \ {c}
    /\ \E o \in mutate(disconnect(X, c)) : Becomes(o)
    /\ UNCHANGED <<generation, displays, layout_displays, seen, streams, guards, viewers,
                   auth, valid, gate>>

\* The 100 ms tick of a connection; an unreadable store fails every credential.
ExpireTick(readable) ==
    /\ auth = NoAuth /\ open # {} /\ DOMAIN d.attachments # {}
    /\ \E o \in mutate(expire(X, IF readable THEN valid ELSE {})) : Becomes(o)
    /\ UNCHANGED <<generation, displays, layout_displays, seen, streams, guards, viewers,
                   open, auth, valid, gate>>

\* refresh_layout of the attach streams' ticks: the displays are read first,
\* and applied under the state lock later.
RefreshReads ==
    /\ viewers # {} /\ gate
    /\ ReconcileOk
    /\ seen' = IF layout_displays' = displays THEN seen ELSE seen \cup {displays}
    /\ UNCHANGED <<generation, displays, guards, viewers, open, auth,
                   valid, gate>>

RefreshLayout(v) ==
    /\ RefreshApplies(v)
    /\ seen' = seen \ {v}
    /\ UNCHANGED <<generation, displays, streams, guards, viewers, open, auth, valid, gate>>

-----------------------------------------------------------------------------
(* Environment: the OS, the helper, the credential store, updates and time  *)

DisplaysChange ==
    /\ \E v \in Displays \ {displays} : displays' = v
    /\ UNCHANGED <<d, down, generation, layout_displays, seen, streams, guards, viewers,
                   open, auth, valid, gate>>

\* An established helper channel is lost: what it held may stay down.
HelperLost ==
    /\ ~Lost /\ generation < MaxGeneration
    /\ generation' = generation + 1
    /\ UNCHANGED <<d, down, displays, layout_displays, seen, streams, guards, viewers,
                   open, auth, valid, gate>>

Revoked(k) ==
    /\ valid' = valid \ {k}
    /\ UNCHANGED <<d, down, generation, displays, layout_displays, seen, streams, guards,
                   viewers, open, auth, gate>>

\* The update drain freezes admission only when no work guard is alive.
UpdateFreezes ==
    /\ gate /\ DOMAIN d.attachments = {}
    /\ gate' = FALSE
    /\ UNCHANGED <<d, down, generation, displays, layout_displays, seen, streams, guards,
                   viewers, open, auth, valid>>

Tick ==
    /\ \E i \in DOMAIN d.attachments : d.attachments[i].lease > 0
    /\ LET a == d.attachments
       IN  d' = [d EXCEPT !.attachments = [i \in DOMAIN a |->
                    [a[i] EXCEPT !.lease = IF @ > 0 THEN @ - 1 ELSE 0]]]
    /\ UNCHANGED <<down, generation, displays, layout_displays, seen, streams, guards,
                   viewers, open, auth, valid, gate>>

-----------------------------------------------------------------------------
Handler ==
    \/ \E id \in Ids : \/ \E action \in {"Acquire", "Takeover", "Release"} :
                            SetDesktopControl(id, action)
                       \/ RenewDesktopLease(id)
                       \/ DetachDesktop(id)
                       \/ \E l \in {d.layout_epoch, d.layout_epoch - 1} :
                            ConfigureDesktopViewports(id, l)
                       \/ begin_input(id)
    \/ \E mode \in Modes : AttachDesktop(mode)
    \/ \E g \in guards : \/ \E f \in Frames(g, Events) : WriteDesktopInput(g, f)
                         \/ \E f \in Frames(g, {FeedbackEvent}) : WriteFeedback(g, f)
    \/ AuthDropped

Environment ==
    \/ \E c \in open : ConnectionEnds(c)
    \/ DisplaysChange
    \/ HelperLost
    \/ \E k \in valid : Revoked(k)
    \/ UpdateFreezes
    \/ Tick

Next ==
    \/ \E c \in Connections : desktop_auth(c)
    \/ Handler
    \/ \E g \in guards : StreamCompletes(g) \/ StreamBreaks(g)
    \/ \E id \in viewers : AttachStreamEnds(id)
    \/ \E readable \in BOOLEAN : ExpireTick(readable)
    \/ RefreshReads
    \/ \E v \in seen : RefreshLayout(v)
    \/ Environment

Spec == Init /\ [][Next]_vars

\* Handlers run to their end, spawned cleanups run, the streams of a closed
\* connection or of a removed attachment end, and the tick of an open
\* connection gets the store lock, which tokio hands out in order.
Fairness ==
    /\ WF_vars(Handler)
    /\ \A id \in Ids :
         WF_vars(/\ id \in viewers
                 /\ id \notin DOMAIN d.attachments \/ d.attachments[id].conn \notin open
                 /\ AttachStreamEnds(id))
    /\ SF_vars(ExpireTick(TRUE))

FairSpec == Spec /\ Fairness

-----------------------------------------------------------------------------
(* Properties                                                               *)

Attachment ==
    [conn : Connections, mode : Modes, lease : 0..Lease,
     view : 0..MaxLayout]

TypeOK ==
    /\ DOMAIN d.attachments \subseteq 1..d.next_id
    /\ \A i \in DOMAIN d.attachments : d.attachments[i] \in Attachment
    /\ d.holder \in Ids \cup {NoHolder} /\ d.epoch \in 1..MaxEpoch
    /\ d.next_id \in 0..MaxId /\ d.layout_epoch \in 1..MaxLayout
    /\ d.keys \subseteq Keys /\ d.buttons \subseteq Buttons
    /\ d.poisoned \in BOOLEAN /\ d.backend_generation \in 0..generation
    /\ down \subseteq [what : Keys \cup Buttons, by : Ids, epoch : 1..MaxEpoch]
    /\ generation \in 0..MaxGeneration
    /\ displays \in Displays /\ layout_displays \in Displays \cup {NoDisplays}
    /\ seen \subseteq Displays
    /\ streams \subseteq Ids /\ viewers \subseteq Ids /\ open \subseteq Connections
    /\ guards \subseteq [id : Ids, conn : Connections, epoch : 1..MaxEpoch]
    /\ valid \subseteq Clients /\ gate \in BOOLEAN

\* desktop.rs 40-41, 155-175: while the broker is usable, everything the OS
\* holds was pressed by the attachment that holds control now, in this very
\* control period, and is in the broker's books; so a takeover, an expiry, a
\* detach or a lost stream can never leave a press behind, and a text commit
\* (which the books alone guard) is never typed over a held key.
HeldByHolder ==
    ~d.poisoned /\ ~Lost =>
        \A p \in down : /\ p.by = d.holder /\ p.epoch = d.epoch
                        /\ p.by \in DOMAIN d.attachments
                        /\ p.what \in d.keys \cup d.buttons

\* desktop.rs 195: a failed release keeps its work guard, so an update is never
\* granted the machine while a key or button is held down.
NoUpdateOverStuckInput == ~gate => down = {}

\* desktop.rs 308-318: a viewport configured for an older display arrangement
\* is gone, so no pointer event is ever mapped through it.
ViewportsAreCurrent ==
    \A i \in DOMAIN d.attachments : d.attachments[i].view \in {0, d.layout_epoch}

\* desktop.rs 41: once poisoned, and until the backend is replaced, nobody
\* gains control, nothing new is pressed and no attachment is dropped.
PoisonFences ==
    [][d.poisoned /\ d'.poisoned =>
          /\ d'.holder \in {d.holder, NoHolder}
          /\ down' \subseteq down
          /\ DOMAIN d.attachments \subseteq DOMAIN d'.attachments]_vars

Stuck == d.poisoned \/ Lost

\* desktop-v1.md 15-16: "reset, malformed data and a five-second idle timeout
\* release control".
BrokenStreamReleases ==
    [][\A g \in guards : StreamBreaks(g) /\ d.holder = g.id /\ ~Stuck => d'.holder # g.id]_vars

\* desktop_rpc.rs 5-25: a connection that ended leaves no attachment, also when
\* one of its attaches was still running when the connection was cleaned up.
ClosedConnectionsLeave ==
    \A c \in Connections :
        <>[](\/ c \in open \/ Stuck
             \/ \A i \in DOMAIN d.attachments : d.attachments[i].conn # c)

\* desktop_rpc.rs 43-68: a revoked client loses its attachments, and with them
\* control, without anybody calling anything.
RevokedClientsLeave ==
    \A k \in Clients :
        <>[](\/ k \in valid \/ Stuck
             \/ \A i \in DOMAIN d.attachments : ClientOf[d.attachments[i].conn] # k)

\* desktop.rs 176-187: a lease nobody renews ends.
LeasesEnd ==
    \A i \in Ids :
        (i \in DOMAIN d.attachments /\ d.attachments[i].lease = 0)
            ~> (i \notin DOMAIN d.attachments \/ Stuck)
=============================================================================
