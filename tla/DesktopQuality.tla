--------------------------- MODULE DesktopQuality ---------------------------
(***************************************************************************)
(* Quality of one server-owned desktop attachment:                         *)
(* daemon/host/src/desktop_quality.rs, with the parts of desktop.rs that   *)
(* replace a configuration and the calls of server/desktop_rpc.rs.         *)
(*                                                                         *)
(* A quality call holds quality_operation from its first step to its last, *)
(* but not the configuration: the displays change, the viewer leaves and   *)
(* media of older epochs report in between, so a call looks at the         *)
(* revision (the codec epoch) again before it changes anything. Automatic  *)
(* quality moves along the verified part of a ladder of levels on what     *)
(* deliveries and the viewer report.                                       *)
(*                                                                         *)
(* Tracks are treated alike and one is followed; a level stands for its    *)
(* frame rate and bitrate, ordered as the ladder is.                       *)
(***************************************************************************)
EXTENDS Integers, FiniteSets

CONSTANTS
    Ladder,     \* levels Auto may use; the highest is configure_existing's
    Custom,     \* levels a viewer proposes
    Healthy,    \* healthy observations before a step up (5)
    MaxLayout, MaxEpoch, MaxGroup

Levels == Ladder \cup Custom
None == [epoch |-> 0]

QualityAssumption ==
    /\ Levels \subseteq Nat /\ IsFiniteSet(Levels) /\ Ladder # {}
    /\ {Healthy, MaxLayout, MaxEpoch, MaxGroup} \subseteq Nat \ {0}

VARIABLES
    attached,  \* the attachment exists
    layout,    \* layout_epoch
    config,    \* Runtime.configurations: its codec epoch, layout and level
    counter,   \* next_codec_epoch
    quality,   \* Runtime.quality, with "cool" for two seconds since last_change
    recv, sent,\* Runtime.quality_samples, with "fresh" for two seconds and
               \* "new" for later than last_sample
    op,        \* the call holding quality_operation
    earned,    \* healthy observations of this configuration since the last bad one
    reports    \* of which brought a new report of the viewer

vars == <<attached, layout, config, counter, quality, recv, sent, op, earned, reports>>
samples == <<recv, sent>>
ghosts == <<earned, reports>>

HighestOf(s) == CHOOSE l \in s : \A k \in s : k <= l
LowestOf(s) == CHOOSE l \in s : \A k \in s : l <= k
Least(a, b) == IF a < b THEN a ELSE b

Healths == {"good", "fair", "bad"}
Policies == {"manual", "auto"}
Configs == [epoch : 1..MaxEpoch, layout : 1..MaxLayout, level : Levels]

TypeOK ==
    /\ attached \in BOOLEAN /\ layout \in 1..MaxLayout
    /\ config \in Configs \cup {None} /\ counter \in 0..MaxEpoch
    /\ \/ quality = None
       \/ quality \in [epoch : 1..MaxEpoch, layout : 1..MaxLayout, verified : SUBSET Levels,
                       adaptive : SUBSET Levels, policy : Policies, healthy : 0..Healthy, cool : BOOLEAN]
    /\ recv \in [epoch : 1..MaxEpoch, group : 1..MaxGroup, health : Healths,
                 fresh : BOOLEAN, new : BOOLEAN] \cup {None}
    /\ sent \in [epoch : 1..MaxEpoch, slow : BOOLEAN, fresh : BOOLEAN, new : BOOLEAN] \cup {None}
    /\ {earned, reports} \subseteq 0..Healthy

Init ==
    /\ attached = TRUE /\ layout = 1 /\ counter = 1
    /\ config = [epoch |-> 1, layout |-> 1, level |-> HighestOf(Ladder)]
    /\ quality = None /\ recv = None /\ sent = None
    /\ op = None /\ earned = 0 /\ reports = 0

Reset == earned' = 0 /\ reports' = 0

-----------------------------------------------------------------------------
(* The desktop around it. *)

\* mutate drops the entries of an attachment that is gone.
Detach ==
    /\ attached /\ attached' = FALSE
    /\ config' = None /\ quality' = None /\ recv' = None /\ sent' = None /\ Reset
    /\ UNCHANGED <<layout, counter, op>>

refresh_layout ==
    /\ attached /\ layout < MaxLayout /\ layout' = layout + 1 /\ config' = None
    /\ Reset
    /\ UNCHANGED <<attached, counter, quality, samples, op>>

configure_existing ==
    /\ attached /\ config = None /\ counter < MaxEpoch /\ counter' = counter + 1
    /\ config' = [epoch |-> counter + 1, layout |-> layout, level |-> HighestOf(Ladder)]
    /\ Reset
    /\ UNCHANGED <<attached, layout, quality, samples, op>>

\* record_delivery: the media task of any configuration so far, aborted or not.
record_delivery(epoch, slow) ==
    /\ attached /\ epoch \in 1..counter
    /\ sent' = [epoch |-> epoch, slow |-> slow, fresh |-> TRUE, new |-> TRUE]
    /\ UNCHANGED <<attached, layout, config, counter, quality, recv, op, ghosts>>

\* A Feedback frame, refused unless it names the configuration and a group;
\* Sample::receive takes a group once.
AnyGroup(group) == TRUE
NamesGroup(group) == group # 0
receive(group) == ~(recv # None /\ recv.epoch = config.epoch /\ group <= recv.group)
Feedback(group, health) ==
    /\ attached /\ config # None /\ NamesGroup(group) /\ receive(group)
    /\ recv' = [epoch |-> config.epoch, group |-> group, health |-> health, fresh |-> TRUE, new |-> TRUE]
    /\ UNCHANGED <<attached, layout, config, counter, quality, sent, op, ghosts>>

\* Two seconds pass since a change, or since a sample (one that counts).
CoolDown ==
    /\ quality # None /\ ~quality.cool
    /\ quality' = [quality EXCEPT !.cool = TRUE]
    /\ UNCHANGED <<attached, layout, config, counter, samples, op, ghosts>>
Ages(x) == x # None /\ x.fresh /\ config # None /\ x.epoch = config.epoch
Expire ==
    /\ \/ Ages(recv) /\ recv' = [recv EXCEPT !.fresh = FALSE] /\ UNCHANGED sent
       \/ Ages(sent) /\ sent' = [sent EXCEPT !.fresh = FALSE] /\ UNCHANGED recv
    /\ UNCHANGED <<attached, layout, config, counter, quality, op, ghosts>>

-----------------------------------------------------------------------------
(* Quality calls. *)

quality_snapshot == op = None /\ attached /\ config # None
Op(kind, verified, level, policy, new) ==
    [kind |-> kind, config |-> config, verified |-> verified, level |-> level,
     policy |-> policy, new |-> new]
validate_video_probe(verified) == verified \subseteq Levels

\* query_quality probes, a lock on the configuration not held, ...
Probe(verified) ==
    /\ quality_snapshot /\ validate_video_probe(verified)
    /\ op' = Op("probe", verified, config.level, "manual", FALSE)
    /\ UNCHANGED <<attached, layout, config, counter, quality, samples, ghosts>>

\* ... and keeps the policy of this very revision with what it verified.
Previous == quality # None /\ quality.epoch = op.config.epoch
KeepsVerified == op.verified
KeptLevels == IF Previous THEN quality.adaptive ELSE {}
Unseen(x) == IF x = None \/ Previous THEN x ELSE [x EXCEPT !.new = TRUE]
Probed ==
    /\ op # None /\ op.kind = "probe" /\ op' = None
    /\ IF ~attached \/ config # op.config THEN UNCHANGED <<quality, samples, ghosts>>
       ELSE /\ quality' = [epoch |-> config.epoch, layout |-> config.layout, verified |-> op.verified,
                           adaptive |-> KeptLevels,
                           policy |-> IF Previous THEN quality.policy ELSE "manual",
                           healthy |-> IF Previous THEN quality.healthy ELSE 0,
                           cool |-> Previous /\ quality.cool]
            /\ recv' = Unseen(recv) /\ sent' = Unseen(sent)
            /\ IF Previous THEN UNCHANGED ghosts ELSE Reset
    /\ UNCHANGED <<attached, layout, config, counter>>

\* set_quality: a verified level, or for Auto the best of two or more of the ladder.
Current == quality # None /\ quality.epoch = config.epoch /\ quality.layout = config.layout
set_quality(policy, level) ==
    /\ quality_snapshot /\ Current
    /\ LET ladder == Ladder \cap quality.verified IN
        IF policy = "auto" THEN Cardinality(ladder) >= 2 /\ level = HighestOf(ladder)
        ELSE level \in quality.verified
    /\ op' = Op("apply", quality.verified, level, policy, TRUE)
    /\ UNCHANGED <<attached, layout, config, counter, quality, samples, ghosts>>

\* configure_impl of a quality change: the revision is checked once more. The
\* displays may be gone, or the counter at its end: the call fails.
SameRevision == config # None /\ config.epoch = op.config.epoch
apply_quality ==
    /\ op # None /\ op.kind = "apply" /\ op' = None
    /\ \/ UNCHANGED <<config, counter, quality, ghosts>>
       \/ /\ attached /\ SameRevision /\ quality # None /\ counter < MaxEpoch
          /\ op.config.layout = layout
          /\ counter' = counter + 1
          /\ config' = [epoch |-> counter + 1, layout |-> layout, level |-> op.level]
          /\ quality' = [quality EXCEPT
                !.epoch = counter + 1, !.policy = op.policy, !.healthy = 0, !.cool = FALSE,
                !.adaptive = IF op.policy = "manual" THEN {} ELSE IF op.new THEN quality.verified ELSE @]
          /\ Reset
    /\ UNCHANGED <<attached, layout, samples>>

\* adjust_quality on the fresh samples of the configuration's epoch.
Counts(x) == x # None /\ x.fresh /\ x.epoch = config.epoch
Pressure == (Counts(recv) /\ recv.health = "bad") \/ (Counts(sent) /\ sent.slow)
AllHealthy == Counts(recv) /\ recv.health = "good" /\ Counts(sent) /\ ~sent.slow
News == (Counts(recv) /\ recv.new) \/ (Counts(sent) /\ sent.new)
Below == {k \in Ladder \cap quality.adaptive : k < config.level}
Above == {k \in Ladder \cap quality.adaptive : k > config.level}
Seen(x) == IF Counts(x) THEN [x EXCEPT !.new = FALSE] ELSE x

OneMore(n) == Least(Healthy, n + 1)
KeepsCount == IF AllHealthy THEN OneMore(quality.healthy) ELSE quality.healthy
HealthCount == IF AllHealthy THEN OneMore(quality.healthy) ELSE 0
adjust_quality ==
    /\ quality_snapshot /\ Current /\ quality.policy = "auto" /\ quality.cool /\ News
    /\ recv' = Seen(recv) /\ sent' = Seen(sent)
    /\ LET step == IF config.level \notin Ladder \cap quality.adaptive THEN {}
                   ELSE IF Pressure /\ Below # {} THEN {HighestOf(Below)}
                   ELSE IF HealthCount >= Healthy /\ Above # {} THEN {LowestOf(Above)} ELSE {}
       IN /\ quality' = [quality EXCEPT !.healthy = HealthCount]
          /\ op' = IF step = {} THEN op ELSE Op("apply", {}, HighestOf(step), "auto", FALSE)
          /\ earned' = IF AllHealthy THEN OneMore(earned) ELSE 0
          /\ reports' = IF ~AllHealthy THEN 0 ELSE IF recv.new THEN OneMore(reports) ELSE reports
    /\ UNCHANGED <<attached, layout, config, counter>>

-----------------------------------------------------------------------------
Next ==
    \/ Detach \/ refresh_layout \/ configure_existing
    \/ \E e \in 1..MaxEpoch, s \in BOOLEAN : record_delivery(e, s)
    \/ \E g \in 0..MaxGroup, h \in Healths : Feedback(g, h)
    \/ CoolDown \/ Expire
    \/ \E v \in SUBSET Levels : Probe(v)
    \/ Probed
    \/ \E p \in Policies, l \in Levels : set_quality(p, l)
    \/ apply_quality \/ adjust_quality

\* A blocking call of the daemon returns.
Spec == Init /\ [][Next]_vars /\ WF_vars(Probed) /\ WF_vars(apply_quality)

-----------------------------------------------------------------------------
(* Automatic quality runs only on levels verified for this very attachment *)
(* and two at least, whatever queries, layouts and changes came between    *)
(* (query_quality carries a policy over, configure_impl the levels).       *)
Automatic == config # None /\ Current /\ quality.policy = "auto"
AutoOnVerified ==
    Automatic => config.level \in Ladder \cap quality.adaptive /\ Cardinality(Ladder \cap quality.adaptive) >= 2

(* A step up comes only after enough healthy observations in a row of this *)
(* very configuration (adjust_quality).                                    *)
SteppedUp == op # None /\ op.kind = "apply" /\ ~op.new /\ op.level > op.config.level
UpIsEarned == SteppedUp /\ config = op.config => earned >= Healthy

(* "moves up only after five fresh healthy observations for all tracks";   *)
(* "duplicate ... or missing receiver feedback cannot cause upgrades".     *)
UpOnReports == SteppedUp /\ config = op.config => reports >= Healthy
=============================================================================
