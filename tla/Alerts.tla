-------------------------------- MODULE Alerts --------------------------------
(***************************************************************************)
(* Metric rollups, an alert rule, its firings, and the notifications they  *)
(* send to channels (RefreshMetricsRollups, EvaluateAlertRules,            *)
(* AcknowledgeAlertFiring and the notification deliveries of               *)
(* internal/adapters/postgres/store.go, run by internal/worker).  A worker *)
(* reads the rule, reads the metric, and only then opens or resolves a     *)
(* firing, while others do the same and operators change the rule.         *)
(***************************************************************************)
EXTENDS Signals, Functions

CONSTANTS Channels,         \* notification channels
          RuleComparators,  \* the comparators the rule is given
          Threshold,        \* its threshold
          MetricValues,     \* values its metric takes
          Window,           \* its window, in one-minute buckets before the current one
          MaxFirings        \* bound on the firings of the rule

ASSUME AlertAssumption == Threshold \in Int /\ MetricValues \subseteq Int /\ Window \in Nat

VARIABLES
  rollup,     \* age of a bucket, in minutes -> its value, or Unwritten
  alert,      \* the alert rule [state, comparator, channels], or NoRule
  firing,     \* states of the rule's firings, in the order they were opened
  channel,    \* channel -> "none" or its state
  note,       \* [channel, firing, transition] -> the notification delivery
  told,       \* keys of notifications the receivers have
  alertTx,    \* an update of the rule or of a channel, between its read and its write
  watcher     \* worker -> what it is in the middle of

alertVars == <<rollup, alert, firing, channel, note, told, alertTx, watcher>>

Unwritten == -1
NoRule == [state |-> "none", comparator |-> "none", channels |-> {}]
Live == {"open", "acknowledged"}
NoteKeys == [channel : Channels, firing : 0..MaxFirings, transition : {"open", "acknowledged", "resolved", "test"}]

AlertTypeOK ==
  /\ rollup \in [0..Window -> MetricValues \cup {Unwritten}]
  /\ alert = NoRule \/ (alert.state \in ActiveOrDisabled /\ alert.channels \subseteq Channels)
  /\ firing \in Seq(Live \cup {"resolved"})
  /\ channel \in [Channels -> ActiveOrDisabled \cup {"none"}]
  /\ DOMAIN note \subseteq NoteKeys /\ told \subseteq DOMAIN note
  /\ \A k \in DOMAIN note : note[k].state \in SignalStates

AlertInit ==
  /\ rollup = [b \in 0..Window |-> Unwritten]
  /\ alert = NoRule /\ firing = <<>>
  /\ channel = [c \in Channels |-> "none"]
  /\ note = [k \in {} |-> 0] /\ told = {}
  /\ alertTx = Idle /\ watcher = [w \in Sessions |-> Idle]

Watches(w, r) == watcher' = [watcher EXCEPT ![w] = r]

-----------------------------------------------------------------------------
(* Requests.  An id list is a set: duplicates are dropped, at most 16.     *)
ValidComparator(c) == c \in {">", ">=", "<", "<=", "=="}

NormalizeIDList(ids) == Cardinality(ids) <= 16

ValidateAlertDimensions(n) == n <= 8

NormalizeCreateAlertRule(q) ==
  /\ q.name /\ q.type \in {"dead_letter_open", "endpoint_failure_rate_24h"}   \* of the eight types
  /\ q.comparator = "" \/ ValidComparator(q.comparator)
  /\ q.window = 0 \/ (60 <= q.window /\ q.window <= 86400)
  /\ q.state \in ActiveOrDisabled \cup {""}
  /\ ValidateAlertDimensions(q.dimensions) /\ NormalizeIDList(q.channels)

CreateAlertRuleRequests ==
  {q \in [name : BOOLEAN, type : {"dead_letter_open", "other"}, comparator : RuleComparators \cup {"", "!="},
          window : {0, 59, 60}, state : {"", "active", "disabled", "other"}, dimensions : {0, 9}, channels : SUBSET Channels] :
     Allowed("ops:write") /\ NormalizeCreateAlertRule(q)}

(* The rules they ask for, with their defaults. *)
NewAlertRules ==
  {[comparator |-> IF q.comparator = "" THEN ">=" ELSE q.comparator,
    state |-> IF q.state = "" THEN "active" ELSE q.state, channels |-> q.channels] : q \in CreateAlertRuleRequests}

(* channel_ids left out of an update. *)
KeepChannels == {"keep"}

NormalizeUpdateAlertRule(q) ==
  /\ q.name # "empty"
  /\ q.comparator = "" \/ ValidComparator(q.comparator)
  /\ q.state # "other" /\ q.window # 59
  /\ ValidateAlertDimensions(q.dimensions) /\ NormalizeIDList(q.attach)

UpdateAlertRuleRequests ==
  {q \in [name : {"", "empty", "given"}, comparator : RuleComparators \cup {"", "!="}, state : {"", "active", "disabled", "other"},
          window : {0, 59, 60}, dimensions : {0, 9}, attach : {KeepChannels} \cup SUBSET Channels, reason : BOOLEAN] :
     Allowed("ops:write") /\ q.reason /\ NormalizeUpdateAlertRule(q)}

AlertRuleUpdates ==
  {[comparator |-> q.comparator, state |-> q.state, attach |-> q.attach] : q \in UpdateAlertRuleRequests}

DeleteAlertRuleRequests == {q \in StateChanges : Allowed("ops:write") /\ q.reason}

AcknowledgeAlertFiringRequests == {q \in [reason : BOOLEAN] : Allowed("ops:write") /\ q.reason}

NormalizeCreateNotificationChannel(q) == q.name /\ q.type \in {"", "webhook"} /\ q.url # "none" /\ q.secret >= 16

CreateNotificationChannelRequests ==
  {q \in SignalTargetCreates : Allowed("ops:write") /\ NormalizeCreateNotificationChannel(q) /\ q.url = "allowed"}

NormalizeUpdateNotificationChannel(q) ==
  /\ q.name # "" \/ q.url # "" \/ q.secret # 0 \/ q.state # ""
  /\ q.name # "empty" /\ q.secret # 15 /\ q.state # "other"

UpdateNotificationChannelRequests ==
  {q \in SignalTargetUpdates :
     Allowed("ops:write") /\ q.reason /\ NormalizeUpdateNotificationChannel(q) /\ q.url # "blocked"}

ChannelStates == {q.state : q \in UpdateNotificationChannelRequests}

DeleteNotificationChannelRequests == {q \in StateChanges : Allowed("ops:write") /\ q.reason}

(* The URL is validated again before a test. *)
TestNotificationChannelRequests ==
  {q \in [reason : BOOLEAN, url : {"blocked", "allowed"}] : Allowed("ops:write") /\ q.reason /\ q.url = "allowed"}

RetryNotificationDeliveryRequests == {q \in [reason : BOOLEAN] : Allowed("ops:write") /\ q.reason}

-----------------------------------------------------------------------------
(* Channels. *)
CreateNotificationChannel(c) ==
  /\ channel[c] = "none" /\ CreateNotificationChannelRequests # {}
  /\ channel' = [channel EXCEPT ![c] = "active"]
  /\ UNCHANGED <<rollup, alert, firing, note, told, alertTx, watcher>>

(* The row is read, and written back by a later statement. *)
UpdateNotificationChannel(c) ==
  /\ alertTx = Idle /\ channel[c] # "none"
  /\ \E st \in ChannelStates :
       alertTx' = [at |-> "channel", channel |-> c, state |-> IF st = "" THEN channel[c] ELSE st]
  /\ UNCHANGED <<rollup, alert, firing, channel, note, told, watcher>>

WriteNotificationChannel ==
  /\ alertTx.at = "channel"
  /\ channel' = [channel EXCEPT ![alertTx.channel] = alertTx.state]
  /\ alertTx' = Idle
  /\ UNCHANGED <<rollup, alert, firing, note, told, watcher>>

DeleteNotificationChannel(c) ==
  /\ channel[c] # "none" /\ DeleteNotificationChannelRequests # {}
  /\ channel' = [channel EXCEPT ![c] = "disabled"]
  /\ UNCHANGED <<rollup, alert, firing, note, told, alertTx, watcher>>

NewNote == [state |-> "scheduled", attempts |-> 0]

(* A test belongs to no firing; the bound is one test of each channel. *)
TestNotificationChannel(c) ==
  LET k == [channel |-> c, firing |-> 0, transition |-> "test"]
  IN /\ channel[c] = "active" /\ TestNotificationChannelRequests # {} /\ k \notin DOMAIN note
     /\ note' = [x \in DOMAIN note \cup {k} |-> IF x = k THEN NewNote ELSE note[x]]
     /\ UNCHANGED <<rollup, alert, firing, channel, told, alertTx, watcher>>

RetryNotificationDelivery ==
  /\ RetryNotificationDeliveryRequests # {}
  /\ \E k \in DOMAIN note : Retriable(note[k]) /\ note' = [note EXCEPT ![k] = Retried(@)]
  /\ UNCHANGED <<rollup, alert, firing, channel, told, alertTx, watcher>>

-----------------------------------------------------------------------------
(* The rule. *)
RequireActiveNotificationChannels(ids) == \A c \in ids : channel[c] = "active"

CreateAlertRule ==
  /\ alert = NoRule
  /\ \E q \in NewAlertRules : RequireActiveNotificationChannels(q.channels) /\ alert' = q
  /\ UNCHANGED <<rollup, firing, channel, note, told, alertTx, watcher>>

(* The row is read before the transaction that writes it back and replaces *)
(* its channels, if the request gives any.                                 *)
UpdateAlertRule ==
  /\ alertTx = Idle /\ alert # NoRule
  /\ \E q \in AlertRuleUpdates :
       alertTx' = [at |-> "rule", comparator |-> IF q.comparator = "" THEN alert.comparator ELSE q.comparator,
                   state |-> NewState(q, alert.state), attach |-> q.attach]
  /\ UNCHANGED <<rollup, alert, firing, channel, note, told, watcher>>

WriteAlertRule ==
  /\ alertTx.at = "rule"
  /\ LET keep == alertTx.attach = KeepChannels
     IN IF ~keep /\ ~RequireActiveNotificationChannels(alertTx.attach) THEN UNCHANGED alert
        ELSE alert' = [state |-> alertTx.state, comparator |-> alertTx.comparator,
                       channels |-> IF keep THEN alert.channels ELSE alertTx.attach]
  /\ alertTx' = Idle
  /\ UNCHANGED <<rollup, firing, channel, note, told, watcher>>

DeleteAlertRule ==
  /\ alert # NoRule /\ DeleteAlertRuleRequests # {}
  /\ alert' = [alert EXCEPT !.state = "disabled"]
  /\ UNCHANGED <<rollup, firing, channel, note, told, alertTx, watcher>>

-----------------------------------------------------------------------------
(* Metrics. *)

(* A minute passes: every bucket is a minute older. *)
Tick ==
  /\ rollup' = [b \in 0..Window |-> IF b = 0 THEN Unwritten ELSE rollup[b - 1]]
  /\ UNCHANGED <<alert, firing, channel, note, told, alertTx, watcher>>

(* The rollup of the current bucket is written, or overwritten. *)
RefreshMetricsRollups ==
  /\ \E v \in MetricValues : rollup' = [rollup EXCEPT ![0] = v]
  /\ UNCHANGED <<alert, firing, channel, note, told, alertTx, watcher>>

(* The greatest value in the window, and 0 of an empty one. *)
AlertObservedValue == MaxOr0({rollup[b] : b \in 0..Window} \ {Unwritten})

CompareAlertValue(observed, comparator) ==
  \/ comparator = ">"  /\ observed > Threshold
  \/ comparator = ">=" /\ observed >= Threshold
  \/ comparator = "<"  /\ observed < Threshold
  \/ comparator = "<=" /\ observed <= Threshold
  \/ comparator = "==" /\ observed = Threshold

-----------------------------------------------------------------------------
(* Firings. *)

(* The transition is queued for the channels of the rule that are active,  *)
(* in the transaction that makes it; a notification that exists is kept.   *)
EnqueueNotificationDeliveriesTx(f, transition) ==
  LET new == {[channel |-> c, firing |-> f, transition |-> transition] :
                c \in {c \in alert.channels : channel[c] = "active"}}
  IN note' = [k \in DOMAIN note \cup new |-> IF k \in DOMAIN note THEN note[k] ELSE NewNote]

EvaluateAlertRules(w) ==
  /\ watcher[w] = Idle /\ alert.state = "active"
  /\ Watches(w, [at |-> "observe", comparator |-> alert.comparator])
  /\ UNCHANGED <<rollup, alert, firing, channel, note, told, alertTx>>

Observe(w) ==
  /\ watcher[w].at = "observe"
  /\ Watches(w, [at |-> "apply", breached |-> CompareAlertValue(AlertObservedValue, watcher[w].comparator)])
  /\ UNCHANGED <<rollup, alert, firing, channel, note, told, alertTx>>

OpenOrUpdateAlertFiring_OpenOnly(w) ==
  /\ watcher[w].at = "apply" /\ watcher[w].breached
  /\ IF \E f \in DOMAIN firing : firing[f] = "open" THEN UNCHANGED <<firing, note>>
     ELSE /\ Len(firing) < MaxFirings
          /\ firing' = Append(firing, "open")
          /\ EnqueueNotificationDeliveriesTx(Len(firing) + 1, "open")
  /\ Watches(w, Idle)
  /\ UNCHANGED <<rollup, alert, channel, told, alertTx>>

(* One transaction; a unique index on the live firings of a rule refuses   *)
(* the second of two that overlap.                                         *)
OpenOrUpdateAlertFiring(w) ==
  /\ watcher[w].at = "apply" /\ watcher[w].breached
  /\ IF \E f \in DOMAIN firing : firing[f] \in Live THEN UNCHANGED <<firing, note>>
     ELSE /\ Len(firing) < MaxFirings
          /\ firing' = Append(firing, "open")
          /\ EnqueueNotificationDeliveriesTx(Len(firing) + 1, "open")
  /\ Watches(w, Idle)
  /\ UNCHANGED <<rollup, alert, channel, told, alertTx>>

ResolveAlertFirings_OpenOnly(w) ==
  /\ watcher[w].at = "apply" /\ ~watcher[w].breached
  /\ \/ \E f \in DOMAIN firing : /\ firing[f] = "open"
                                 /\ firing' = [firing EXCEPT ![f] = "resolved"]
                                 /\ EnqueueNotificationDeliveriesTx(f, "resolved")
     \/ /\ \A f \in DOMAIN firing : firing[f] # "open"
        /\ UNCHANGED <<firing, note>>
  /\ Watches(w, Idle)
  /\ UNCHANGED <<rollup, alert, channel, told, alertTx>>

(* At most one firing is live (AlertsConsistent). *)
ResolveAlertFirings(w) ==
  /\ watcher[w].at = "apply" /\ ~watcher[w].breached
  /\ \/ \E f \in DOMAIN firing : /\ firing[f] \in Live
                                 /\ firing' = [firing EXCEPT ![f] = "resolved"]
                                 /\ EnqueueNotificationDeliveriesTx(f, "resolved")
     \/ /\ \A f \in DOMAIN firing : firing[f] \notin Live
        /\ UNCHANGED <<firing, note>>
  /\ Watches(w, Idle)
  /\ UNCHANGED <<rollup, alert, channel, told, alertTx>>

AcknowledgeAlertFiring_Silent ==
  /\ AcknowledgeAlertFiringRequests # {}
  /\ \E f \in DOMAIN firing : firing[f] = "open" /\ firing' = [firing EXCEPT ![f] = "acknowledged"]
  /\ UNCHANGED <<rollup, alert, channel, note, told, alertTx, watcher>>

AcknowledgeAlertFiring ==
  /\ AcknowledgeAlertFiringRequests # {}
  /\ \E f \in DOMAIN firing : /\ firing[f] = "open"
                              /\ firing' = [firing EXCEPT ![f] = "acknowledged"]
                              /\ EnqueueNotificationDeliveriesTx(f, "acknowledged")
  /\ UNCHANGED <<rollup, alert, channel, told, alertTx, watcher>>

-----------------------------------------------------------------------------
(* Notifications. *)
ClaimNotificationDeliveries(w) ==
  /\ watcher[w] = Idle
  /\ \E k \in DOMAIN note :
       /\ note[k].state = "scheduled" /\ channel[k.channel] = "active"
       /\ note' = [note EXCEPT ![k].state = "in_progress"]
       /\ Watches(w, [at |-> "send", key |-> k, claimed |-> note[k].attempts])
  /\ UNCHANGED <<rollup, alert, firing, channel, told, alertTx>>

DeliverNotification(w) ==
  LET r == watcher[w]
  IN /\ r.at = "send"
     /\ \E o \in SignalOutcomes :
          /\ told' = IF o.kept THEN told \cup {r.key} ELSE told
          /\ Watches(w, [at |-> "record", key |-> r.key, claimed |-> r.claimed, ok |-> o.ok])
     /\ UNCHANGED <<rollup, alert, firing, channel, note, alertTx>>

RecordNotificationDeliveryAttempt(w) ==
  LET r == watcher[w]
  IN /\ r.at = "record"
     /\ note' = [note EXCEPT ![r.key] = AfterAttempt(@, r.claimed, r.ok)]
     /\ Watches(w, Idle)
     /\ UNCHANGED <<rollup, alert, firing, channel, told, alertTx>>

WatcherCrashes(w) ==
  /\ watcher[w] # Idle /\ Watches(w, Idle)
  /\ UNCHANGED <<rollup, alert, firing, channel, note, told, alertTx>>

-----------------------------------------------------------------------------
ChannelSteps ==
  \/ \E c \in Channels : CreateNotificationChannel(c) \/ UpdateNotificationChannel(c) \/ DeleteNotificationChannel(c)
  \/ WriteNotificationChannel

Evaluates(w) == EvaluateAlertRules(w) \/ Observe(w) \/ OpenOrUpdateAlertFiring(w) \/ ResolveAlertFirings(w)

(* Rules and firings; notifications are queued and not sent. *)
FiringSteps ==
  \/ ChannelSteps \/ CreateAlertRule \/ UpdateAlertRule \/ WriteAlertRule \/ DeleteAlertRule
  \/ Tick \/ RefreshMetricsRollups \/ AcknowledgeAlertFiring
  \/ \E w \in Sessions : Evaluates(w)

FiringNext == FiringSteps \/ \E w \in Sessions : WatcherCrashes(w)

(* Notifications, whatever queued them: here the tests of the channels. *)
NotificationNext ==
  \/ ChannelSteps \/ \E c \in Channels : TestNotificationChannel(c)
  \/ RetryNotificationDelivery
  \/ \E w \in Sessions : \/ ClaimNotificationDeliveries(w) \/ DeliverNotification(w)
                         \/ RecordNotificationDeliveryAttempt(w) \/ WatcherCrashes(w)

AlertNext == FiringNext \/ NotificationNext

AlertSpec == AlertInit /\ [][AlertNext]_alertVars

FiringFairSpec ==
  AlertInit /\ [][FiringSteps]_alertVars /\ \A w \in Sessions : WF_alertVars(Evaluates(w))

-----------------------------------------------------------------------------
(* However evaluations, acknowledgements and resolutions interleave, a     *)
(* rule has at most one live firing (openOrUpdateAlertFiring); and a       *)
(* notification that is recorded as succeeded has reached its receiver,    *)
(* although attempts of one delivery may overlap.                          *)
AlertsConsistent ==
  /\ \A f, g \in DOMAIN firing : firing[f] \in Live /\ firing[g] \in Live => f = g
  /\ \A k \in DOMAIN note : note[k].state = "succeeded" => k \in told

(* A firing never changes state without a notification of the change for   *)
(* each active channel of the rule: they commit together.                  *)
TransitionsNotified ==
  [][\A f \in DOMAIN firing' :
        \/ f \in DOMAIN firing /\ firing'[f] = firing[f]
        \/ \A c \in alert.channels :
             channel[c] = "active" => [channel |-> c, firing |-> f, transition |-> firing'[f]] \in DOMAIN note']_firing

Breached == CompareAlertValue(AlertObservedValue, alert.comparator)
HasLiveFiring == \E f \in DOMAIN firing : firing[f] \in Live

(* Once the rule and the window settle, the firing settles with them: live *)
(* if the threshold stays breached, and none, acknowledged or not, if not. *)
FiringFollowsMetric ==
  /\ <>[](alert.state = "active" /\ Breached) => <>[](HasLiveFiring \/ Len(firing) = MaxFirings)
  /\ <>[](alert.state = "active" /\ ~Breached) => <>[]~HasLiveFiring
=============================================================================
