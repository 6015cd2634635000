-------------------------------- MODULE Alerts --------------------------------
(***************************************************************************)
(* What an operator is told at once: the alerts that a trader sends, and   *)
(* the router that holds some of them back.                                *)
(*                                                                         *)
(*   router     src/infra/observability/service.py                         *)
(*   readiness  apps/trader/control_plane.py  refresh, _heartbeat_loop     *)
(*   drift      apps/trader/reconciliation.py _engage_protection_mode      *)
(*                                                                         *)
(* A critical alert always goes to the sinks.  Any other is sent once per  *)
(* event, account, symbol and reason and then held back for the cooldown.  *)
(* A sink may fail: what no sink took is lost, nothing is sent again.      *)
(*                                                                         *)
(* Times are ages, so that time has no end: an age stops at the value from *)
(* which it no longer matters.  Of one trader of one account and symbol.   *)
(***************************************************************************)
EXTENDS Refusals

CONSTANTS
    Control,        \* control states: the protection mode, normal, the operator's others
    Grace           \* how long a trader is not ready before it says so: 30 s

\* Why a trader is not ready, in the order in which the reasons are looked for.
Cause == {"lease_lost_or_expired", "latest_final_bar_missing", "market_state_missing",
          "market_data_stale", "runtime_not_ready"}

ASSUME AlertsAssumption ==
    /\ {"normal", "protection_mode"} \subseteq Control
    /\ Grace \in Nat \ {0}

VARIABLES
    life,           \* status of the trader
    beating,        \* its heartbeat loop runs
    leased,         \* the lease row names this trader and has not expired
    active,         \* single_active.status is acquired
    market,         \* the latest final bar
    control,        \* control state of the control row
    seen,           \* control state in the memory of the trader
    ready,          \* readiness_status
    memory,         \* _not_ready_since, _not_ready_alert_emitted, _market_stale_cycles
    sent,           \* _last_sent_at: age of the last alert of each key
    heard,          \* history: an alert of the present outage was delivered
    muted,          \* history: one was held back or reached no sink
    told            \* history: what the operator knows of the protection mode

outside == <<leased, market, control>>
history == <<heard, muted, told>>
vars == <<life, beating, leased, active, market, control, seen, ready, memory, sent, history>>

\* The key of an alert that can be held back: a not-ready alert has one for
\* each cause, and the repeated stale alert one.
Key == Cause \union {"stale_repeated"}
Calm == [outage |-> None, spoken |-> FALSE, stale |-> FALSE]

\* The variables have their types.
TypeOK ==
    /\ life \in {"down", "running", "stopping"}
    /\ {beating, leased, active, ready, heard, muted} \subseteq BOOLEAN
    /\ market \in {"missing", "stateless", "stale", "fresh"}
    /\ {control, seen} \subseteq Control
    /\ memory \in [outage : None .. Grace, spoken : BOOLEAN, stale : BOOLEAN]
    /\ sent \in [Key -> 0 .. Cooldown]
    /\ told \in {"nothing", "entered", "inherited", "missed"}

Init ==
    /\ life = "down" /\ beating = FALSE
    /\ leased = FALSE /\ active = FALSE
    /\ market = "missing"
    /\ control = "normal" /\ seen = "normal"
    /\ ready = FALSE
    /\ memory = Calm
    /\ sent = [k \in Key |-> Cooldown]
    /\ heard = FALSE /\ muted = FALSE /\ told = "nothing"

-----------------------------------------------------------------------------
(* The router                                                               *)

\* dispatch: this key was delivered less than a cooldown ago.
HeldBack(k) == sent[k] < Cooldown

\* A key whose alert no sink took may be sent again at once.
Noted(keys) == [k \in Key |-> IF k \in keys THEN 0 ELSE sent[k]]

-----------------------------------------------------------------------------
(* refresh                                                                  *)

\* _not_ready_reason
Reason(mkt) ==
    CASE ~leased -> "lease_lost_or_expired"
      [] leased /\ mkt = "missing" -> "latest_final_bar_missing"
      [] leased /\ mkt = "stateless" -> "market_state_missing"
      [] leased /\ mkt = "stale" -> "market_data_stale"
      [] OTHER -> "runtime_not_ready"

Ready(mkt) == life = "running" /\ leased /\ mkt = "fresh"

\* The outage has lasted, and nothing was said of it yet.
OutageDue(mkt) == ~Ready(mkt) /\ ~memory.spoken /\ memory.outage >= Grace
\* The second stale refresh in a row, and every one after it.
StaleDue(mkt) == ~Ready(mkt) /\ Reason(mkt) = "market_data_stale" /\ memory.stale

\* What the sinks may lose in a refresh: each alert is sent on its own.
Losses(mkt) ==
    SUBSET {alert \in {"protection", "lease", "stale", "outage"} :
               /\ alert = "lease" => active /\ ~leased
               /\ alert = "outage" => OutageDue(mkt)
               /\ alert = "stale" => StaleDue(mkt)}

Longer(mkt) ==
    [outage |-> IF memory.outage = None THEN 0 ELSE memory.outage,
     spoken |-> memory.spoken \/ OutageDue(mkt),
     stale |-> Reason(mkt) = "market_data_stale"]

\* Mutant: a trader that is ready again does not forget that it has spoken.
TrackedSpoken(mkt) ==
    IF Ready(mkt) THEN [Calm EXCEPT !.spoken = memory.spoken] ELSE Longer(mkt)
\* Mutant: an outage begins anew when its cause does.
TrackedAnew(mkt) ==
    IF Ready(mkt) THEN Calm
    ELSE [Longer(mkt) EXCEPT !.outage =
             IF Reason(mkt) = "market_data_stale" /\ ~memory.stale THEN 0 ELSE @]
\* _track_runtime_safety
Tracked(mkt) == IF Ready(mkt) THEN Calm ELSE Longer(mkt)

\* The alerts of _track_runtime_safety that are delivered.
Delivered(mkt, lost) ==
    {k \in {Reason(mkt)} : OutageDue(mkt) /\ ~HeldBack(k) /\ "outage" \notin lost}
    \union {k \in {"stale_repeated"} : StaleDue(mkt) /\ ~HeldBack(k) /\ "stale" \notin lost}

\* Mutant: only a trader that was allowed to trade announces the protection mode.
NoticedFromNormal(lost) ==
    /\ seen' = control
    /\ told' = CASE control # "protection_mode" -> "nothing"
                 [] control = "protection_mode" /\ seen = "normal" ->
                       IF "protection" \in lost THEN "missed" ELSE "entered"
                 [] OTHER -> told
\* The control row is applied, and a protection mode that is new announced.
Noticed(lost) ==
    /\ seen' = control
    /\ told' = CASE control # "protection_mode" -> "nothing"
                 [] control = "protection_mode" /\ seen # "protection_mode" ->
                       IF "protection" \in lost THEN "missed" ELSE "entered"
                 [] OTHER -> told

\* The lease and the latest bar mkt are looked at.
Assessed(mkt, lost) ==
    /\ active' = leased
    /\ memory' = Tracked(mkt)
    /\ sent' = Noted(Delivered(mkt, lost))

\* What the operator has heard of the outage after that.
HeardAfter(mkt, lost) ==
    /\ ~Ready(mkt)
    /\ heard \/ Delivered(mkt, lost) # {} \/ (active /\ ~leased /\ "lease" \notin lost)
MutedAfter(mkt, lost) ==
    /\ ~Ready(mkt)
    /\ muted \/ (OutageDue(mkt) /\ Reason(mkt) \notin Delivered(mkt, lost))

Refreshed(mkt, lost) ==
    /\ Noticed(lost)
    /\ Assessed(mkt, lost)
    /\ ready' = Ready(mkt)
    /\ heard' = HeardAfter(mkt, lost)
    /\ muted' = MutedAfter(mkt, lost)

Up == life \in {"running", "stopping"}

\* observe_bar, for a final bar: a recent one, one long past, or one without
\* market state.
ObserveBar(mkt, lost) ==
    /\ Up
    /\ market' = mkt
    /\ Refreshed(mkt, lost)
    /\ UNCHANGED <<life, beating, leased, control>>

\* _heartbeat_loop
Heartbeat(lost) ==
    /\ Up /\ beating
    /\ Refreshed(market, lost)
    /\ UNCHANGED <<life, beating, outside>>

\* A refresh of the loop raised: it is announced, the trader is called not
\* ready, and its report saved; if that raises too, the loop ends.
Announced(heardOf, mutedOf) ==
    /\ ready' = FALSE
    /\ beating' \in BOOLEAN
    /\ \/ heard' = TRUE /\ muted' = mutedOf
       \/ heard' = heardOf /\ muted' = TRUE

\* The control row or the lease cannot be read or written.
HeartbeatFails(lost) ==
    /\ Up /\ beating
    /\ Noticed(lost) \/ UNCHANGED <<seen, told>>
    /\ Announced(heard, muted)
    /\ UNCHANGED <<life, outside, active, memory, sent>>

\* The report cannot be saved, after everything else was done.
ReportFails(lost) ==
    /\ Up /\ beating
    /\ Noticed(lost)
    /\ Assessed(market, lost)
    /\ Announced(HeardAfter(market, lost), MutedAfter(market, lost))
    /\ UNCHANGED <<life, outside>>

\* Reconciliation found drift or failed: it sets the control row, cancels the
\* open orders, announces that, and refreshes.  A failing call on the way leaves
\* the row set, as does the OMS after a critical failure: ControlSet.
ProtectionEngaged(lost) ==
    /\ Up
    /\ control' = "protection_mode" /\ seen' = "protection_mode"
    /\ told' = CASE "protection" \notin lost -> "entered"
                 [] "protection" \in lost /\ seen # "protection_mode" -> "missed"
                 [] OTHER -> told
    /\ Assessed(market, lost)
    /\ ready' = Ready(market)
    /\ heard' = HeardAfter(market, lost)
    /\ muted' = MutedAfter(market, lost)
    /\ UNCHANGED <<life, beating, leased, market>>

-----------------------------------------------------------------------------
(* The trader and the world around it                                       *)

\* TraderControlRuntime.start in a new process: the control row is applied
\* before the first refresh, which finds no bar.
Start ==
    /\ life = "down"
    /\ life' = "running" /\ beating' = TRUE
    /\ leased' = TRUE /\ active' = TRUE
    /\ market' = "missing"
    /\ seen' = control
    /\ told' = IF control = "protection_mode" THEN "inherited" ELSE "nothing"
    /\ ready' = FALSE
    /\ memory' = [Calm EXCEPT !.outage = 0]
    /\ sent' = [k \in Key |-> Cooldown]
    /\ heard' = FALSE /\ muted' = FALSE
    /\ UNCHANGED control

StopBegins ==
    /\ life = "running"
    /\ life' = "stopping"
    /\ UNCHANGED <<beating, outside, active, seen, ready, memory, sent, history>>

\* The end of a stop, or the end of the process: the memory is gone.
Ends ==
    /\ Up
    /\ life' = "down" /\ beating' = FALSE
    /\ leased' = FALSE /\ active' = FALSE
    /\ ready' = FALSE
    /\ market' = "missing"
    /\ seen' = "normal" /\ told' = "nothing"
    /\ memory' = Calm
    /\ sent' = [k \in Key |-> Cooldown]
    /\ heard' = FALSE /\ muted' = FALSE
    /\ UNCHANGED control

\* Somebody writes the control row.
ControlSet(c) ==
    /\ control' = c
    /\ UNCHANGED <<life, beating, leased, market, active, seen, ready, memory, sent, history>>

\* The lease expires or is taken over; the trader does not get it back.
LeaseLost ==
    /\ leased
    /\ leased' = FALSE
    /\ UNCHANGED <<life, beating, market, control, active, seen, ready, memory, sent, history>>

BarAges ==
    /\ market = "fresh"
    /\ market' = "stale"
    /\ UNCHANGED <<life, beating, leased, control, active, seen, ready, memory, sent, history>>

Older(age, last) == IF age < last THEN age + 1 ELSE age

Tick ==
    /\ Up
    /\ memory' = [memory EXCEPT !.outage = IF @ = None THEN None ELSE Older(@, Grace)]
    /\ sent' = [k \in Key |-> Older(sent[k], Cooldown)]
    /\ UNCHANGED <<life, beating, outside, active, seen, ready, history>>

\* A turn of the heartbeat loop, whatever comes of it.
Beat ==
    \/ \E lost \in Losses(market) : Heartbeat(lost) \/ ReportFails(lost)
    \/ \E lost \in SUBSET {"protection"} : HeartbeatFails(lost)

Next ==
    \/ \E mkt \in {"fresh", "stale", "stateless"} : \E lost \in Losses(mkt) : ObserveBar(mkt, lost)
    \/ Beat
    \/ \E lost \in Losses(market) : ProtectionEngaged(lost)
    \/ \E c \in Control : ControlSet(c)
    \/ Start \/ StopBegins \/ Ends \/ LeaseLost \/ BarAges \/ Tick

Spec == Init /\ [][Next]_vars

\* The heartbeat loop runs every few seconds, and time passes.
FairSpec ==
    /\ Spec
    /\ WF_vars(Beat)
    /\ WF_vars(Tick)

-----------------------------------------------------------------------------
(* Properties *)

\* _track_runtime_safety speaks once of an outage.  Once it has, the operator
\* has heard of this outage, and not of one before it, unless the cooldown or
\* the sinks swallowed what was said.
OutageTold == memory.spoken => heard \/ muted

\* A trader whose heartbeat runs and that is not ready, for whatever reasons
\* one after the other, is heard of, is ready again, or ends.  The same two
\* exceptions: what was held back is not said again, however long it lasts.
OutageHeard == (Up /\ ~ready) ~> (ready \/ heard \/ muted \/ ~Up \/ ~beating)

\* A trader that acts under the protection mode has said so, or a sink failed,
\* or it was started when the mode was set already: then it says nothing.
ProtectionTold == Up /\ seen = "protection_mode" => told # "nothing"

\* Refusals told, for every history of them that a new trader may meet: one is
\* sent only if two more lie within the window before it, and when three do,
\* one was sent less than a cooldown ago.
RefusalsTold == Init => HistoriesTold

\* Every outage that lasts is heard of.
OutageAlwaysHeard == (Up /\ ~ready) ~> (ready \/ heard \/ ~Up \/ ~beating)
=============================================================================
