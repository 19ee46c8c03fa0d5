------------------------------- MODULE Router -------------------------------
(***************************************************************************)
(* internal/router/router.go in its loop with the proxy: Select orders the *)
(* vendors by (health, sticky, priority, draw, declaration), the proxy     *)
(* dispatches to the first one that survives wire matching and user scope, *)
(* and what the vendor answers feeds the health and the affinity that the  *)
(* next Select reads.  Every request gets exactly one attempt.             *)
(***************************************************************************)
EXTENDS HealthLadder, AffinityMap, Sequences, SequencesExt, Functions

CONSTANTS
    Declared,       \* the vendors of the snapshot, in declaration order
    CredOf,         \* vendor -> credential
    Default,        \* vendor -> [priority, weight]
    Routes,         \* vendor -> [model -> [enabled, priority, weight]] (ModelRoutes)
    Requests,       \* what clients ask: see RequestShape
    Slots,          \* concurrent requests
    ModelCooldown,  \* ticks
    NoSession, NoModel,
    HealthySignals, \* what a vendor whose upstream works may answer
    MaxOutages      \* bound: how often the set of working upstreams changes

Vendors == Range(Declared)
Creds == {CredOf[v] : v \in Vendors}

(* fits: the vendors wire matching and the user's scope would keep. *)
RequestShape(q) ==
    /\ q.scope \in {"all", "model", "provider"}
    /\ q.session \in Sessions \cup {NoSession}
    /\ q.scope = "model" => q.model # NoModel
    /\ q.scope = "provider" => q.provider \in Creds
    /\ q.fits \subseteq Vendors

ASSUME RequestsWellFormed == \A q \in Requests : RequestShape(q)
(* A vendor has a name (configsvc/manager.go:265-271), an integer priority *)
(* and a weight that the API and the store keep from being negative.       *)
ASSUME FleetDeclared == Declared \in Seq(Vendors) /\ NoVendor \notin Vendors
ASSUME WeightsNotNegative ==
    \A v \in Vendors :
        /\ Default[v] \in [priority : Int, weight : Nat]
        /\ \A m \in DOMAIN Routes[v] :
              Routes[v][m] \in [enabled : BOOLEAN, priority : Int, weight : Nat]
(* vendorsFromProvider replicates a provider's weights on all its vendors. *)
ASSUME WeightsPerCredential ==
    \A v, w \in Vendors : CredOf[v] = CredOf[w] =>
        Default[v] = Default[w] /\ Routes[v] = Routes[w]

VARIABLES
    health,         \* r.health
    modelCooling,   \* r.modelCooling, ticks left
    affinity,       \* r.affinity
    slots,          \* the requests in flight
    working,        \* the vendors whose upstream answers
    outages,        \* changes of working so far
    served          \* history: the vendor that last answered each affinity key

vars == <<health, modelCooling, affinity, slots, working, outages, served>>

Models == UNION {DOMAIN Routes[v] : v \in Vendors}

(* affinityKey: the session scoped by what it asked for. *)
AffinityKey(q) ==
    <<q.session, CASE q.scope = "model" -> q.model
                   [] q.scope = "provider" -> q.provider
                   [] OTHER -> NoModel>>
Keys == {AffinityKey(q) : q \in {r \in Requests : r.session # NoSession}}

Idle == [phase |-> "idle"]
Unserved == [vendor |-> NoVendor, since |-> StickyTTL]

Init ==
    /\ health = [v \in Vendors |-> Fresh]
    /\ modelCooling = [v \in Vendors |-> [m \in Models |-> 0]]
    /\ affinity = NewAffinity
    /\ slots = [a \in Slots |-> Idle]
    /\ working = Vendors
    /\ outages = 0
    /\ served = [k \in Keys |-> Unserved]

-----------------------------------------------------------------------------
(* Selection *)

Configured(v, q) == q.model \in DOMAIN Routes[v]

(* The vendors Select ranks: VendorsForModel, a provider pin honouring an  *)
(* explicit disable, or everything.                                        *)
Candidates_PinIgnoresDisable(q) ==
    CASE q.scope = "model" -> {v \in Vendors : Configured(v, q) /\ Routes[v][q.model].enabled}
      [] q.scope = "provider" -> {v \in Vendors : CredOf[v] = q.provider}
      [] OTHER -> Vendors
Candidates(q) ==
    CASE q.scope = "model" -> {v \in Vendors : Configured(v, q) /\ Routes[v][q.model].enabled}
      [] q.scope = "provider" -> {v \in Vendors :
            CredOf[v] = q.provider /\ (Configured(v, q) => Routes[v][q.model].enabled)}
      [] OTHER -> Vendors

(* Their tier: the model's route where the selection honours it. *)
Tier(v, q) ==
    IF q.scope # "all" /\ Configured(v, q)
    THEN [priority |-> Routes[v][q.model].priority, weight |-> Routes[v][q.model].weight]
    ELSE Default[v]

(* weightedDraw, one per credential: any outcome of the race for a positive *)
(* weight, beyond all of them for a parked vendor.                          *)
Draws == Bijection(Creds, 1..Cardinality(Creds))
Parked == Cardinality(Creds) + 1
DrawOf_ParkedDraws(v, q, draw) == draw[CredOf[v]]
DrawOf(v, q, draw) == IF Tier(v, q).weight <= 0 THEN Parked ELSE draw[CredOf[v]]

PinOf(q) == IF q.session = NoSession THEN NoVendor ELSE Lookup(affinity, AffinityKey(q))

(* A live vendor rate-limited for this model ranks as cooling for it. *)
RankFor(v, q) ==
    IF /\ HealthRank(health[v]) = Live
       /\ q.model \in Models
       /\ modelCooling[v][q.model] > 0
    THEN Cooling ELSE HealthRank(health[v])

Decl(v) == CHOOSE i \in DOMAIN Declared : Declared[i] = v

SortKey_StickyLast(v, q, pin, draw) ==
    <<RankFor(v, q), Tier(v, q).priority, DrawOf(v, q, draw),
      IF v = pin THEN 0 ELSE 1, Decl(v)>>
SortKey(v, q, pin, draw) ==
    <<RankFor(v, q), IF v = pin THEN 0 ELSE 1, Tier(v, q).priority,
      DrawOf(v, q, draw), Decl(v)>>

Before(x, y) ==
    \E i \in DOMAIN x : x[i] < y[i] /\ \A j \in 1..(i - 1) : x[j] = y[j]

(* sort.SliceStable *)
Sorted(S, key) ==
    CHOOSE order \in SetToSeqs(S) :
        \A j \in DOMAIN order : \A i \in 1..(j - 1) : Before(key[order[i]], key[order[j]])

(* Select: the candidates, best first. *)
Select_DropsDead(q, pin, draw) ==
    LET alive == {v \in Candidates(q) : ~health[v].dead}
    IN Sorted(alive, [v \in alive |-> SortKey(v, q, pin, draw)])
Select(q, pin, draw) ==
    Sorted(Candidates(q), [v \in Candidates(q) |-> SortKey(v, q, pin, draw)])

(* The places of the targets that the proxy keeps of it. *)
Kept(order, q) == {i \in DOMAIN order : order[i] \in q.fits}

(* The vendor that answered the session last, and whether the map must     *)
(* still know it: within the timeout, and with fewer than StickyMax others *)
(* seen as recently.                                                       *)
LastServed(q) == IF q.session = NoSession THEN NoVendor ELSE served[AffinityKey(q)].vendor
Assured(k) ==
    /\ served[k].since < StickyTTL
    /\ Cardinality({j \in Keys \ {k} : served[j].since <= served[k].since}) < StickyMax

(* order reads the pin first, under the affinity lock, which sweeps ...     *)
ReadPin(a, q) ==
    /\ slots[a] = Idle
    /\ slots' = [slots EXCEPT ![a] = [phase |-> "ranking", request |-> q, pin |-> PinOf(q),
                                      last |-> LastServed(q),
                                      assured |-> q.session # NoSession /\ Assured(AffinityKey(q))]]
    /\ affinity' = IF q.session = NoSession THEN affinity ELSE Swept(affinity)
    /\ UNCHANGED <<health, modelCooling, working, outages, served>>

(* ... then ranks under the router lock; the proxy dispatches to the first *)
(* target kept, or denies the request when there is none.                  *)
Rank(a, draw) ==
    /\ slots[a].phase = "ranking"
    /\ LET q == slots[a].request
           order == Select(q, slots[a].pin, draw)
           kept == Kept(order, q)
       IN slots' = [slots EXCEPT ![a] =
                       IF kept = {} THEN Idle
                       ELSE [phase |-> "sent", request |-> q, vendor |-> order[Min(kept)]]]
    /\ UNCHANGED <<health, modelCooling, affinity, working, outages, served>>

-----------------------------------------------------------------------------
(* Outcomes *)

(* Counters past the point where they can matter are not told apart.       *)
Capped(h) == [h EXCEPT !.consecFail = IF @ > FailThreshold THEN FailThreshold ELSE @,
                       !.demotions = IF @ > DeadAfter THEN DeadAfter ELSE @]

(* ReportAttempt for every signal but the shared-credential one, whose     *)
(* fan-out is Health's subject.                                            *)
Report(v, q, sig) ==
    /\ health' = [health EXCEPT ![v] = Capped(
            CASE sig = "ok" -> Succeed(@)
              [] sig \in {"fail", "failHard"} -> Fail(@, sig)
              [] sig = "failClient" /\ q.session # NoSession -> FailClient(@, q.session)
              [] OTHER -> @)]
    /\ modelCooling' = IF sig = "failModel" /\ q.model \in Models
                       THEN [modelCooling EXCEPT ![v][q.model] = ModelCooldown]
                       ELSE modelCooling

(* The vendor never answered: reported, not pinned.                        *)
TransportError(a, sig) ==
    /\ slots[a].phase = "sent"
    /\ slots[a].vendor \notin working
    /\ Report(slots[a].vendor, slots[a].request, sig)
    /\ slots' = [slots EXCEPT ![a] = Idle]
    /\ UNCHANGED <<affinity, working, outages, served>>

(* A response, relayed to its end; the deferred report comes first ...     *)
Answer(a, sig) ==
    /\ slots[a].phase = "sent"
    /\ sig \in IF slots[a].vendor \in working THEN HealthySignals ELSE {"fail"}
    /\ Report(slots[a].vendor, slots[a].request, sig)
    /\ slots' = [slots EXCEPT ![a].phase = "reported"]
    /\ UNCHANGED <<affinity, working, outages, served>>

Outcome(a) ==
    \/ \E sig \in {"fail", "failHard"} : TransportError(a, sig)
    \/ \E sig \in {"ok", "fail", "failModel", "failClient"} : Answer(a, sig)

(* The client hung up: nobody is blamed, and the session is pinned only if *)
(* the response had begun.                                                 *)
ClientGone(a) ==
    /\ slots[a].phase = "sent"
    /\ \E begun \in BOOLEAN :
          slots' = [slots EXCEPT ![a] =
                       IF begun THEN [slots[a] EXCEPT !.phase = "reported"] ELSE Idle]
    /\ UNCHANGED <<health, modelCooling, affinity, working, outages, served>>

(* Pin: nothing without a session. *)
PinTo(q, v) ==
    IF q.session = NoSession THEN {affinity} ELSE Pinned(affinity, AffinityKey(q), v)

(* ... and the pin after it, in a lock of its own. *)
PinServed(a) ==
    /\ slots[a].phase = "reported"
    /\ slots' = [slots EXCEPT ![a] = Idle]
    /\ LET q == slots[a].request
           v == slots[a].vendor
       IN /\ affinity' \in PinTo(q, v)
          /\ served' = [k \in Keys |-> IF k = AffinityKey(q)
                                       THEN [vendor |-> v, since |-> 0] ELSE served[k]]
    /\ UNCHANGED <<health, modelCooling, working, outages>>

Tick ==
    /\ health' = [v \in Vendors |-> Elapse(health[v])]
    /\ modelCooling' = [v \in Vendors |-> [m \in Models |->
                           IF modelCooling[v][m] > 0 THEN modelCooling[v][m] - 1 ELSE 0]]
    /\ affinity' = Older(affinity)
    /\ served' = [k \in Keys |-> IF served[k].since + 1 < StickyTTL
                                 THEN [served[k] EXCEPT !.since = @ + 1] ELSE Unserved]
    /\ UNCHANGED <<slots, working, outages>>

(* Upstreams break and recover by themselves. *)
Outage ==
    /\ outages < MaxOutages
    /\ \E W \in SUBSET Vendors : W # working /\ working' = W
    /\ outages' = outages + 1
    /\ UNCHANGED <<health, modelCooling, affinity, slots, served>>

Next ==
    \/ \E a \in Slots :
          \/ \E q \in Requests : ReadPin(a, q)
          \/ \E draw \in Draws : Rank(a, draw)
          \/ ClientGone(a)
          \/ Outcome(a)
          \/ PinServed(a)
    \/ Tick
    \/ Outage

Spec == Init /\ [][Next]_vars

(* Clients keep asking for everything they ask for (strongly: requests     *)
(* share the slots) and do not always hang up, requests end, and time      *)
(* passes; nothing makes the draw or the upstreams fair.                   *)
Traffic == \A q \in Requests : SF_vars(\E a \in Slots : ReadPin(a, q))
FairSpec ==
    /\ Spec
    /\ WF_vars(Tick)
    /\ Traffic
    /\ \A a \in Slots :
          /\ WF_vars(\E draw \in Draws : Rank(a, draw))
          /\ \A q \in Requests : SF_vars(Outcome(a) /\ slots[a].request = q)
          /\ WF_vars(PinServed(a))

-----------------------------------------------------------------------------

Dispatched(a) == slots[a].phase = "ranking" /\ slots'[a].phase = "sent"

(* The vendors this request could go to, were they equally healthy. *)
Usable(q) == Candidates(q) \cap q.fits
Best(q) == {v \in Usable(q) : \A w \in Usable(q) : RankFor(v, q) <= RankFor(w, q)}

(* The promise of stickiness, across all of report, pin, aging and         *)
(* ordering: a session goes back to the vendor that last answered it while *)
(* its cache is warm and no usable vendor is healthier; and it is never    *)
(* held on a vendor while a healthier one is usable (router.go:30-35).     *)
SessionsStayAndEscape ==
    [][\A a \in Slots : Dispatched(a) =>
          LET q == slots'[a].request
              last == slots[a].last
          IN /\ slots'[a].vendor \in Best(q)
             /\ (slots[a].assured /\ last \in Best(q)) => slots'[a].vendor = last]_vars

(* Forgetting is never arbitrary: a session seen within the timeout keeps  *)
(* its pin through every sweep and eviction while fewer than StickyMax     *)
(* other sessions were seen as recently (affinity.go:87-120).  Nor does    *)
(* the map ever answer with an older vendor, or with a pin whose prompt    *)
(* cache is gone (affinity.go:53-70).                                      *)
RecentSessionsKeepTheirPin ==
    \A k \in Keys :
        Lookup(affinity, k) \in
            {served[k].vendor} \cup (IF Assured(k) THEN {} ELSE {NoVendor})

(* Parking stops new sessions and only those: a vendor of weight 0 is      *)
(* chosen only by the session it served last, or when its whole tier is    *)
(* parked (router.go:44-50).                                               *)
ParkedTakesNoNewSession ==
    [][\A a \in Slots : Dispatched(a) =>
          LET q == slots'[a].request
              v == slots'[a].vendor
              tier == {w \in Best(q) : Tier(w, q).priority = Tier(v, q).priority}
          IN Tier(v, q).weight = 0 =>
                \/ slots[a].last = v
                \/ \A w \in tier : Tier(w, q).weight = 0]_vars

(* An outage of everything heals by itself (health.go:493-500): once every *)
(* upstream answers again, some vendor is alive again and stays so without *)
(* an operator, although none was left to prefer.                          *)
SelfInflictedOutageHeals ==
    (<>[](working = Vendors)) => \E v \in Vendors : <>[](~health[v].dead)

(* A vendor that is failing never keeps the traffic from a backup that     *)
(* works: yielding to it is "the entire point of the feature"              *)
(* (router.go:52-56).  While exactly one upstream works, and its vendor    *)
(* can take every request, it is not left dead for ever.                   *)
BackupIsReached ==
    \A v \in Vendors :
        ((\A q \in Requests : v \in Usable(q)) /\ <>[](working = {v}))
            => []<>(~health[v].dead)
=============================================================================
