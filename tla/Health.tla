------------------------------- MODULE Health -------------------------------
(***************************************************************************)
(* internal/router/health.go with every concurrency it meets: attempts     *)
(* report whenever their upstream answers, however long ago they were      *)
(* dispatched; a credential failure demotes its vendors one mutex section  *)
(* at a time; an operator edit clears the health map (ResetHealth) with    *)
(* attempts in flight.                                                     *)
(***************************************************************************)
EXTENDS HealthLadder

CONSTANTS
    Vendors,        \* vendor names
    Models,         \* billing models
    Attempts,       \* slots for dispatched attempts
    CredOf,         \* vendor -> the credential it presents
    ModelCooldown,  \* ticks one model stays demoted on one vendor
    MaxFails,       \* bound: consecFail
    MaxDemotions    \* bound: demotions of one vendor

VARIABLES
    health,         \* r.health
    modelCooling,   \* r.modelCooling, in ticks left
    attempts,       \* the dispatched attempt of each slot
    condemned       \* history: vendors whose key was refused, not cleared since

vars == <<health, modelCooling, attempts, condemned>>

NoAttempt == [phase |-> "none"]

Init ==
    /\ health = [v \in Vendors |-> Fresh]
    /\ modelCooling = [v \in Vendors |-> [m \in Models |-> 0]]
    /\ attempts = [a \in Attempts |-> NoAttempt]
    /\ condemned = {}

(* The proxy dispatches to some vendor under the snapshot it read. *)
Dispatch(a, v) ==
    /\ attempts[a] = NoAttempt
    /\ attempts' = [attempts EXCEPT ![a] = [phase |-> "sent", vendor |-> v]]
    /\ UNCHANGED <<health, modelCooling, condemned>>

Bounded(h) == h.consecFail <= MaxFails /\ h.demotions <= MaxDemotions

(* One mutex section: vendor v's record becomes h. *)
Fold(v, h) == Bounded(h) /\ health' = [health EXCEPT ![v] = h]

Finish(a) == attempts' = [attempts EXCEPT ![a] = NoAttempt]

(* SignalNeutral, and the signals whose scope the request did not carry: a *)
(* 429 without a model, a 4xx without a session.                           *)
ReportNothing(a) ==
    /\ attempts[a].phase = "sent"
    /\ Finish(a)
    /\ UNCHANGED <<health, modelCooling, condemned>>

ReportOK(a) ==
    /\ attempts[a].phase = "sent"
    /\ LET v == attempts[a].vendor
       IN Fold(v, Succeed(health[v])) /\ condemned' = condemned \ {v}
    /\ Finish(a)
    /\ UNCHANGED modelCooling

ReportFail(a, sig) ==
    /\ attempts[a].phase = "sent"
    /\ LET v == attempts[a].vendor
       IN Fold(v, Fail(health[v], sig))
    /\ Finish(a)
    /\ UNCHANGED <<modelCooling, condemned>>

ReportFailClient(a, s) ==
    /\ attempts[a].phase = "sent"
    /\ LET v == attempts[a].vendor
       IN Fold(v, FailClient(health[v], s))
    /\ Finish(a)
    /\ UNCHANGED <<modelCooling, condemned>>

ReportFailModel(a, m) ==
    /\ attempts[a].phase = "sent"
    /\ modelCooling' = [modelCooling EXCEPT ![attempts[a].vendor][m] = ModelCooldown]
    /\ Finish(a)
    /\ UNCHANGED <<health, condemned>>

(* vendorsSharingCredential: the observed vendor and its siblings. *)
Sharing_OnlyObserved(v) == {v}
Sharing(v) == {w \in Vendors : CredOf[w] = CredOf[v]}

(* SignalFailCredential: the names are resolved before the first lock. *)
ReportFailCredential(a) ==
    /\ attempts[a].phase = "sent"
    /\ attempts' = [attempts EXCEPT ![a] =
                       [phase |-> "reporting", todo |-> Sharing(attempts[a].vendor)]]
    /\ condemned' = condemned \cup {w \in Vendors : CredOf[w] = CredOf[attempts[a].vendor]}
    /\ UNCHANGED <<health, modelCooling>>

(* ... and then demoted name by name, each under its own lock.  The code   *)
(* takes the observed vendor first and the rest in snapshot order; any     *)
(* order is allowed here.                                                  *)
FanOut(a) ==
    /\ attempts[a].phase = "reporting"
    /\ \E v \in attempts[a].todo :
          /\ Fold(v, Fail(health[v], "failCredential"))
          /\ attempts' = [attempts EXCEPT ![a] =
                IF attempts[a].todo = {v} THEN NoAttempt
                ELSE [attempts[a] EXCEPT !.todo = @ \ {v}]]
    /\ UNCHANGED <<modelCooling, condemned>>

(* main's reload hook, after the new snapshot is published: every record   *)
(* goes; what is in flight reports into the empty map later.               *)
ResetHealth ==
    /\ health' = [v \in Vendors |-> Fresh]
    /\ modelCooling' = [v \in Vendors |-> [m \in Models |-> 0]]
    /\ condemned' = {}
    /\ UNCHANGED attempts

(* A cooldown is tens of seconds and a fan-out takes microseconds, so no   *)
(* tick falls inside one: all its vendors share the "now" it started with. *)
Tick ==
    /\ \A a \in Attempts : attempts[a].phase # "reporting"
    /\ \/ \E v \in Vendors : health[v].cooling > 0
       \/ \E v \in Vendors, m \in Models : modelCooling[v][m] > 0
    /\ health' = [v \in Vendors |-> Elapse(health[v])]
    /\ modelCooling' = [v \in Vendors |-> [m \in Models |->
                           IF modelCooling[v][m] > 0 THEN modelCooling[v][m] - 1 ELSE 0]]
    /\ UNCHANGED <<attempts, condemned>>

Next ==
    \/ \E a \in Attempts :
          \/ \E v \in Vendors : Dispatch(a, v)
          \/ ReportNothing(a)
          \/ ReportOK(a)
          \/ \E sig \in {"fail", "failHard"} : ReportFail(a, sig)
          \/ \E s \in Sessions : ReportFailClient(a, s)
          \/ \E m \in Models : ReportFailModel(a, m)
          \/ ReportFailCredential(a)
          \/ FanOut(a)
    \/ ResetHealth
    \/ Tick

Spec == Init /\ [][Next]_vars

-----------------------------------------------------------------------------

(* What counts against a vendor: a streak at the threshold, or enough      *)
(* independent sessions.                                                   *)
Indicted(h) ==
    \/ h.consecFail >= FailThreshold
    \/ Cardinality(h.clientFails) >= ClientFailThreshold

(* A vendor is demoted exactly while evidence stands against it: a single  *)
(* client retrying a bad body never demotes (health.go:76-81), a demotion  *)
(* keeps the streak that earned it so that the next failure re-demotes     *)
(* (health.go:391-399), and a success wipes both (health.go:365-379).      *)
DemotedIffIndicted == \A v \in Vendors : health[v].demotions > 0 <=> Indicted(health[v])

(* A dead vendor comes back by a success of its own or by the operator,    *)
(* never by the passage of time or by anything that happens to another     *)
(* vendor (health.go:485-493).                                             *)
RevivedByProofOrOperator ==
    [][\A v \in Vendors : (health[v].dead /\ ~health'[v].dead) =>
          \/ ResetHealth
          \/ \E a \in Attempts : ReportOK(a) /\ attempts[a].vendor = v]_vars

(* However reports race, one more failure never brings a vendor back       *)
(* sooner: a cooldown is only shortened by time, a success or the operator *)
(* (health.go:404-412, 542-558).                                           *)
FailureNeverShortensCooldown ==
    [][\A v \in Vendors : health'[v].cooling < health[v].cooling =>
          \/ Tick
          \/ ResetHealth
          \/ \E a \in Attempts : ReportOK(a) /\ attempts[a].vendor = v]_vars

(* A refused key is dead on every vendor that presents it (health.go:36-46 *)
(* and 312-322): one 401 demotes them all, although each demotion is a     *)
(* section of its own that successes, resets and other reports fall        *)
(* between; only a success of its own or the operator spares a sibling.    *)
RefusedKeyReachesSiblings ==
    \A v \in condemned :
        \/ health[v].demotions > 0
        \/ \E a \in Attempts : attempts[a].phase = "reporting" /\ v \in attempts[a].todo
=============================================================================
