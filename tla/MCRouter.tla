------------------------------ MODULE MCRouter ------------------------------
(* Small fleets for Router: two providers, the second of them split into   *)
(* two vendors of one key.                                                 *)
EXTENDS Router, TLC

CONSTANTS primary, backup, backup2, keyP, keyB, m1, m2, s1

Order == <<primary, backup>>
Keyed == (primary :> keyP) @@ (backup :> keyB) @@ (backup2 :> keyB)

Knobs(p, w) == [priority |-> p, weight |-> w]
Switch(e, p, w) == [enabled |-> e, priority |-> p, weight |-> w]

\* One tier; the primary is parked for m1, the backup disabled for m2.
PrimaryRoutes == (m1 :> Switch(TRUE, 1, 0)) @@ (m2 :> Switch(TRUE, 1, 1))
BackupRoutes == (m1 :> Switch(TRUE, 1, 1)) @@ (m2 :> Switch(FALSE, 1, 1))
TierDefault == (primary :> Knobs(1, 1)) @@ (backup :> Knobs(1, 1)) @@ (backup2 :> Knobs(1, 1))
TierRoutes == (primary :> PrimaryRoutes) @@ (backup :> BackupRoutes) @@ (backup2 :> BackupRoutes)

Everything == {primary, backup}
Ask(scope, session, model, provider, fits) ==
    [scope |-> scope, session |-> session, model |-> model,
     provider |-> provider, fits |-> fits]

\* A session that asks for a model and for anything, which makes two
\* affinity keys, and a request every route of which is disabled.
TierRequests == {
    Ask("model", s1, m1, keyP, {primary, backup}),
    Ask("all", s1, NoModel, keyP, {primary, backup}),
    Ask("provider", NoSession, m2, keyB, Everything)}

\* Strict tiers: the backup only serves when the primary is less healthy.
FailoverOrder == <<primary, backup>>
FailoverDefault == (primary :> Knobs(1, 1)) @@ (backup :> Knobs(2, 1))
FailoverRoutes == (primary :> (m1 :> Switch(TRUE, 1, 1))) @@ (backup :> (m1 :> Switch(TRUE, 2, 1)))
FailoverRequests == {
    Ask("model", s1, m1, keyP, {primary, backup}),
    Ask("all", NoSession, NoModel, keyP, {primary, backup})}
Symm == Permutations(Slots)
=============================================================================
