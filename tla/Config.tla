------------------------------- MODULE Config -------------------------------
(***************************************************************************)
(* The configuration of a running gateway: administrators edit providers,  *)
(* proxies and routing in the store (internal/api, internal/store), the    *)
(* price feed replaces the refreshed rates (internal/pricefeed), and after *)
(* its write each of them rebuilds the live snapshot (configsvc.Reload).   *)
(* A write is one transaction; a reload reads the store in five queries    *)
(* with no lock, builds, and swaps the snapshot in, so reloads overlap     *)
(* with each other and with writes.  A restart builds afresh, possibly     *)
(* from a newer release's catalogue.                                       *)
(***************************************************************************)
EXTENDS Snapshots

CONSTANTS
    Admins,             \* admin requests served at once
    Refresher,          \* the price feed's loop
    ProxyIds,
    Saved,              \* the tables an earlier life left: rows, models, ...
    Drafts,             \* the providers an admin may create
    Patches,            \* the partial updates an admin may send
    RoutePatches,       \* the routing updates an admin may send
    ProxySettings,
    Quotes,             \* what models.dev may publish
    Catalogues,         \* per release: generated and hand-written prices
    MaxTurns          \* bound: edits, refreshes and restarts

(* The foreign keys and the transactions that write a provider keep the three
   tables in step. *)
ASSUME TablesInStep ==
    DOMAIN Saved.models = DOMAIN Saved.rows /\ DOMAIN Saved.endpoints = DOMAIN Saved.rows
ASSUME FeedIsRanked == DOMAIN Saved.feed \subseteq DOMAIN IdRank

VARIABLES
    rows, models, endpoints, proxies, feedPrices,      \* the tables
    release,            \* the running binary, an index into Catalogues
    live,               \* Manager.current: the vendors of the snapshot
    reload,             \* per actor: where its Reload is and what it has read
    newest,             \* history: the reloads begun in this life, NewManager's first
    liveBy,             \* history: which of them stored the snapshot
    changed,            \* history: which of them began last before the tables last changed
    lapse,              \* history: a change no reload has begun after
    turns

tables == <<rows, models, endpoints, proxies, feedPrices>>
history == <<newest, liveBy, changed, lapse>>
configVars == <<tables, release, live, reload, history, turns>>

Actors == Admins \cup {Refresher}
Empty == <<>>
NoView == [rows |-> Empty, models |-> Empty, endpoints |-> Empty, proxies |-> Empty,
           feed |-> Empty]
NoReload == [at |-> "idle", ticket |-> 0, view |-> NoView]

Sources(rel, feed) ==
    [feed |-> feed, pinned |-> Catalogues[rel].manual,
     catalog |-> Merge(Catalogues[rel].generated, Catalogues[rel].manual)]

(* What the tables hold, read at one instant. *)
Stored == [rows |-> rows, models |-> models, endpoints |-> endpoints, proxies |-> proxies,
           feed |-> feedPrices]

(* Price lists that state the same rates. *)
SameRates(f, g) ==
    /\ Rows(f) = Rows(g)
    /\ \A r \in Rows(f) : f[r[1]][r[2]] = g[r[1]][r[2]]

(* NewManager: a failed first build starts on an empty snapshot. *)
Boot(view, src) == IF Builds(view, src) THEN Vendors(view, src) ELSE {}

ConfigInit ==
    /\ rows = Saved.rows /\ models = Saved.models /\ endpoints = Saved.endpoints
    /\ proxies = Saved.proxies /\ feedPrices = Saved.feed
    /\ release = 1
    /\ live = Boot(Stored, Sources(release, feedPrices))
    /\ reload = [a \in Actors |-> NoReload]
    /\ newest = 1 /\ liveBy = 1 /\ changed = 0 /\ lapse = FALSE
    /\ turns = 0

-----------------------------------------------------------------------------
(* Writes.  A handler commits and then reloads.  When the row cannot be read
   back after the commit, the handler reports an error and does not reload. *)

Committed(a) ==
    /\ turns' = turns + 1
    /\ changed' = newest
    /\ \/ reload' = [reload EXCEPT ![a] = [NoReload EXCEPT !.at = "due"]] /\ UNCHANGED lapse
       \/ lapse' = TRUE /\ UNCHANGED reload
    /\ UNCHANGED <<feedPrices, release, live, newest, liveBy>>

CanEdit(a) == reload[a].at = "idle" /\ turns < MaxTurns

NameFree(p, name) == \A q \in DOMAIN rows \ {p} : rows[q].name # name

(* randID: an id nobody ever had.  Saved has none above 0. *)
FreshId == turns + 1

Put(f, x, y) == [z \in DOMAIN f \cup {x} |-> IF z = x THEN y ELSE f[z]]

(* createProviderData: a name is required, and the proxy is set later. *)
CreateProvider(a) ==
    /\ CanEdit(a)
    /\ \E p \in {FreshId}, d \in Drafts :
        /\ d.row.name # Empty
        /\ NameFree(p, d.row.name)
        /\ rows' = Put(rows, p, [d.row EXCEPT !.proxy = NoProxy])
        /\ models' = Put(models, p, d.models)
        /\ endpoints' = Put(endpoints, p, d.endpoints)
    /\ UNCHANGED proxies
    /\ Committed(a)

(* loadModelRouting, insertModelsWithRouting: a model that stays keeps its
   routing, a new one starts switched on and inheriting. *)
KeepRouting(p, new) ==
    [m \in DOMAIN new |->
        IF m \in DOMAIN models[p]
        THEN [new[m] EXCEPT !.on = models[p][m].on, !.priority = models[p][m].priority,
                            !.weight = models[p][m].weight]
        ELSE new[m]]

(* UpdateProvider: the fields the request names, the others as they were.
   The catalogue id cannot be changed.  The foreign key refuses a proxy that
   is gone; an empty key was refused before; an empty name is not. *)
UpdateProvider(a) ==
    /\ CanEdit(a)
    /\ \E p \in DOMAIN rows, u \in Patches :
        LET row == u.row @@ rows[p] IN
        /\ NameFree(p, row.name)
        /\ row.proxy \in DOMAIN proxies \cup {NoProxy}
        /\ rows' = [rows EXCEPT ![p] = row]
        /\ models' = IF "models" \in DOMAIN u
                     THEN [models EXCEPT ![p] = KeepRouting(p, u.models)] ELSE models
        /\ endpoints' = IF "endpoints" \in DOMAIN u
                        THEN [endpoints EXCEPT ![p] = u.endpoints] ELSE endpoints
    /\ UNCHANGED proxies
    /\ Committed(a)

Without(f, x) == [y \in DOMAIN f \ {x} |-> f[y]]

(* DeleteProvider: models and endpoints cascade. *)
DeleteProvider(a) ==
    /\ CanEdit(a)
    /\ \E p \in DOMAIN rows :
        /\ rows' = Without(rows, p)
        /\ models' = Without(models, p)
        /\ endpoints' = Without(endpoints, p)
    /\ UNCHANGED proxies
    /\ Committed(a)

(* UpdateProviderModelRouting *)
PatchRouting(a) ==
    /\ CanEdit(a)
    /\ \E p \in DOMAIN rows, u \in RoutePatches :
        \E m \in DOMAIN models[p] :
            models' = [models EXCEPT ![p][m] = u @@ models[p][m]]
    /\ UNCHANGED <<rows, endpoints, proxies>>
    /\ Committed(a)

(* CreateProxy, UpdateProxy *)
SetProxy(a) ==
    /\ CanEdit(a)
    /\ \E x \in ProxyIds, s \in ProxySettings : proxies' = Put(proxies, x, s)
    /\ UNCHANGED <<rows, models, endpoints>>
    /\ Committed(a)

(* DeleteProxy: refused, by the check or by the foreign key, while a provider
   uses it. *)
DeleteProxy(a) ==
    /\ CanEdit(a)
    /\ \E x \in DOMAIN proxies :
        /\ \A p \in DOMAIN rows : rows[p].proxy # x
        /\ proxies' = Without(proxies, x)
    /\ UNCHANGED <<rows, models, endpoints>>
    /\ Committed(a)

(* refresh, once the fetch has answered.  Nobody else writes the rates, so
   reading the old ones and replacing them is one step.  Without a plausible
   quote the old rates stay; when nothing moved there is no reload. *)
Refresh ==
    /\ reload[Refresher].at = "idle" /\ turns < MaxTurns
    /\ turns' = turns + 1
    /\ \E upstream \in Quotes :
        LET generated == Generate(upstream, Catalogues[release].manual)
            moved == Moved(feedPrices, generated)
        IN  /\ Rows(Plausible(generated)) # {}
            /\ feedPrices' = Plausible(generated)
            /\ changed' = IF SameRates(feedPrices, feedPrices') THEN changed ELSE newest
            /\ reload' = IF moved = {} THEN reload
                         ELSE [reload EXCEPT ![Refresher] = [NoReload EXCEPT !.at = "due"]]
            /\ lapse' = (lapse \/ (moved = {} /\ Rows(feedPrices) \cap Implausible(generated) # {}))
    /\ UNCHANGED <<rows, models, endpoints, proxies, release, live, newest, liveBy>>

-----------------------------------------------------------------------------
(* Reload, one query at a time. *)

(* Without a provider, ListProviders asks nothing more. *)
ReadProviders(a) ==
    /\ reload[a].at = "due"
    /\ newest' = newest + 1
    /\ lapse' = FALSE
    /\ reload' = [reload EXCEPT ![a] =
           [at |-> IF rows = Empty THEN "proxies" ELSE "models", ticket |-> newest',
            view |-> [NoView EXCEPT !.rows = rows]]]
    /\ UNCHANGED <<tables, release, live, liveBy, changed, turns>>

(* The rows of a table that belong to the providers already read. *)
Joined(a, table) ==
    [p \in DOMAIN reload[a].view.rows |-> IF p \in DOMAIN table THEN table[p] ELSE Empty]

ReadModels(a) ==
    /\ reload[a].at = "models"
    /\ reload' = [reload EXCEPT ![a].at = "endpoints", ![a].view.models = Joined(a, models)]
    /\ UNCHANGED <<tables, release, live, history, turns>>

ReadEndpoints(a) ==
    /\ reload[a].at = "endpoints"
    /\ reload' = [reload EXCEPT ![a].at = "proxies", ![a].view.endpoints = Joined(a, endpoints)]
    /\ UNCHANGED <<tables, release, live, history, turns>>

ReadProxies(a) ==
    /\ reload[a].at = "proxies"
    /\ reload' = [reload EXCEPT ![a].at = "feed", ![a].view.proxies = proxies]
    /\ UNCHANGED <<tables, release, live, history, turns>>

(* Unreadable rates are none: the embedded catalogue is the floor, and the
   reload counts for none. *)
ReadFeed(a) ==
    /\ reload[a].at = "feed"
    /\ \/ reload' = [reload EXCEPT ![a].at = "build", ![a].view.feed = feedPrices]
       \/ reload' = [reload EXCEPT ![a].at = "build", ![a].ticket = 0]
    /\ UNCHANGED <<tables, release, live, history, turns>>

(* build and the swap.  A failed build leaves the snapshot as it was. *)
Store(a) ==
    /\ reload[a].at = "build"
    /\ reload' = [reload EXCEPT ![a] = NoReload]
    /\ LET view == reload[a].view
           src == Sources(release, view.feed)
       IN  IF Builds(view, src)
           THEN live' = Vendors(view, src) /\ liveBy' = reload[a].ticket
           ELSE UNCHANGED <<live, liveBy>>
    /\ UNCHANGED <<tables, release, newest, changed, lapse, turns>>

(* A query fails: Reload returns the error and keeps the snapshot.  Failing
   before the last query leads to the same state. *)
ReloadFails(a) ==
    /\ reload[a].at = "feed"
    /\ reload' = [reload EXCEPT ![a] = NoReload]
    /\ UNCHANGED <<tables, release, live, history, turns>>

(* The process ends at any point and starts again, with the same binary or a
   later one; NewManager's Reload runs before anything else. *)
Restart ==
    /\ turns < MaxTurns
    /\ turns' = turns + 1
    /\ release' \in release..Len(Catalogues)
    /\ live' = Boot(Stored, Sources(release', feedPrices))
    /\ reload' = [a \in Actors |-> NoReload]
    /\ newest' = 1 /\ liveBy' = 1 /\ changed' = 0 /\ lapse' = FALSE
    /\ UNCHANGED tables

ConfigNext ==
    \/ \E a \in Admins :
        \/ CreateProvider(a) \/ UpdateProvider(a) \/ DeleteProvider(a) \/ PatchRouting(a)
        \/ SetProxy(a) \/ DeleteProxy(a)
    \/ Refresh
    \/ \E a \in Actors :
        \/ ReadProviders(a) \/ ReadModels(a) \/ ReadEndpoints(a) \/ ReadProxies(a)
        \/ ReadFeed(a) \/ Store(a) \/ ReloadFails(a)
    \/ Restart

-----------------------------------------------------------------------------
(* Properties *)

Quiet == \A a \in Actors : reload[a].at = "idle"

(* Once edits, refreshes and reloads have come to rest, a reload began after
   the last change of the tables, unless that change was an edit whose row
   could not be read back or a refresh that silently dropped a rate; and
   whatever overlapped with it, with every query a read of its own, a snapshot
   stored by a reload that began after the last change is what the tables say,
   prices included (manager.go Reload, providers.go reloadAfterWrite,
   pricefeed.go refresh). *)
SnapshotFollowsChanges ==
    /\ Quiet /\ ~lapse => newest > changed
    /\ liveBy > changed /\ Builds(Stored, Sources(release, feedPrices))
        => live = Vendors(Stored, Sources(release, feedPrices))

(* What the dashboard calls routable is what the gateway routes, with the
   priority and the weight it shows, once a reload has followed the last
   change: services.go derives it from the stored rows, manager.go and
   snapshot.go from the snapshot. *)
RoutableMeansRouted ==
    liveBy > changed /\ Builds(Stored, Sources(release, feedPrices)) =>
        \A p \in DOMAIN rows : \A m \in DOMAIN models[p] :
            LET routed == {v \in ByModel(live, m) : v.provider = p} IN
            /\ Routable(Stored, p, m) <=> routed # {}
            /\ \A v \in routed : v.routes[m] = RouteOf(rows[p], models[p][m])
=============================================================================
