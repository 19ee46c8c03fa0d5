----------------------------- MODULE Snapshots -----------------------------
(***************************************************************************)
(* internal/configsvc and internal/config: from the stored providers to    *)
(* the vendors traffic is routed over.  A view holds what build read:      *)
(* view.rows maps provider ids to rows, view.models and view.endpoints     *)
(* map them to their models and wires, view.proxies is the set of proxy    *)
(* ids with their settings, view.feed the refreshed prices.  A name is     *)
(* the sequence of its dash-separated parts.                               *)
(***************************************************************************)
EXTENDS Pricing, Sequences, TLC

CONSTANTS
    Wires,              \* the wires of the registry (wire.Get)
    NoProxy,
    Inherit             \* a model without an override of its own

AdapterRank(a) ==
    CASE a = "openai-compatible" -> 0
      [] a = "anthropic-compatible" -> 1
      [] a = "volc-speech" -> 2
      [] OTHER -> 3

AdapterSlug(a) ==
    CASE a = "anthropic-compatible" -> "anthropic"
      [] a = "volc-speech" -> "speech"
      [] OTHER -> "openai"

Known(eps) == {w \in DOMAIN eps : w \in Wires}

(* The endpoints of one origin and adapter make one vendor; wires nobody
   registered are dropped. *)
Groups(eps) == {[origin |-> eps[w].origin, adapter |-> eps[w].adapter] : w \in Known(eps)}

Precedes(g, h) ==
    \/ AdapterRank(g.adapter) < AdapterRank(h.adapter)
    \/ AdapterRank(g.adapter) = AdapterRank(h.adapter) /\ g.origin < h.origin

(* The first group keeps the provider's name.  The others add their slug, and
   the second and later ones with one slug a number. *)
VendorName(name, G, g) ==
    LET earlier == {h \in G : Precedes(h, g)}
        namesakes == {h \in earlier : AdapterSlug(h.adapter) = AdapterSlug(g.adapter)
                                      /\ \E f \in earlier : Precedes(f, h)}
        nth == Cardinality(namesakes) + 1
    IN  IF earlier = {} THEN name
        ELSE IF nth = 1 THEN name \o <<AdapterSlug(g.adapter)>>
        ELSE name \o <<AdapterSlug(g.adapter), ToString(nth)>>

Own(override, default) == IF override = Inherit THEN default ELSE override

RouteOf(row, model) ==
    [on |-> model.on, priority |-> Own(model.priority, row.priority),
     weight |-> Own(model.weight, row.weight)]

(* vendorsFromProvider *)
VendorsFrom(p, view, src) ==
    LET row == view.rows[p]
        models == view.models[p]
        eps == view.endpoints[p]
        prices == PriceTable(row.catalog, models, src)
        routes == [m \in DOMAIN models |-> RouteOf(row, models[m])]
    IN  {[name |-> VendorName(row.name, Groups(eps), g),
          provider |-> p, origin |-> g.origin, adapter |-> g.adapter,
          wires |-> {w \in Known(eps) : eps[w].origin = g.origin /\ eps[w].adapter = g.adapter},
          routes |-> routes, prices |-> prices,
          proxy |-> IF row.proxy = NoProxy THEN NoProxy ELSE view.proxies[row.proxy]] :
             g \in Groups(eps)}

(* The providers build passes over with a warning. *)
Skipped(view) ==
    {p \in DOMAIN view.rows :
        \/ ~view.rows[p].enabled
        \/ ~view.rows[p].key
        \/ view.models[p] = <<>>}

Complete(view) == DOMAIN view.rows \ Skipped(view)

(* A complete provider that names a missing proxy fails the whole build. *)
ProxiesResolve(view) ==
    \A p \in Complete(view) :
        view.rows[p].proxy = NoProxy \/ view.rows[p].proxy \in DOMAIN view.proxies

Vendors(view, src) == UNION {VendorsFrom(p, view, src) : p \in Complete(view)}

(* config.validate.  The API has checked every endpoint and proxy it stored,
   and a complete provider has a key and models; what is left to reject: *)
Valid(vendors) ==
    /\ \A v \in vendors : v.name # <<>>
    /\ \A v, w \in vendors : v.name = w.name => v = w
    /\ \A v \in vendors : \A m \in DOMAIN v.prices : v.prices[m].cost >= 0

Builds(view, src) == ProxiesResolve(view) /\ Valid(Vendors(view, src))

(* newSnapshot: the vendors of a model, without those that switched it off. *)
ByModel(vendors, m) == {v \in vendors : m \in DOMAIN v.routes /\ v.routes[m].on}

-----------------------------------------------------------------------------
(* internal/api/services.go: what the operator is shown. *)

(* servicesData: whether a provider serves a model. *)
Routable_AnyEndpoint(view, p, m) ==
    /\ view.rows[p].enabled
    /\ view.rows[p].key
    /\ view.endpoints[p] # <<>>
    /\ view.models[p][m].on
Routable(view, p, m) ==
    /\ view.rows[p].enabled
    /\ view.rows[p].key
    /\ Known(view.endpoints[p]) # {}
    /\ view.models[p][m].on
=============================================================================
