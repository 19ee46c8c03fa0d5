----------------------------- MODULE Statistics -----------------------------
(***************************************************************************)
(* The dashboard's aggregates over the call log: store/stats.go, feed.go,  *)
(* calls.go and the views api/handlers.go builds from them.  Every panel   *)
(* is a query of its own, written by hand in SQL or in Go, and the panels  *)
(* stand side by side: the module is about whether they tell one story     *)
(* while calls arrive, end and are pruned.  A name is a number, in the     *)
(* order the names sort; an err keeps its slug and loses its detail; and a *)
(* panel grouped by one column of the table is asked for every column.     *)
(***************************************************************************)
EXTENDS Integers, FiniteSets, FiniteSetsExt, Functions

CONSTANTS CallIds,      \* the calls that may arrive
          Logged,       \* the logs there may be at the start
          Arrivals,     \* what CreateCall can be told of a call
          Endings,      \* what FinalizeCall can be told of its end
          Dimensions,   \* the columns a panel groups by
          Scopes,       \* [user, filter]: the key that asks and the dashboard's selection
          Depth,        \* agent -> how many agents deep its client spawned it
          Blank, Unnamed, OtherModelKey,  \* the names '', "unknown" and "Other"
          TopN,         \* tokensByModelTopN
          PageSize,     \* maxCallsLimit
          BucketSize,   \* of a series
          Windows,      \* the [since, until) a panel may be asked for
          Horizon       \* no call arrives after it

VARIABLE log            \* the calls table: id -> row

StatusPending == -1

Begun(a) ==
    [ts |-> a.ts, by |-> a.by, session |-> a.session, agent |-> a.agent, parent |-> a.parent,
     status |-> StatusPending, err |-> "", cost |-> 0, input |-> 0, cached |-> 0, output |-> 0,
     latency |-> 0]

Ended(r, end) ==
    [r EXCEPT !.status = end.status, !.err = end.err, !.cost = end.cost, !.input = end.input,
              !.cached = end.cached, !.output = end.output, !.latency = end.latency]

(* What the constants are: ids and names in the order they sort, and agents
   that name the one that spawned them, if any (extractAttribution). *)
Columns == {"ts", "by", "session", "agent", "parent", "status", "err", "cost", "input",
            "cached", "output", "latency"}
IsCall(r) ==
    /\ r = [f \in Columns |-> r[f]]
    /\ r.ts \in Int /\ r.by \in [Dimensions \cup {"user"} -> Nat]
    /\ r.status \in Nat \cup {StatusPending}
    /\ r.cost \in Nat /\ r.input \in Nat /\ r.cached \in Nat /\ r.output \in Nat
    /\ r.agent \in DOMAIN Depth
    /\ r.parent # "" => r.parent \in DOMAIN Depth /\ Depth[r.parent] < Depth[r.agent]
IsLog(rows) ==
    DOMAIN rows \subseteq Nat /\ IsFiniteSet(DOMAIN rows) /\ \A c \in DOMAIN rows : IsCall(rows[c])

ASSUME StatisticsAssumption ==
    /\ TopN \in Nat /\ BucketSize \in Nat \ {0} /\ Horizon \in Nat /\ PageSize \in Nat
    /\ Blank = 0 /\ {Unnamed, OtherModelKey} \subseteq Nat \ {0}
    /\ Depth \in [DOMAIN Depth -> Nat] /\ CallIds \subseteq Nat /\ Windows \subseteq Int \X Int
    /\ \A rows \in Logged : IsLog(rows)
    /\ \A a \in Arrivals : IsCall(Begun(a))
    /\ \A end \in Endings :
          /\ end.status \in Nat
          /\ end.cost \in Nat /\ end.input \in Nat /\ end.cached \in Nat /\ end.output \in Nat

CreateCall(c, a) ==
    /\ c \notin DOMAIN log
    /\ log' = [x \in DOMAIN log \cup {c} |-> IF x = c THEN Begun(a) ELSE log[x]]

FinalizeCall(c, end) ==
    /\ c \in DOMAIN log \cap CallIds /\ log[c].status = StatusPending
    /\ log' = [log EXCEPT ![c] = Ended(@, end)]

PruneCalls(cutoff) ==
    /\ \E c \in DOMAIN log : log[c].ts < cutoff
    /\ log' = Restrict(log, {c \in DOMAIN log : log[c].ts >= cutoff})

StatisticsInit == log \in Logged
StatisticsNext ==
    \/ \E c \in CallIds : \/ \E a \in Arrivals : CreateCall(c, a)
                          \/ \E end \in Endings : FinalizeCall(c, end)
    \/ \E cutoff \in 1..Horizon : PruneCalls(cutoff)

(* The predicates the SQL is built from. *)
HasVerdict(r) == r.status # StatusPending
IsRunning(r) == ~HasVerdict(r)
NotCallerAbort(r) == r.err # "client_gone"
PolicyDenied(r) == r.err \in {"budget_exceeded", "rate_limited"}
Failed(r) == r.status = 0 \/ r.status >= 400 \/ r.err # ""
NotServed(r) == HasVerdict(r) /\ NotCallerAbort(r) /\ Failed(r)
Rated_KeepsTheCallersAborts(r) == HasVerdict(r) /\ ~PolicyDenied(r)
Rated(r) == HasVerdict(r) /\ NotCallerAbort(r) /\ ~PolicyDenied(r)
RatedFailure(r) == Rated(r) /\ Failed(r)
ProviderFailed(r) ==
    /\ HasVerdict(r) /\ NotCallerAbort(r)
    /\ \/ r.err = "" /\ (r.status = 0 \/ r.status >= 400)
       \/ r.err \in {"transport_error", "stream_error"}

(* What the Go side makes of the same row. *)
OutcomeOf(r) ==
    CASE r.status = StatusPending -> "in_flight"
      [] r.status # StatusPending /\ r.err = "" ->
            (CASE r.status = 0 -> "transport_error"
               [] r.status >= 400 -> "vendor_error"
               [] OTHER -> "ok")
      [] r.status # StatusPending /\ r.err # "" ->
            (CASE r.err = "transport_error" -> "transport_error"
               [] r.err = "stream_error" -> "truncated"
               [] r.err = "client_gone" -> "client_gone"
               [] r.err = "budget_exceeded" -> "denied_budget"
               [] r.err = "rate_limited" -> "denied_rate"
               [] r.err = "model_not_allowed" -> "denied_scope"
               [] r.err = "no_upstream" -> "no_route"
               [] OTHER -> "unknown")
IsPolicyDenial(r) == OutcomeOf(r) \in {"denied_budget", "denied_rate"}
IsErrorStatus(r) == OutcomeOf(r) \notin {"ok", "client_gone", "in_flight"}
IsRated(r) == OutcomeOf(r) \notin {"in_flight", "client_gone"} /\ ~IsPolicyDenial(r)

CountOf(R, P(_)) == Cardinality({c \in R : P(log[c])})
Sum(R, F(_)) == SumFunction([c \in R |-> F(log[c])])
Input(r) == r.input + r.cached
Tokens(r) == Input(r) + r.output
CostOf(r) == r.cost
CachedOf(r) == r.cached

(* windowClause: the rows of [since, until) and, where the panel follows the
   dashboard's selection, those of them the scope lets through. *)
InScope(r, user, filter) ==
    /\ user = Blank \/ r.by["user"] = user
    /\ \A d \in DOMAIN filter : filter[d] = {} \/ r.by[d] \in filter[d]

Between(since, until) == {c \in DOMAIN log : since <= log[c].ts /\ log[c].ts < until}
Scoped(user, filter, since, until) ==
    {c \in Between(since, until) : InScope(log[c], user, filter)}

(* What the SQL panels select over their groups of rows. *)
Refused(r) == PolicyDenied(r) /\ HasVerdict(r)
Tally(R) == [requests |-> CountOf(R, HasVerdict), rated |-> CountOf(R, Rated),
             denied |-> CountOf(R, Refused), errors |-> CountOf(R, RatedFailure)]
Usage(R) == [requests |-> CountOf(R, HasVerdict), rated |-> CountOf(R, Rated),
             denied |-> CountOf(R, Refused), errors |-> CountOf(R, RatedFailure),
             cost |-> Sum(R, CostOf), tokens |-> Sum(R, Tokens)]

(* OverviewStats walks the rows in Go.  Nearest-rank over the rated ones. *)
Percentile(R, F(_), p) ==
    LET n == Cardinality(R)
        rank == Max({1, Min({n, (p * n + 99) \div 100})})
        atMost(v) == Cardinality({c \in R : F(log[c]) <= v})
    IN IF R = {} THEN 0
       ELSE Min({v \in {F(log[c]) : c \in R} : atMost(v) >= rank})
OverviewStats(R) ==
    LET counted == {c \in R : HasVerdict(log[c])}
        rated == {c \in counted : IsRated(log[c])}
    IN [requests |-> Cardinality(counted),
        rated    |-> Cardinality(rated),
        denied   |-> CountOf(counted \ rated, IsPolicyDenial),
        errors   |-> CountOf(rated, IsErrorStatus),
        p50      |-> Percentile(rated, LAMBDA r : r.latency, 50)]

(* Groups by a column d.  VendorStats blames a provider only for what it did. *)
Key(c, d) == log[c].by[d]
KeysOf(R, d) == {Key(c, d) : c \in R}
Breakdown(R, d) == [k \in KeysOf(R, d) |-> Usage({c \in R : Key(c, d) = k})]
VendorStats(R, d) ==
    [k \in KeysOf(R, d) |->
       LET group == {c \in R : Key(c, d) = k}
       IN [Tally(group) EXCEPT !.errors = CountOf(group, ProviderFailed)]]
ModelStats(R, d) == [k \in KeysOf(R, d) |-> Tally({c \in R : Key(c, d) = k})]
SpendBy(R, d) == [k \in KeysOf(R, d) |-> Sum({c \in R : Key(c, d) = k}, CostOf)]

(* The options of a filter: the caller's rows, whatever else is selected,
   pending ones too. *)
Facets(user, since, until, d) ==
    LET R == Scoped(user, [any \in {} |-> {}], since, until)
    IN [k \in KeysOf(R, d) \ {Blank} |-> Cardinality({c \in R : Key(c, d) = k})]

(* Buckets start at multiples of their size; the first one holds since. *)
BucketStart(ts) == (ts \div BucketSize) * BucketSize
BucketStarts(since, until) ==
    IF until <= BucketStart(since) THEN {}
    ELSE LET count == (until - BucketStart(since) - 1) \div BucketSize + 1
         IN {BucketStart(since) + i * BucketSize : i \in 0..(count - 1)}

(* The top-N fold the three series share: the names with the most weight,
   ties by name, keep a series each; the rest are summed into Other. *)
Name(c, d) == IF Key(c, d) = Blank THEN Unnamed ELSE Key(c, d)
TopKeys(R, d, weight) ==
    LET names == {Name(c, d) : c \in R}
        total == [n \in names |-> SumFunctionOnSet(weight, {c \in R : Name(c, d) = n})]
        ahead(n) == {m \in names : total[m] > total[n] \/ (total[m] = total[n] /\ m < n)}
    IN {n \in names : Cardinality(ahead(n)) < TopN}
SeriesKey(c, d, top) == IF Name(c, d) \in top THEN Name(c, d) ELSE OtherModelKey
SeriesKeys(R, d, top) == {SeriesKey(c, d, top) : c \in R}
Cell(R, d, top, b, k) == {c \in R : BucketStart(log[c].ts) = b /\ SeriesKey(c, d, top) = k}

One(r) == IF HasVerdict(r) THEN 1 ELSE 0
SuccessByModelSeries(R, d, since, until) ==
    LET top == TopKeys(R, d, [c \in R |-> One(log[c])])
    IN [b \in BucketStarts(since, until) |->
          [k \in SeriesKeys(R, d, top) |-> Tally(Cell(R, d, top, b, k))]]
TokensByModelSeries(R, d, since, until) ==
    LET top == TopKeys(R, d, [c \in R |-> Tokens(log[c])])
    IN [b \in BucketStarts(since, until) |->
          [k \in SeriesKeys(R, d, top) |->
             [tokens |-> Sum(Cell(R, d, top, b, k), Tokens),
              cost |-> Sum(Cell(R, d, top, b, k), CostOf)]]]
CacheByModelSeries(R, d, since, until) ==
    LET top == TopKeys(R, d, [c \in R |-> Input(log[c])])
    IN [b \in BucketStarts(since, until) |->
          [k \in SeriesKeys(R, d, top) |->
             [read |-> Sum(Cell(R, d, top, b, k), CachedOf),
              input |-> Sum(Cell(R, d, top, b, k), Input)]]]
UsageSeries(R, since, until) ==
    [b \in BucketStarts(since, until) |-> Usage({c \in R : BucketStart(log[c].ts) = b})]

(* ErrorClassCounts and TopErrorCodes, before its cut at limit. *)
Forwarded(r) == r.err = "" /\ HasVerdict(r)
RateLimited(r) == Forwarded(r) /\ r.status = 429
ClientError(r) == Forwarded(r) /\ r.status \in 400..499 \ {429}
ServerError(r) == Forwarded(r) /\ r.status >= 500
TransportError(r) ==
    /\ HasVerdict(r)
    /\ r.err \in {"transport_error", "stream_error"} \/ (r.err = "" /\ r.status = 0)
GatewayError(r) == NotServed(r) /\ ~ProviderFailed(r)
ErrorClasses(R) ==
    [rateLimited |-> CountOf(R, RateLimited), clientError |-> CountOf(R, ClientError),
     serverError |-> CountOf(R, ServerError), transport |-> CountOf(R, TransportError),
     gateway |-> CountOf(R, GatewayError)]
Code(c) == <<log[c].status, OutcomeOf(log[c])>>
ErrorCodes(R) ==
    LET bad == {c \in R : NotServed(log[c])}
    IN [k \in {Code(c) : c \in bad} |-> Cardinality({c \in bad : Code(c) = k})]

(* The activity feed: a session's calls are one row, any other call its own. *)
Group(c) == IF log[c].session = "" THEN <<"req", c>> ELSE <<"session", log[c].session>>
ActivityFeed(R) ==
    [g \in {Group(c) : c \in R} |->
       LET S == {c \in R : Group(c) = g}
       IN [calls |-> Cardinality(S), cost |-> Sum(S, CostOf), tokens |-> Sum(S, Tokens),
           errors |-> CountOf(S, NotServed)]]

FailuresFeed(R) ==
    LET feed == ActivityFeed(R) IN Restrict(feed, {g \in DOMAIN feed : feed[g].errors > 0})

(* The session page adds up its newest rows again, in Go, and as a tree of
   agents.  An agent's parent is the one its first call names; the tree shows
   the agents that can be reached from a root. *)
SessionCalls(s) == {c \in DOMAIN log : log[c].session = s}
Earlier(c, e) == log[c].ts < log[e].ts \/ (log[c].ts = log[e].ts /\ c < e)
SessionPage(s) ==
    {c \in SessionCalls(s) : Cardinality({e \in SessionCalls(s) : Earlier(c, e)}) < PageSize}
SessionData(S) ==
    [calls |-> Cardinality(S), cost |-> Sum(S, CostOf), tokens |-> Sum(S, Tokens),
     errors |-> CountOf(S, IsErrorStatus)]

AgentsOf(S) == {log[c].agent : c \in S}
FirstCall(S, a) ==
    LET own == {c \in S : log[c].agent = a} IN CHOOSE c \in own : \A e \in own : ~Earlier(e, c)
ParentOf(S, a) == log[FirstCall(S, a)].parent
IsShownWith(S, a, shown) ==
    ParentOf(S, a) = "" \/ ParentOf(S, a) \notin AgentsOf(S) \/ ParentOf(S, a) \in shown
ShownAgents(S) ==
    {a \in AgentsOf(S) : \A shown \in SUBSET AgentsOf(S) :
        (\A b \in AgentsOf(S) : IsShownWith(S, b, shown) => b \in shown) => a \in shown}
AgentTree(S) ==
    LET listed == {c \in S : log[c].agent \in ShownAgents(S)}
    IN [calls |-> Cardinality(listed), cost |-> Sum(listed, CostOf)]

(***************************************************************************)
(* Panels that stand side by side agree, whatever is running, refused,     *)
(* cancelled or pruned: the Go walk and the SQL predicates count the same  *)
(* rows, grouping by any column or bucket (with its top-N fold) loses and  *)
(* repeats nothing, the failures listed by code and by feed row are the    *)
(* graded ones plus the refusals named beside them ("a Budget x 946 row    *)
(* here and a 97% beside it have to reconcile", stats.go), an option of a  *)
(* filter counts the requests that choosing it leaves and those still      *)
(* running, what counts against providers is what the classes do not put   *)
(* on the gateway, and a session's page and tree of agents add up to its   *)
(* row of the feed, as long as the session fits the page.                  *)
(***************************************************************************)
Total(rows, field) == SumFunction([k \in DOMAIN rows |-> rows[k][field]])
AddUp(rows, tally) == \A field \in DOMAIN tally : Total(rows, field) = tally[field]
TotalOfSeries(series, field) == SumFunction([b \in DOMAIN series |-> Total(series[b], field)])

(* The panels that follow the dashboard's selection. *)
ScopedPanels(R, since, until) ==
    LET tally == Tally(R)
        overview == OverviewStats(R)
        notServed == tally.errors + tally.denied
    IN /\ \A field \in DOMAIN tally : overview[field] = tally[field]
       /\ SumFunction(ErrorCodes(R)) = notServed
       /\ Total(ActivityFeed(R), "errors") = notServed
       /\ Total(FailuresFeed(R), "errors") = notServed
       /\ Total(ActivityFeed(R), "cost") = Sum(R, CostOf)
       /\ \A d \in Dimensions :
             /\ SumFunction(SpendBy(R, d)) = Sum(R, CostOf)
             /\ LET success == SuccessByModelSeries(R, d, since, until)
                IN /\ \A field \in DOMAIN tally : TotalOfSeries(success, field) = tally[field]
                   /\ \A b \in DOMAIN success : Cardinality(DOMAIN success[b]) <= TopN + 1
             /\ LET tokens == TokensByModelSeries(R, d, since, until)
                IN /\ TotalOfSeries(tokens, "cost") = Sum(R, CostOf)
                   /\ TotalOfSeries(tokens, "tokens") = Sum(R, Tokens)
             /\ TotalOfSeries(CacheByModelSeries(R, d, since, until), "input") = Sum(R, Input)

(* The panels of the whole fleet, and the unfiltered overview beside them. *)
FleetPanels(since, until) ==
    LET R == Between(since, until)
        usage == Usage(R)
        tally == Tally(R)
        overview == OverviewStats(R)
        classes == ErrorClasses(R)
    IN /\ AddUp(UsageSeries(R, since, until), usage)
       /\ SumFunction(classes) = overview.errors + overview.denied
       /\ \A d \in Dimensions :
             /\ AddUp(Breakdown(R, d), usage)
             /\ AddUp(ModelStats(R, d), tally)
             /\ AddUp(VendorStats(R, d),
                      [tally EXCEPT !.errors = SumFunction(classes) - classes.gateway])

FacetsReconcile(user, since, until) ==
    \A d \in Dimensions \ {"user"} :
        LET facets == Facets(user, since, until, d)
        IN \A k \in DOMAIN facets :
              LET chosen == Scoped(user, [x \in {d} |-> {k}], since, until)
              IN facets[k] = OverviewStats(chosen).requests + CountOf(chosen, IsRunning)

SessionReconciles(s) ==
    LET row == ActivityFeed(DOMAIN log)[<<"session", s>>]
        page == SessionPage(s)
    IN row.calls <= PageSize =>
          /\ SessionData(page) = row
          /\ AgentTree(page) = [calls |-> row.calls, cost |-> row.cost]

PanelsAgree ==
    /\ \A w \in Windows :
          /\ FleetPanels(w[1], w[2])
          /\ \A scope \in Scopes :
                /\ ScopedPanels(Scoped(scope.user, scope.filter, w[1], w[2]), w[1], w[2])
                /\ FacetsReconcile(scope.user, w[1], w[2])
    /\ \A c \in DOMAIN log : log[c].session # "" => SessionReconciles(log[c].session)

(* An empty log has nothing to show. *)
PanelsReconcile == log # <<>> => PanelsAgree
=============================================================================
