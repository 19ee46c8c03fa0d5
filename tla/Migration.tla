----------------------------- MODULE Migration -----------------------------
(***************************************************************************)
(* store.Open on a database of any earlier release: migrate runs as a list *)
(* of statements and transactions, each guarded by the schema it finds,    *)
(* with a crash possible between any two and the whole list run again at   *)
(* the next open.  A database maps the names of its tables to their        *)
(* columns, the type of their call ids, and their rows.  Only the columns  *)
(* a step looks at or moves data between are kept.                         *)
(***************************************************************************)
EXTENDS Integers, FiniteSets, FiniteSetsExt, Functions, Sequences

CONSTANTS
    Eras,               \* the databases of earlier releases
    Suffixed,           \* the wires whose endpoint ends in their path
    DefaultWires,       \* per adapter: what a provider served before wires
    Scale,              \* per retired unit: the factor to the new basis
    NoKey, Unpriced,    \* an empty api_key, an empty cost
    MaxStops, MaxOpens, MaxChanges          \* bounds

VARIABLES
    db,
    at,                 \* the step migrate is at, or Closed, Opened, Unopened
    hadCredPool, tokensMigrated,    \* migrate's locals
    meaning,            \* history: what the database says, in today's terms
    cut,                \* history: a crash fell between the token steps
    stops, opens, changes

migrationVars ==
    <<db, at, hadCredPool, tokensMigrated, meaning, cut, stops, opens, changes>>

Closed == 0
Opened == 24
Unopened == 25

-----------------------------------------------------------------------------
(* Schema statements *)

NoRows == [x \in {} |-> x]

Has(d, t) == t \in DOMAIN d
HasColumn(d, t, c) == Has(d, t) /\ c \in d[t].cols
RowsOf(d, t) == IF Has(d, t) THEN d[t].rows ELSE NoRows

Lacking(f, x) == [y \in DOMAIN f \ {x} |-> f[y]]
Merged(f, g) == [x \in DOMAIN f \cup DOMAIN g |-> IF x \in DOMAIN f THEN f[x] ELSE g[x]]
SetTable(d, t, table) == [u \in DOMAIN d \cup {t} |-> IF u = t THEN table ELSE d[u]]
SetRows(d, t, rows) == [d EXCEPT ![t].rows = rows]
SetColumns(d, t, cols) == [d EXCEPT ![t].cols = cols]

RenameTable(d, old, new) ==
    IF Has(d, old) THEN SetTable(Lacking(d, old), new, d[old]) ELSE d

RenameColumn(d, t, old, new) ==
    IF HasColumn(d, t, old) THEN SetColumns(d, t, (d[t].cols \ {old}) \cup {new}) ELSE d

(* An old table beside the new one: its rows are folded in, INSERT OR IGNORE,
   and then it is dropped; without the new one it is renamed. *)
FoldOrRename(d, old, new) ==
    IF Has(d, old) /\ Has(d, new)
    THEN SetRows(d, new, Merged(d[new].rows, d[old].rows)) ELSE RenameTable(d, old, new)

DropTable(d, t) == IF Has(d, t) THEN Lacking(d, t) ELSE d

Table(cols, rows) == [cols |-> cols, id |-> "TEXT", rows |-> rows]

(* CREATE TABLE IF NOT EXISTS, in today's shape before the added columns. *)
BaseTables == {"users", "calls", "raw", "context_composition", "sessions", "user_spend",
               "providers", "provider_models"}
CreateTables(d) ==
    Merged(d, [t \in BaseTables |-> Table(IF t = "calls" THEN {"user_id"} ELSE {}, NoRows)])

AddColumn(d, t, c) == SetColumns(d, t, d[t].cols \cup {c})

(* A column that is added holds its default in every row that lacks it. *)
Filled(rows, defaults) == [x \in DOMAIN rows |-> Merged(rows[x], defaults)]
AddDefaulted(d, t, c, defaults) == SetRows(AddColumn(d, t, c), t, Filled(d[t].rows, defaults))

AddColumns(d) ==
    AddDefaulted(AddDefaulted(d, "providers", "api_key", [key |-> NoKey]),
                 "provider_models", "cost", [cost |-> Unpriced])

-----------------------------------------------------------------------------
(* Data steps *)

(* rebuildChildCallID: the call ids of a child take the type of calls.id. *)
Retyped(d, t) == IF Has(d, t) THEN [d EXCEPT ![t].id = "TEXT"] ELSE d

(* migrateCallsToUUID, one transaction: the rebuilt table has the old name of
   the cache-read column, empty where there was none. *)
MigrateCallsToUUID(d) ==
    IF Has(d, "calls") /\ d["calls"].id # "TEXT"
    THEN AddColumn(Retyped(Retyped(Retyped(d, "calls"), "raw"), "context_composition"),
                   "calls", "cached_tokens")
    ELSE d

(* costFromLegacy: a unit that was never priced stays without a cost. *)
CostFromLegacy(r) ==
    IF r.cost = Unpriced /\ r.unit \in DOMAIN Scale THEN r.rate * Scale[r.unit] ELSE r.cost

Costed(rows) == [k \in DOMAIN rows |-> [rows[k] EXCEPT !.cost = CostFromLegacy(rows[k])]]
BackfillModelCosts(d) == SetRows(d, "provider_models", Costed(d["provider_models"].rows))

FreshInput(r) == Max({0, r.input - r.cached})

Split(rows) == [c \in DOMAIN rows |-> [rows[c] EXCEPT !.input = FreshInput(rows[c])]]
SplitInput(d) == SetRows(d, "calls", Split(d["calls"].rows))

Sessions(rows) == {rows[c].session : c \in DOMAIN rows}
CallsOf(rows, s) == {c \in DOMAIN rows : rows[c].session = s}
InputsOf(rows) == [c \in DOMAIN rows |-> rows[c].input]
Sums(values, rows, sessions) ==
    [s \in sessions |-> SumFunctionOnSet(values, CallsOf(rows, s))]

ReseedSessions(d) ==
    LET rows == d["calls"].rows
    IN  SetRows(d, "sessions", Sums(InputsOf(rows), rows, DOMAIN d["sessions"].rows))

(* foldCredentialPool: an empty key becomes the provider's oldest. *)
PooledKey(d, p) ==
    IF p \in DOMAIN RowsOf(d, "service_credentials")
    THEN Head(RowsOf(d, "service_credentials")[p]) ELSE NoKey

FoldPool(d) ==
    LET rows == d["providers"].rows
    IN  SetRows(d, "providers",
            [p \in DOMAIN rows |->
                [rows[p] EXCEPT !.key = IF @ = NoKey THEN PooledKey(d, p) ELSE @]])

(* legacyFullEndpoint: a base URL plus the wire's path, once. *)
Full(w, url) == IF w \in Suffixed THEN [url EXCEPT !.full = TRUE] ELSE url
MadeFull(rows) == [k \in DOMAIN rows |-> [rows[k] EXCEPT !.url = Full(k[2], @)]]

HasBase(d, t) == HasColumn(d, t, "base_url") /\ HasColumn(d, t, "adapter")
FromBase(providers, keys) ==
    [k \in keys |-> [url |-> providers[k[1]].base, adapter |-> providers[k[1]].adapter]]

(* The wires a provider served before any were listed: those of its adapter. *)
DefaultsOf(providers) ==
    UNION {{p} \X DefaultWires[providers[p].adapter] : p \in DOMAIN providers}

(* What cannot be reconstructed refuses to open. *)
Unsupported(d) ==
    \/ /\ Has(d, "provider_endpoints")
       /\ \/ HasColumn(d, "provider_endpoints", "base_url")
              <=> HasColumn(d, "provider_endpoints", "endpoint")
          \/ ~HasColumn(d, "provider_endpoints", "adapter")
    \/ /\ ~Has(d, "provider_endpoints")
       /\ DOMAIN d["providers"].rows # {} /\ ~HasBase(d, "providers")
    \/ /\ HasColumn(d, "provider_endpoints", "base_url")
       /\ ~HasBase(d, "providers")
       /\ ~(DOMAIN RowsOf(d, "provider_wires") \subseteq DOMAIN d["provider_endpoints"].rows)

(* The endpoints in the old shape: the ones stored, then those that a wire
   still lacks. *)
Collected(d) ==
    LET providers == d["providers"].rows
        wires == DOMAIN RowsOf(d, "provider_wires")
        served == IF Has(d, "provider_endpoints") \/ Has(d, "provider_wires") THEN wires
                  ELSE DefaultsOf(providers)
    IN  Merged(RowsOf(d, "provider_endpoints"),
               IF HasBase(d, "providers") THEN FromBase(providers, served) ELSE NoRows)

(* The endpoints in today's shape.  A canonical table is left alone, whatever
   wires are still listed beside it. *)
Endpoints(d) ==
    IF HasColumn(d, "provider_endpoints", "endpoint") THEN d["provider_endpoints"].rows
    ELSE MadeFull(Collected(d))

(* migrateProviderSchema, one transaction. *)
MigrateProviderSchema(d) ==
    SetColumns(DropTable(SetTable(d, "provider_endpoints",
                                  Table({"endpoint", "adapter"}, Endpoints(d))),
                         "provider_wires"),
               "providers", d["providers"].cols \ {"base_url", "adapter"})

(* backfillSessions, backfillUserSpend: only into an empty table. *)
BackfillSessions(d) ==
    LET rows == d["calls"].rows
    IN  IF DOMAIN d["sessions"].rows # {} THEN d
        ELSE SetRows(d, "sessions", Sums(InputsOf(rows), rows, Sessions(rows)))

SpendOf(rows) ==
    LET costs == [c \in DOMAIN rows |-> rows[c].cost]
    IN  [u \in {rows[c].user : c \in DOMAIN rows} |->
            SumFunctionOnSet(costs, {c \in DOMAIN rows : rows[c].user = u})]

BackfillUserSpend_EveryTime(d) == SetRows(d, "user_spend", SpendOf(d["calls"].rows))
BackfillUserSpend(d) ==
    IF DOMAIN d["user_spend"].rows # {} THEN d
    ELSE SetRows(d, "user_spend", SpendOf(d["calls"].rows))

-----------------------------------------------------------------------------
(* What a database of any era, or one in the middle of a migration, says. *)

BothRows(d, old, new) == Merged(RowsOf(d, new), RowsOf(d, old))

Providers(d) == IF Has(d, "services") THEN "services" ELSE "providers"
Models(d) == IF Has(d, "service_models") THEN "service_models" ELSE "provider_models"

OwnersIn(d) ==
    LET rows == RowsOf(d, "calls") IN [c \in DOMAIN rows |-> rows[c].user]

KeysIn(d) ==
    LET rows == RowsOf(d, Providers(d))
    IN  [p \in DOMAIN rows |->
            IF HasColumn(d, Providers(d), "api_key") /\ rows[p].key # NoKey
            THEN rows[p].key ELSE PooledKey(d, p)]

CostsIn(d) ==
    LET rows == RowsOf(d, Models(d))
    IN  [k \in DOMAIN rows |-> CostFromLegacy(Merged(rows[k], [cost |-> Unpriced]))]

(* What a request of a wire reached: an endpoint stored for it, or, before the
   table was canonical, the provider's base URL if the wire was served. *)
ReachedIn(d) ==
    LET providers == RowsOf(d, Providers(d))
        listed == Has(d, "service_wires") \/ Has(d, "provider_wires")
        wires == DOMAIN BothRows(d, "service_wires", "provider_wires")
        served == IF Has(d, "provider_endpoints") \/ listed THEN wires ELSE DefaultsOf(providers)
        stored == RowsOf(d, "provider_endpoints")
    IN  IF HasColumn(d, "provider_endpoints", "endpoint") THEN stored
        ELSE MadeFull(Merged(stored, IF HasBase(d, Providers(d)) THEN FromBase(providers, served)
                                     ELSE NoRows))

SpendIn(d) ==
    LET stored == RowsOf(d, "user_spend")
    IN  IF DOMAIN stored = {} THEN SpendOf(RowsOf(d, "calls")) ELSE stored

TokensIn(d) ==
    LET rows == RowsOf(d, "calls")
    IN  IF HasColumn(d, "calls", "cached_tokens")
        THEN [c \in DOMAIN rows |-> FreshInput(rows[c])] ELSE InputsOf(rows)

SessionsIn(d) ==
    LET kept == RowsOf(d, "sessions")
        rows == RowsOf(d, "calls")
    IN  IF DOMAIN kept # {} /\ ~HasColumn(d, "calls", "cached_tokens") THEN kept
        ELSE Sums(TokensIn(d), rows, IF DOMAIN kept = {} THEN Sessions(rows) ELSE DOMAIN kept)

Meaning(d) ==
    [users |-> DOMAIN BothRows(d, "tokens", "users"), owners |-> OwnersIn(d),
     bodies |-> DOMAIN BothRows(d, "payloads", "raw"), keys |-> KeysIn(d), costs |-> CostsIn(d),
     endpoints |-> ReachedIn(d), spend |-> SpendIn(d),
     input |-> TokensIn(d), sessions |-> SessionsIn(d)]

-----------------------------------------------------------------------------
(* What a database of an earlier release is: rows have the columns of their
   table, a wire has its provider (a foreign key), no release had the two names
   of the provider tables side by side, and integer call ids are older than
   the cached tokens and than the sessions. *)

Shaped(d) == \A t \in DOMAIN d : {"cols", "id", "rows"} \subseteq DOMAIN d[t]
RenamedOnce(d) ==
    /\ ~(Has(d, "services") /\ Has(d, "providers"))
    /\ ~(Has(d, "service_models") /\ Has(d, "provider_models"))
ProvidersOK(d) ==
    \A t \in {"services", "providers"} : \A p \in DOMAIN RowsOf(d, t) :
        /\ "key" \in DOMAIN RowsOf(d, t)[p] <=> HasColumn(d, t, "api_key")
        /\ HasBase(d, t) => {"base", "adapter"} \subseteq DOMAIN RowsOf(d, t)[p]
ModelsOK(d) ==
    \A t \in {"service_models", "provider_models"} : \A k \in DOMAIN RowsOf(d, t) :
        {"unit", "rate"} \subseteq DOMAIN RowsOf(d, t)[k]
CallsOK(d) ==
    \A c \in DOMAIN RowsOf(d, "calls") :
        {"user", "session", "input", "cached", "cost"} \subseteq DOMAIN RowsOf(d, "calls")[c]
Numbered(d) == Has(d, "calls") /\ d["calls"].id # "TEXT" /\ ~HasColumn(d, "calls", "cached_tokens")
NumberedOK(d) ==
    Numbered(d) =>
        /\ DOMAIN RowsOf(d, "sessions") = {}
        /\ \A c \in DOMAIN RowsOf(d, "calls") :
              RowsOf(d, "calls")[c].input \in Nat /\ RowsOf(d, "calls")[c].cached = 0
WiresOK(d) ==
    HasBase(d, Providers(d)) =>
        \A t \in {"service_wires", "provider_wires"} : \A k \in DOMAIN RowsOf(d, t) :
            k[1] \in DOMAIN RowsOf(d, Providers(d))
WellFormed(d) ==
    /\ Shaped(d) /\ RenamedOnce(d) /\ ProvidersOK(d) /\ ModelsOK(d)
    /\ CallsOK(d) /\ NumberedOK(d) /\ WiresOK(d)

ASSUME MigrationAssumption == \A d \in Eras : WellFormed(d)

-----------------------------------------------------------------------------
(* migrate, step by step *)

MigrationInit ==
    /\ db = NoRows /\ meaning = Meaning(NoRows)
    /\ at = Closed
    /\ hadCredPool = FALSE /\ tokensMigrated = FALSE
    /\ cut = FALSE
    /\ stops = 0 /\ opens = 0 /\ changes = 0

(* The gateway is installed over the database of an earlier release. *)
Upgrade ==
    /\ at = Closed /\ opens = 0
    /\ db' \in Eras
    /\ meaning' = Meaning(db')
    /\ at' = 1
    /\ opens' = 1
    /\ hadCredPool' = Has(db', "service_credentials")
    /\ tokensMigrated' = FALSE
    /\ UNCHANGED <<cut, stops, changes>>

(* Open, on what the last process left. *)
Open ==
    /\ at = Closed /\ opens > 0 /\ opens < MaxOpens
    /\ at' = 1
    /\ opens' = opens + 1
    /\ hadCredPool' = Has(db, "service_credentials")
    /\ tokensMigrated' = FALSE
    /\ UNCHANGED <<db, meaning, cut, stops, changes>>

Step(n, d) ==
    /\ at = n
    /\ db' = d
    /\ at' = n + 1
    /\ UNCHANGED <<hadCredPool, tokensMigrated, meaning, cut, stops, opens, changes>>

(* renameServicesToProviders, renameTokensToUsers, renamePayloadsToRaw *)
Renames ==
    \/ Step(1, RenameTable(db, "services", "providers"))
    \/ Step(2, RenameTable(db, "service_models", "provider_models"))
    \/ Step(3, FoldOrRename(db, "service_wires", "provider_wires"))
    \/ Step(4, DropTable(db, "service_wires"))
    \/ Step(5, FoldOrRename(db, "tokens", "users"))
    \/ Step(6, DropTable(db, "tokens"))
    \/ Step(7, RenameColumn(db, "calls", "token_id", "user_id"))
    \/ Step(8, FoldOrRename(db, "payloads", "raw"))
    \/ Step(9, DropTable(db, "payloads"))

Tables ==
    \/ Step(10, MigrateCallsToUUID(db))
    \/ Step(11, CreateTables(db))
    \/ Step(12, AddColumns(db))
    \/ Step(13, BackfillModelCosts(db))

(* The old column is the guard, and the statement that renames it comes before
   the one that splits the tokens. *)
RenameCached ==
    /\ at = 14
    /\ db' = RenameColumn(db, "calls", "cached_tokens", "cache_read_input_tokens")
    /\ tokensMigrated' = HasColumn(db, "calls", "cached_tokens")
    /\ at' = 15
    /\ UNCHANGED <<hadCredPool, meaning, cut, stops, opens, changes>>

Tokenize ==
    \/ Step(15, IF tokensMigrated THEN SplitInput(db) ELSE db)
    \/ Step(16, AddColumn(db, "calls", "cache_read_input_tokens"))
    \/ Step(17, IF tokensMigrated THEN ReseedSessions(db) ELSE db)

Pool ==
    \/ Step(18, IF hadCredPool THEN FoldPool(db) ELSE db)
    \/ Step(19, IF hadCredPool THEN DropTable(db, "service_credentials") ELSE db)

Schema == at = 20 /\ ~Unsupported(db) /\ Step(20, MigrateProviderSchema(db))

Backfills ==
    \/ Step(21, BackfillSessions(db))
    \/ Step(22, BackfillUserSpend(db))

FinishMigration ==
    /\ at = 23
    /\ at' = Opened
    /\ UNCHANGED <<db, hadCredPool, tokensMigrated, meaning, cut, stops, opens, changes>>

(* migrate returns an error, and the gateway does not start. *)
Refuse ==
    /\ at = 20 /\ Unsupported(db)
    /\ at' = Unopened
    /\ UNCHANGED <<db, hadCredPool, tokensMigrated, meaning, cut, stops, opens, changes>>

(* Between the rename and the reseed the guard is gone and the work is not
   done. *)
InTokenWindow == tokensMigrated /\ at \in {15, 16, 17}

Stop ==
    /\ at \in 1..23 /\ stops < MaxStops
    /\ at' = Closed
    /\ cut' = (cut \/ InTokenWindow)
    /\ stops' = stops + 1
    /\ UNCHANGED <<db, hadCredPool, tokensMigrated, meaning, opens, changes>>

Close ==
    /\ at = Opened
    /\ at' = Closed
    /\ UNCHANGED <<db, hadCredPool, tokensMigrated, meaning, cut, stops, opens, changes>>

(* Life between two opens: an operator removes an endpoint, and retention
   prunes the oldest calls with their bodies. *)
Change ==
    /\ at = Opened /\ changes < MaxChanges
    /\ changes' = changes + 1
    /\ \/ \E k \in DOMAIN db["provider_endpoints"].rows :
              /\ db' = [db EXCEPT !["provider_endpoints"].rows = Lacking(@, k)]
              /\ meaning' = [meaning EXCEPT !.endpoints = Lacking(@, k)]
       \/ \E c \in DOMAIN db["calls"].rows :
              /\ db' = [db EXCEPT !["calls"].rows = Lacking(@, c), !["raw"].rows = Lacking(@, c)]
              /\ meaning' = [meaning EXCEPT !.owners = Lacking(@, c), !.bodies = @ \ {c},
                                            !.input = Lacking(@, c)]
    /\ UNCHANGED <<at, hadCredPool, tokensMigrated, cut, stops, opens>>

MigrationNext ==
    \/ Upgrade \/ Open \/ Renames \/ Tables \/ RenameCached \/ Tokenize \/ Pool \/ Schema
    \/ Backfills \/ FinishMigration \/ Refuse \/ Stop \/ Close \/ Change

-----------------------------------------------------------------------------
(* Properties *)

TokenParts == {"input", "sessions"}

(* After every statement, through every crash and reopening, the database says
   what it said before the upgrade and what was done to it since: no user,
   key, endpoint, price, body or total is lost, doubled or brought back.  The
   token counts are the exception while the renamed column hides that they
   are not split yet, for ever when a crash falls there (store.go:517-550). *)
NothingIsLost ==
    LET said == Meaning(db) IN
    \A part \in DOMAIN said :
        \/ part \in TokenParts /\ (cut \/ InTokenWindow)
        \/ said[part] = meaning[part]
=============================================================================
