------------------------------ MODULE Metering ------------------------------
(***************************************************************************)
(* What one streamed answer costs: the wire its path resolves to, the line *)
(* scanner the relay tees the bytes into (wire/scanner.go), the usage each *)
(* wire keeps, the canonical counts, and the rate in force when the call   *)
(* began (catalog.go, pricing.go).  The relay delivers the stream in any   *)
(* pieces and may break off anywhere.                                      *)
(***************************************************************************)
EXTENDS Integers, Sequences, FiniteSets, FiniteSetsExt

CONSTANTS
    Registry,           \* wire name -> [suffixes, shape, zeroCost]
    NameRank,           \* wire name -> its place in the lexical order
    Answers,            \* [path, enabled, lines]: calls and what is streamed back
    PriceTables,        \* the price tables a model may have
    Instants,           \* the minutes of the week at which a call may begin
    MaxLineBytes,
    MinutesPerDay, DaysPerWeek,
    Null                \* a usage field stated as null

VARIABLES
    metered,            \* what is asked, when, under which prices, and by which wire it is metered
    position,           \* [line, byte]: how far the stream has come
    scanner             \* lineScanner and the wire's own fields

meteringVars == <<metered, position, scanner>>

Unreported == [f \in {} |-> 0]           \* a nil map
NoCall == [wire |-> "none"]
NewScanner == [held |-> 0, overflow |-> FALSE, usage |-> Unreported, firstToken |-> FALSE,
               completed |-> FALSE, failed |-> FALSE]

(* What the constants are: the axes of a usage object, the events a line can
   carry, and the prices ValidateCost lets through, conditional on the size of
   the prompt or on the time and never on both, with windows that do not wrap. *)
Axes == {"input", "output", "cached", "created"}
Shapes == {"anthropic", "openai", "responses"}
IsUsage(u) == DOMAIN u \subseteq Axes /\ u \in [DOMAIN u -> Nat \cup {Null}]
IsStream(lines) ==
    /\ Len(lines) \in Nat
    /\ \A i \in 1..Len(lines) :
          lines[i].size \in Nat /\ IsUsage(lines[i].event.inner) /\ IsUsage(lines[i].event.outer)
WeeklyWindows == [offset : Int, days : SUBSET (0..(DaysPerWeek - 1)),
            start : 0..MinutesPerDay, end : 0..MinutesPerDay]
CostTiers == [size : Int, input : Int, output : Int, read : Int, write : Int]
CostSchedules == [when : SUBSET WeeklyWindows, input : Int, output : Int, read : Int, write : Int]
Week == MinutesPerDay * DaysPerWeek

ASSUME MeteringAssumption ==
    /\ MinutesPerDay \in Nat \ {0} /\ DaysPerWeek \in Nat \ {0} /\ MaxLineBytes \in Nat
    /\ Instants \subseteq 0..(Week - 1)
    /\ NameRank \in [DOMAIN Registry -> Nat]
    /\ \A w \in DOMAIN Registry :
          Registry[w].shape \in Shapes /\ \A s \in Registry[w].suffixes : Len(s) \in Nat
    /\ \A a \in Answers : Len(a.path) \in Nat /\ IsStream(a.lines)
    /\ \A t \in PriceTables :
          /\ t \in [input : Int, output : Int, read : Int, write : Int,
                    tiers : Seq(CostTiers), schedules : Seq(CostSchedules)]
          /\ t.tiers = <<>> \/ t.schedules = <<>>

MeteringInit == metered = NoCall /\ position = [line |-> 1, byte |-> 0] /\ scanner = NewScanner

EndsWith(path, s) ==
    /\ Len(s) <= Len(path)
    /\ \A i \in 1..Len(s) : s[i] = path[Len(path) - Len(s) + i]

(* Resolve: the longest suffix of the path, ties by name. *)
Resolve(enabled, path) ==
    LET served == enabled \cap DOMAIN Registry
        fits == {f \in served \X UNION {Registry[w].suffixes : w \in served} :
                    f[2] \in Registry[f[1]].suffixes /\ EndsWith(path, f[2])}
        best == {f \in fits : \A g \in fits :
                    \/ Len(g[2]) < Len(f[2])
                    \/ Len(g[2]) = Len(f[2]) /\ NameRank[f[1]] <= NameRank[g[1]]}
    IN  IF fits = {} THEN "none" ELSE (CHOOSE f \in best : TRUE)[1]

Begin(answer, table, minute) ==
    /\ metered = NoCall
    /\ LET wire == Resolve(answer.enabled, answer.path) IN
        /\ wire # "none"
        /\ metered' = [wire |-> wire, lines |-> answer.lines, table |-> table, minute |-> minute]
    /\ UNCHANGED <<position, scanner>>

-----------------------------------------------------------------------------
(* The wires *)

Stated(usage, f) == f \in DOMAIN usage /\ usage[f] # Null

MergeUsage(old, new) ==
    LET stated == {f \in DOMAIN new : new[f] # Null}
    IN  [f \in DOMAIN old \cup stated |-> IF f \in stated THEN new[f] ELSE old[f]]

(* What a wire keeps of an event: the latest of each field, or the latest
   whole report, of which a Responses stream has two kinds. *)
Keeps(shape, usage, e) ==
    IF shape = "anthropic" THEN MergeUsage(MergeUsage(usage, e.inner), e.outer)
    ELSE IF shape = "responses" /\ e.inner # Unreported THEN e.inner
    ELSE IF e.outer # Unreported THEN e.outer ELSE usage

(* processLine of the four scanners, of an event that is a data line *)
ProcessLine(s, e) ==
    LET shape == Registry[metered.wire].shape
    IN  IF e.kind = "comment" THEN s
        ELSE [s EXCEPT !.usage = Keeps(shape, @, e),
                       !.firstToken = @ \/ e.kind = "delta",
                       !.completed = @ \/ (e.kind = "stop" /\ shape \in {"anthropic", "responses"}),
                       !.failed = @ \/ (e.kind = "error" /\ shape = "anthropic")]

NumAt(usage, f) == IF Stated(usage, f) THEN usage[f] ELSE 0

(* anthropicNormalize, openAINormalize, responsesNormalize: input counts the
   fresh tokens only; a wire that reports them together has the cached ones
   taken off. *)
Normalize(shape, usage) ==
    LET cached == NumAt(usage, "cached") IN
    [input |-> IF shape = "anthropic" THEN NumAt(usage, "input")
               ELSE Max({0, NumAt(usage, "input") - cached}),
     output |-> NumAt(usage, "output"), cached |-> cached,
     created |-> IF shape = "anthropic" THEN NumAt(usage, "created") ELSE 0]

-----------------------------------------------------------------------------
(* The line scanner.  A write is consumed in pieces of lines; only its last
   piece lacks the newline. *)

AppendPartial(s, n) ==
    IF s.overflow THEN s
    ELSE IF s.held + n > MaxLineBytes THEN [s EXCEPT !.overflow = TRUE, !.held = 0]
    ELSE [s EXCEPT !.held = @ + n]

Emptied(s) == [s EXCEPT !.held = 0]

(* The newline that ends an over-long line. *)
Discarded(s) == [s EXCEPT !.held = 0, !.overflow = FALSE]

Streaming == metered # NoCall /\ position.line <= Len(metered.lines)
Left == metered.lines[position.line].size - position.byte

(* A chunk ends inside the line, perhaps right before its newline. *)
WritePartial(n) ==
    /\ Streaming /\ n \in 1..Left
    /\ scanner' = AppendPartial(scanner, n)
    /\ position' = [position EXCEPT !.byte = @ + n]
    /\ UNCHANGED metered

(* The rest of the line with its newline.  A line that overflows with its very
   last piece leaves the flag set, so that the line after it goes as well. *)
WriteLine ==
    /\ Streaming
    /\ LET joined == IF scanner.held > 0 THEN AppendPartial(scanner, Left) ELSE scanner
           event == metered.lines[position.line].event
       IN  scanner' =
            IF scanner.overflow THEN Discarded(scanner)
            ELSE IF joined.overflow THEN joined
            ELSE Emptied(ProcessLine(joined, event))
    /\ position' = [line |-> position.line + 1, byte |-> 0]
    /\ UNCHANGED metered

MeteringNext ==
    \/ \E a \in Answers, t \in PriceTables, m \in Instants : Begin(a, t, m)
    \/ Streaming /\ \E n \in 1..Left : WritePartial(n)
    \/ WriteLine

-----------------------------------------------------------------------------
(* Prices *)

Override(table, rates) ==
    [table EXCEPT !.input = IF rates.input # 0 THEN rates.input ELSE @,
                  !.output = IF rates.output # 0 THEN rates.output ELSE @,
                  !.read = IF rates.read # 0 THEN rates.read ELSE @,
                  !.write = IF rates.write # 0 THEN rates.write ELSE @]

LocalMinute(offset, minute) == (minute + offset) % Week

(* Contains: the minute in the vendor's zone, on one of the window's days *)
InWindow(window, minute) ==
    LET local == LocalMinute(window.offset, minute)
    IN  /\ local \div MinutesPerDay \in window.days
        /\ local % MinutesPerDay \in window.start..(window.end - 1)

AtSchedule(table, minute) ==
    LET hits == {i \in DOMAIN table.schedules :
                    \E w \in table.schedules[i].when : InWindow(w, minute)}
    IN  IF hits = {} THEN table ELSE Override(table, table.schedules[Min(hits)])

AtTier(table, prompt) ==
    LET crossed == {i \in DOMAIN table.tiers : prompt > table.tiers[i].size}
        best == {i \in crossed : \A j \in crossed : table.tiers[j].size < table.tiers[i].size
                                                    \/ (table.tiers[j].size = table.tiers[i].size /\ i <= j)}
    IN  IF crossed = {} THEN table ELSE Override(table, table.tiers[CHOOSE i \in best : TRUE])

InForce(table, prompt, minute) ==
    IF table.schedules # <<>> THEN AtSchedule(table, minute) ELSE AtTier(table, prompt)

(* Cost.Resolve and pricing.Cost, token axes: a cache rate that is not
   published is the input rate, never free. *)
Cost_WritesAtInput(table, n, minute) ==
    LET rates == InForce(table, n.input + n.cached + n.created, minute)
    IN  n.input * rates.input + n.created * rates.input + n.output * rates.output
        + n.cached * (IF rates.read <= 0 THEN rates.input ELSE rates.read)
Cost(table, n, minute) ==
    LET rates == InForce(table, n.input + n.cached + n.created, minute)
    IN  n.input * rates.input
        + n.created * (IF rates.write <= 0 THEN rates.input ELSE rates.write)
        + n.cached * (IF rates.read <= 0 THEN rates.input ELSE rates.read)
        + n.output * rates.output

Bill == IF Registry[metered.wire].zeroCost THEN 0
        ELSE Cost(metered.table, Normalize(Registry[metered.wire].shape, scanner.usage), metered.minute)

-----------------------------------------------------------------------------
(* Properties *)

(* The usage a reader of the given lines would find: field by field the last
   one stated, or the last whole report. *)
Stating(lines, D) == {i \in D : lines[i].event.kind # "comment"}
Saying(lines, D, f) ==
    {i \in Stating(lines, D) : Stated(lines[i].event.inner, f) \/ Stated(lines[i].event.outer, f)}
FieldOf(e, f) == IF Stated(e.outer, f) THEN e.outer[f] ELSE e.inner[f]
Nested(shape, e) == shape = "responses" /\ e.inner # Unreported
Reporting(shape, lines, D) ==
    {i \in Stating(lines, D) : Nested(shape, lines[i].event) \/ lines[i].event.outer # Unreported}

Reported(shape, lines, D) ==
    LET reports == Reporting(shape, lines, D)
        last == lines[Max(reports)].event
    IN  IF shape = "anthropic"
        THEN [f \in {g \in Axes : Saying(lines, D, g) # {}} |->
                FieldOf(lines[Max(Saying(lines, D, f))].event, f)]
        ELSE IF reports = {} THEN Unreported
        ELSE IF Nested(shape, last) THEN last.inner ELSE last.outer

(* The rate in force, by the vendor's page: the minutes of the week a window
   covers, in UTC, and the bracket of the largest threshold crossed. *)
UtcMinute(offset, day, m) == (day * MinutesPerDay + m - offset) % Week
Covers(w) == {UtcMinute(w.offset, d, m) : d \in w.days, m \in w.start..(w.end - 1)}

Published(table, axis, prompt, minute) ==
    LET peak == {i \in DOMAIN table.schedules :
                    minute \in UNION {Covers(w) : w \in table.schedules[i].when}}
        crossed == {i \in DOMAIN table.tiers : table.tiers[i].size < prompt}
        largest == {i \in crossed : \A j \in crossed : table.tiers[j].size <= table.tiers[i].size}
        raised == IF peak # {} THEN table.schedules[Min(peak)][axis]
                  ELSE IF largest # {} THEN table.tiers[Min(largest)][axis]
                  ELSE 0
    IN  IF raised = 0 THEN table[axis] ELSE raised

(* The usage kept is what a reader of the complete lines finds, less the
   lines that were over the cap and the ones right after them. *)
KeepsWhatIsReported ==
    LET complete == 1..(position.line - 1)
        long(i) == i > 0 /\ metered.lines[i].size > MaxLineBytes
    IN  \E lost \in SUBSET {i \in complete : long(i) \/ long(i - 1)} :
            scanner.usage = Reported(Registry[metered.wire].shape, metered.lines, complete \ lost)

(* And the bill is the published rates times what was kept. *)
BillsAsPublished ==
    LET n == Normalize(Registry[metered.wire].shape, scanner.usage)
        rate(axis) == Published(metered.table, axis, n.input + n.cached + n.created, metered.minute)
    IN  Bill = IF Registry[metered.wire].zeroCost THEN 0
               ELSE n.input * rate("input") + n.output * rate("output")
                    + n.cached * (IF rate("read") <= 0 THEN rate("input") ELSE rate("read"))
                    + n.created * (IF rate("write") <= 0 THEN rate("input") ELSE rate("write"))

(* However the relay cuts the stream and wherever it breaks off, the usage is
   what the complete lines report; a line over the cap costs the meter that
   line and at most the one after it (scanner.go has only the line itself
   dropped).  And all of it is billed at the rates published for the size of
   the whole prompt, or for the minute the call began, tokens written to a
   cache and read from it at theirs where there are any, and not at all on a
   wire that is free. *)
BilledAsReported == metered # NoCall => KeepsWhatIsReported /\ BillsAsPublished
=============================================================================
