---------------------------- MODULE MCOperations ----------------------------
(***************************************************************************)
(* Everything the gateway runs around its requests, in one run: the parts  *)
(* below share no variable, so each behaviour picks one of them and the    *)
(* others stay as they begin.                                              *)
(***************************************************************************)
EXTENDS Integers, Sequences, FiniteSets, Config, Users, Pressure, Housekeeping, ParsePipeline,
        Sessions, SocketMeter, Metering, Statistics, MessagesPanel, Migration,
        MCConfig, MCMigration, MCTraffic, MCViews, MCContext

VARIABLES
    part,                                               \* the one that runs
    wire, conversation, posts                           \* Composition

contextVars == <<wire, conversation, posts>>
vars == <<part, configVars, migrationVars, pressureVars, housekeepingVars, panelVars, parseVars,
          sessionVars, log, usersVars, meteringVars, socketVars, contextVars>>

-----------------------------------------------------------------------------
(* The parts, with their bounds; the .cfg has those of the modules this one
   extends. *)

Calm == [mem |-> 50, disk |-> 20, io |-> 0, lag |-> 0, backlog |-> 0]
NoReading == -1
Samples ==
    {Calm, [Calm EXCEPT !.mem = 20], [Calm EXCEPT !.mem = 5, !.io = 10],
     [Calm EXCEPT !.mem = NoReading, !.disk = NoReading, !.io = 6],
     [Calm EXCEPT !.backlog = 4, !.lag = 1]}
Thresholds ==
    [memCapture |-> 30, memAnalysis |-> 10, diskFree |-> 10, io |-> 10, writeLag |-> 1, budget |-> 8]

NoTable == -1
Kept == {"raw", "calls", "sessions"}
LeftRows == [t \in Kept |-> IF t = "sessions" THEN "s" :> -1 ELSE "a" :> -1]
LeftParsed == {1, NoTable}
Retention == [raw |-> 1, calls |-> 2, sessions |-> 0]
OneRow == [t \in Kept |-> 1]

SmallKinds == {[utility |-> FALSE, sub |-> TRUE], [utility |-> TRUE, sub |-> FALSE]}

(* Only the subagent sends its words again around another image. *)
SubagentSwaps == [main |-> 0, sub |-> 1]

StartMinutes == {0, 3, 4, 7, 9, 11}

Shown == INSTANCE Composition
          WITH Agents <- {Main}, MaxPieces <- 9, MaxPosts <- 2

-----------------------------------------------------------------------------
Parts == {"config", "upgrades", "load", "house", "panel", "parse", "folds", "stats", "accounts",
          "meter", "sockets", "window"}

(* Only the house may begin in two ways, with and without the old table, and
   the window once per wire; the log is empty where it is not asked about. *)
Init ==
    /\ part \in Parts
    /\ ConfigInit /\ MigrationInit /\ PressureInit /\ HousekeepingInit
    /\ PanelInit /\ ParseInit /\ SessionsInit /\ StatisticsInit
    /\ UsersInit /\ MeteringInit /\ SocketInit
    /\ Shown!CompositionInit
    /\ part # "house" => parsed = NoTable
    /\ part = "stats" <=> log # <<>>
    /\ part # "window" => wire = "chat"

(* The part that runs is p. *)
Only(p) ==
    /\ part = p /\ UNCHANGED part
    /\ p # "config" => UNCHANGED configVars
    /\ p # "upgrades" => UNCHANGED migrationVars
    /\ p # "load" => UNCHANGED pressureVars
    /\ p # "house" => UNCHANGED housekeepingVars
    /\ p # "panel" => UNCHANGED panelVars
    /\ p # "parse" => UNCHANGED parseVars
    /\ p # "folds" => UNCHANGED sessionVars
    /\ p # "stats" => UNCHANGED log
    /\ p # "accounts" => UNCHANGED usersVars
    /\ p # "meter" => UNCHANGED meteringVars
    /\ p # "sockets" => UNCHANGED socketVars
    /\ p # "window" => UNCHANGED contextVars

Next ==
    \/ Only("config") /\ ConfigNext
    \/ Only("upgrades") /\ MigrationNext
    \/ Only("load") /\ PressureNext
    \/ Only("house") /\ HousekeepingNext
    \/ Only("panel") /\ PanelNext
    \/ Only("parse") /\ ParseNext
    \/ Only("folds") /\ SessionsNext
    \/ Only("stats") /\ StatisticsNext
    \/ Only("accounts") /\ UsersNext
    \/ Only("meter") /\ MeteringNext
    \/ Only("sockets") /\ SocketNext
    \/ Only("window") /\ Shown!CompositionNext

(* Only the background goroutines promise to get anywhere. *)
FairSpec == Init /\ [][Next]_vars /\ HousekeepingFairness

-----------------------------------------------------------------------------
(* The properties of the parts, each asked while its part runs: otherwise
   it stands as it began.  Those of the modules this one extends hold in the
   initial state and are asked as they are. *)

(* What the dashboard says of a session's context window adds up (compose.go,
   composition.go, handlers.go). *)
ContextAddsUp == part = "window" => Shown!ContextAddsUp
=============================================================================
