----------------------------- MODULE MCTraffic ------------------------------
(* Answers as upstreams stream them: usage stated at the start, at the end,  *)
(* as null, twice or in a frame of the wrong kind; lines at and beyond the   *)
(* cap; prices with tiers and with windows that cross the end of the week,   *)
(* cache rates published and left out; and downstream WebSocket sessions     *)
(* with fragments, text and masked frames.                                   *)
EXTENDS Integers, TLC

SmallNull == -1
Served(suffix, shape, zero) == [suffixes |-> {suffix}, shape |-> shape, zeroCost |-> zero]
SmallRegistry ==
    "messages" :> Served(<<"messages">>, "anthropic", FALSE)
    @@ "count" :> Served(<<"messages", "count_tokens">>, "anthropic", TRUE)
    @@ "chat" :> Served(<<"chat", "completions">>, "openai", FALSE)
    @@ "complete" :> Served(<<"completions">>, "openai", FALSE)
    @@ "responses" :> Served(<<"responses">>, "responses", FALSE)
SmallNameRank ==
    "count" :> 1 @@ "messages" :> 2 @@ "chat" :> 3 @@ "complete" :> 4 @@ "responses" :> 5

Line(size, kind, inner, outer) ==
    [size |-> size, event |-> [kind |-> kind, inner |-> inner, outer |-> outer]]
SmallAnswers ==
  {[path |-> <<"v1", "messages">>, enabled |-> {"messages", "count"}, lines |->
     <<Line(3, "start", "input" :> 2 @@ "cached" :> 1 @@ "created" :> 1 @@ "output" :> 1, <<>>),
       Line(5, "delta", <<>>, <<>>),
       Line(3, "usage", <<>>, "output" :> 3 @@ "input" :> SmallNull),
       Line(2, "stop", <<>>, "output" :> 4)>>],
   [path |-> <<"v1", "messages", "count_tokens">>, enabled |-> {"messages", "count"}, lines |->
     <<Line(2, "usage", <<>>, "input" :> 5)>>],
   [path |-> <<"v1", "chat", "completions">>, enabled |-> {"chat", "complete", "unknown"}, lines |->
     <<Line(1, "comment", <<>>, <<>>),
       Line(4, "delta", <<>>, <<>>),
       Line(3, "usage", <<>>, "input" :> 4 @@ "cached" :> 1 @@ "output" :> 2),
       Line(6, "usage", <<>>, "input" :> 1 @@ "cached" :> 2)>>],
   [path |-> <<"v1", "responses">>, enabled |-> {"responses"}, lines |->
     <<Line(2, "delta", <<>>, "input" :> 1),
       Line(5, "delta", <<>>, <<>>),
       Line(5, "delta", <<>>, <<>>),
       Line(3, "stop", "input" :> 3 @@ "cached" :> 1 @@ "output" :> 2, "input" :> 9)>>]}

Flat == [input |-> 2, output |-> 5, read |-> 1, write |-> 3, tiers |-> <<>>, schedules |-> <<>>]
Rates(input, output, read, write) ==
    [input |-> input, output |-> output, read |-> read, write |-> write]
Hours(offset, days, start, end) == [offset |-> offset, days |-> days, start |-> start, end |-> end]
SmallTables ==
  {[Flat EXCEPT !.tiers = <<Rates(6, 7, 0, 8) @@ [size |-> 3], Rates(4, 0, 2, 0) @@ [size |-> 1]>>],
   [Flat EXCEPT !.read = 0, !.write = 0,
                !.schedules = <<Rates(3, 8, 0, 0) @@ [when |-> {Hours(3, {0}, 1, 3), Hours(3, {0}, 4, 6)}],
                                Rates(9, 0, 1, 4) @@ [when |-> {Hours(-2, {0, 1}, 2, 4)}]>>]}

Frame(op, fin, len, json, usage) ==
    [op |-> op, fin |-> fin, len |-> len, json |-> json, usage |-> usage, masked |-> FALSE]
Masked(frame) == [frame EXCEPT !.masked = TRUE]
SmallDownstreams ==
  {<<Frame("binary", TRUE, 2, TRUE, 5), Frame("binary", FALSE, 1, TRUE, 7),
     Frame("other", TRUE, 0, FALSE, 0), Frame("binary", TRUE, 2, FALSE, 9),
     Frame("continuation", TRUE, 1, FALSE, 0)>>,
   <<Frame("binary", FALSE, 1, TRUE, 4), Frame("continuation", FALSE, 1, FALSE, 0),
     Frame("continuation", TRUE, 2, FALSE, 0), Frame("continuation", TRUE, 1, FALSE, 0),
     Frame("binary", TRUE, 3, TRUE, 6)>>,
   <<Frame("binary", TRUE, 2, TRUE, 5), Frame("binary", TRUE, 5, FALSE, 8)>>,
   <<Frame("binary", TRUE, 2, TRUE, 5), Masked(Frame("binary", TRUE, 2, TRUE, 8))>>}
=============================================================================
