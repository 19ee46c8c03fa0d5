---------------------------- MODULE Composition ----------------------------
(***************************************************************************)
(* What fills the context window (internal/compose), how it is stored and  *)
(* summed (store/composition.go), and the session's context page           *)
(* (api/handlers.go).  A client's agents grow a conversation each and post *)
(* it whole with every call, again after a failure or for a utility call;  *)
(* each analysed post is decomposed into blocks and its tail read for the  *)
(* tool round-trip it carries.  A body is a sequence of pieces: message    *)
(* number, role, kind, id and name of a tool call, and a weight, which is  *)
(* what the tokenizer or the image estimates would count.                  *)
(***************************************************************************)
EXTENDS Integers, Sequences, SequencesExt, FiniteSets, FiniteSetsExt, Functions, TLC

CONSTANTS
    Agents, Main,       \* agents of the session; Main is the main loop
    Header,             \* per wire: the pieces of the tools and system fields
    Said(_, _),         \* the messages that may follow a body of a wire
    Ends,               \* [analysed, billed, utility, cached]: how a call may end
    Legacy,             \* per wire: what an older release stored of the session
    MaxPieces, MaxPosts     \* bounds: pieces of the conversations, posts

VARIABLES
    wire,
    conversation,       \* per agent: its body
    posts               \* the calls of the session, in time order

compositionVars == <<wire, conversation, posts>>

KnownWires == {"anthropic", "chat", "responses"}
SumOver(S, F(_)) == MapThenSumSet(F, S)

-----------------------------------------------------------------------------
(* From pieces to units *)

CallKinds ==
    [anthropic |-> {"tool_use", "server_tool_use", "mcp_tool_use"},
     chat |-> {"tool_call", "function_call"},
     responses |-> {"function_call", "computer_call", "image_generation_call"}]
ResultKinds ==
    [anthropic |-> {"tool_result", "web_search_tool_result", "code_execution_tool_result",
                    "mcp_tool_result"},
     chat |-> {"tool", "function"},
     responses |-> {"function_call_output", "computer_call_output"}]
Instructing == {"system", "developer"}

(* In the chat shape it is the role that tells a result. *)
IsCall(w, p) == p.kind \in CallKinds[w] /\ (w # "responses" => p.role = "assistant")
IsResult(w, p) == (IF w = "chat" THEN p.role ELSE p.kind) \in ResultKinds[w]

ToolName(w, p) == IF w = "responses" /\ p.name = "" THEN p.kind ELSE p.name
ProducerKey(name) == IF name = "" THEN "unknown" ELSE name

(* idToName: the last call with the id names what its results are of. *)
NameOf(w, body, id) ==
    LET named == {i \in DOMAIN body : IsCall(w, body[i]) /\ body[i].id = id}
    IN IF id = 0 \/ named = {} THEN "" ELSE ToolName(w, body[Max(named)])

From(source, producer) == [source |-> source, producer |-> producer]
Other == From("other", "")

(* A text that is wholly a harness's envelope is the harness's. *)
UserText(kind) == IF kind = "reminder" THEN From("system", "reminder") ELSE From("user", "text")
SystemText(kind) == IF kind = "skills" THEN From("system", "skills") ELSE From("system", "base")
RoleText(role, kind) ==
    CASE role = "user" -> UserText(kind)
      [] role \in Instructing -> SystemText(kind)
      [] role = "assistant" -> From("assistant", "text")

ResultOf(w, body, p) ==
    LET name == NameOf(w, body, p.id)
    IN From("tool_results", ProducerKey(IF w = "chat" /\ name = "" THEN p.name ELSE name))

AnthropicBlock(body, p) ==
    CASE p.role \in Instructing -> SystemText(p.kind)
      [] p.role \notin Instructing \cup {"user", "assistant"} -> Other
      [] p.role \in {"user", "assistant"} ->
         (CASE p.kind \in {"text", "reminder"} -> RoleText(p.role, p.kind)
            [] p.kind = "thinking" -> From("assistant", "reasoning")
            [] p.kind \in CallKinds["anthropic"] -> From("tool_calls", ProducerKey(p.name))
            [] IsResult("anthropic", p) -> ResultOf("anthropic", body, p)
            [] p.kind \in {"image", "document"} -> From(p.role, "attachments")
            [] OTHER -> Other)

(* Content blocks of the OpenAI shapes: nothing in them is "other". *)
OpenAIContent(p) ==
    IF p.kind \in {"image", "file"}
    THEN From(IF p.role \in Instructing THEN "system" ELSE p.role, "attachments")
    ELSE RoleText(p.role, p.kind)

ChatPiece(body, p) ==
    CASE IsCall("chat", p) -> From("tool_calls", ProducerKey(p.name))
      [] IsResult("chat", p) -> ResultOf("chat", body, p)
      [] p.role \in Instructing \cup {"user", "assistant"} /\ ~IsCall("chat", p) -> OpenAIContent(p)
      [] OTHER -> Other

ResponsesItem(body, p) ==
    CASE p.role \in Instructing \cup {"user", "assistant"} -> OpenAIContent(p)
      [] p.role = "" /\ p.kind = "reasoning" -> From("assistant", "reasoning")
      [] p.role = "" /\ p.kind = "image_generation_call" ->
            From("tool_results", ToolName("responses", p))
      [] p.role = "" /\ p.kind = "mcp_list_tools" -> From("tool_schemas", ProducerKey(p.name))
      [] p.role = "" /\ IsResult("responses", p) -> ResultOf("responses", body, p)
      [] p.role = "" /\ IsCall("responses", p) /\ p.kind # "image_generation_call" ->
            From("tool_calls", ToolName("responses", p))
      [] OTHER -> Other

UnitOf(w, body, p) ==
    IF p.kind = "tool" THEN From("tool_schemas", ProducerKey(p.name))
    ELSE CASE w = "anthropic" -> AnthropicBlock(body, p)
           [] w = "chat" -> ChatPiece(body, p)
           [] w = "responses" -> ResponsesItem(body, p)

(* Opaque continuity state, audio and what cannot be decoded weigh nothing
   and make no block. *)
Weighed(p) == p.weight > 0 /\ p.kind \notin {"redacted_thinking", "input_audio"}

-----------------------------------------------------------------------------
(* From units to a composition *)

(* frontFill: the vendor's cache reads, from the front. *)
FrontFill(tokens, cached) ==
    [i \in DOMAIN tokens |->
        LET before == SumOver(1..(i - 1), LAMBDA j : tokens[j])
        IN Max({0, Min({tokens[i], cached - before})})]

Aggregate(blocks) ==
    [s \in {blocks[i].source : i \in DOMAIN blocks} |->
        LET own == {i \in DOMAIN blocks : blocks[i].source = s}
        IN [tokens |-> SumOver(own, LAMBDA i : blocks[i].tokens),
            cached |-> SumOver(own, LAMBDA i : blocks[i].cached),
            children |-> [p \in {blocks[i].producer : i \in own} \ {""} |->
                SumOver({i \in own : blocks[i].producer = p}, LAMBDA i : blocks[i].tokens)]]]

Compose(w, body, cached) ==
    LET units == SelectSeq(body, Weighed)
        filled == FrontFill([i \in DOMAIN units |-> units[i].weight], cached)
        blocks == [i \in DOMAIN units |->
                      UnitOf(w, body, units[i])
                      @@ [hash |-> <<units[i].kind, units[i].id, units[i].weight>>,
                          tokens |-> units[i].weight, cached |-> filled[i]]]
    IN [total |-> SumOver(DOMAIN units, LAMBDA i : units[i].weight),
        cached |-> SumOver(DOMAIN filled, LAMBDA i : filled[i]),
        sources |-> Aggregate(blocks), blocks |-> blocks]

(* ToolTurn reads the tail only. *)
RunUpTo(body, end, P(_)) == {i \in 1..end : \A j \in i..end : P(body[j])}

NewResults_OfTheWholeHistory(w, body) == {i \in DOMAIN body : IsResult(w, body[i])}
NewResults(w, body) ==
    CASE body = <<>> -> {}
      [] body # <<>> /\ w = "anthropic" ->
            {i \in DOMAIN body : /\ body[i].msg = body[Len(body)].msg
                                 /\ body[i].role = "user" /\ body[i].kind = "tool_result"}
      [] body # <<>> /\ w = "chat" -> RunUpTo(body, Len(body), LAMBDA p : p.role = "tool")
      [] body # <<>> /\ w = "responses" ->
            RunUpTo(body, Len(body), LAMBDA p : p.kind \in ResultKinds["responses"])

CallsBefore(w, body, results) ==
    LET first == Min(results)
        spoken == {i \in 1..(first - 1) : body[i].role = "assistant"}
        message(i) == {j \in DOMAIN body : body[j].msg = body[i].msg}
    IN CASE w = "anthropic" ->
              IF spoken = {} THEN {}
              ELSE {i \in message(Max(spoken)) :
                       body[i].kind \in {"tool_use", "server_tool_use"}}
         [] w = "chat" ->
              IF first - 1 \in spoken
              THEN {i \in message(first - 1) : body[i].kind = "tool_call"} ELSE {}
         [] w = "responses" ->
              RunUpTo(body, first - 1, LAMBDA p : p.kind \in CallKinds["responses"])

ToolTurn(w, body) ==
    LET results == NewResults(w, body)
    IN IF results = {} THEN [calls |-> 0, tokens |-> 0]
       ELSE [calls |-> Cardinality(CallsBefore(w, body, results)),
             tokens |-> SumOver(results, LAMBDA i : body[i].weight)]

-----------------------------------------------------------------------------
(* The calls of the session *)

(* SaveComposition: a row beside the call's. *)
Row(agent, utility, composition) == composition @@ [agent |-> agent, utility |-> utility]

CompositionInit ==
    /\ wire \in KnownWires
    /\ conversation = [a \in Agents |-> Header[wire]]
    /\ posts = <<>>

(* The client adds a message of the agent, or the results of its calls. *)
Grow(a) ==
    LET body == conversation[a]
        next == IF body = <<>> THEN 1 ELSE body[Len(body)].msg + 1
    IN \E said \in Said(wire, body) :
          /\ SumOver(Agents, LAMBDA x : Len(conversation[x])) + Len(said) <= MaxPieces
          /\ conversation' = [conversation EXCEPT ![a] =
                body \o [i \in DOMAIN said |-> [said[i] EXCEPT !.msg = next + @]]]
          /\ UNCHANGED <<wire, posts>>

(* A call ends: analysed unless the host is under pressure, and composed when
   the vendor billed any input. *)
Post(a) ==
    /\ Len(posts) < MaxPosts
    /\ \E end \in Ends :
         LET body == conversation[a]
             composition == Compose(wire, body, end.cached)
         IN posts' = Append(posts,
              [agent |-> a, utility |-> end.utility, body |-> body, cached |-> end.cached,
               tool |-> IF end.analysed THEN ToolTurn(wire, body) ELSE ToolTurn(wire, <<>>),
               rows |-> IF end.analysed /\ end.billed /\ composition.total > 0
                        THEN <<Row(a, end.utility, composition)>> ELSE <<>>])
    /\ UNCHANGED <<wire, conversation>>

CompositionNext == \E a \in Agents : Grow(a) \/ Post(a)

-----------------------------------------------------------------------------
(* What is stored and shown.  A row of an older release may have no blocks,
   or blocks that do not add up to its sources. *)

Stored == Legacy[wire] \o FoldLeft(LAMBDA rows, p : rows \o p.rows, <<>>, posts)

(* AggregateRows; AggregateComposition is the same over every call. *)
AggregateRows(rows) ==
    LET keys == UNION {DOMAIN rows[i].sources : i \in DOMAIN rows}
        holding(s) == {i \in DOMAIN rows : s \in DOMAIN rows[i].sources}
        under(s, p) == {i \in holding(s) : p \in DOMAIN rows[i].sources[s].children}
    IN [requests |-> Len(rows), total |-> SumOver(DOMAIN rows, LAMBDA i : rows[i].total),
        sources |-> [s \in keys |->
            [tokens |-> SumOver(holding(s), LAMBDA i : rows[i].sources[s].tokens),
             cached |-> SumOver(holding(s), LAMBDA i : rows[i].sources[s].cached),
             children |-> [p \in UNION {DOMAIN rows[i].sources[s].children : i \in holding(s)} |->
                 SumOver(under(s, p), LAMBDA i : rows[i].sources[s].children[p])]]]]
AggregateComposition == AggregateRows(Stored)

(* Utility calls are no turns of the conversation. *)
SessionComposition == SelectSeq(Stored, LAMBDA row : ~row.utility)

(* The page shows one agent: the one asked for, or else the first listed. *)
ContextAgents == {SessionComposition[i].agent : i \in DOMAIN SessionComposition}
Selected(asked) ==
    IF asked \in ContextAgents \/ ContextAgents = {} THEN asked
    ELSE IF Main \in ContextAgents THEN Main ELSE SessionComposition[1].agent
Turns(agent) == SelectSeq(SessionComposition, LAMBDA row : row.agent = agent)

(* The targets blocks are reconciled with: every producer of a source, and
   under "" what its producers leave. *)
Targets(source) ==
    LET children == source.children
        left == source.tokens - SumOver(DOMAIN children, LAMBDA p : children[p])
    IN children @@ ("" :> Max({0, left}))

(* scaleBlocksToTarget, when there are more tokens than the target: floors,
   and the largest remainders get what is left.  A block scaled to nothing
   is left out. *)
Scaled(tokens, target) ==
    LET total == SumFunction(tokens)
        share == [i \in DOMAIN tokens |-> (tokens[i] * target) \div total]
        kept == {i \in DOMAIN tokens : share[i] > 0}
        left == target - SumOver(kept, LAMBDA i : share[i])
        rest(i) == (tokens[i] * target) % total
        ahead(i) == {j \in kept : rest(j) > rest(i) \/ (rest(j) = rest(i) /\ j < i)}
    IN [i \in kept |-> share[i] + (IF Cardinality(ahead(i)) < left THEN 1 ELSE 0)]
FitTo(tokens, target) == IF SumFunction(tokens) <= target THEN tokens ELSE Scaled(tokens, target)

(* The blocks of a row as the page counts them: <<source, producer, hash>>,
   an empty hash for the block that stands for what no block covers. *)
Shown(row) ==
    LET group(s, p) ==
            {i \in DOMAIN row.blocks :
                /\ row.blocks[i].source = s
                /\ p = IF row.blocks[i].producer \in DOMAIN row.sources[s].children
                       THEN row.blocks[i].producer ELSE ""}
        ofTarget(s, p) ==
            LET target == Targets(row.sources[s])[p]
                tokens == [i \in group(s, p) |-> row.blocks[i].tokens]
                fit == FitTo(tokens, target)
                key(i) == <<s, row.blocks[i].producer, row.blocks[i].hash>>
                keys == {key(i) : i \in DOMAIN fit}
                rest == target - SumFunction(tokens)
            IN [k \in keys |-> SumOver({i \in DOMAIN fit : key(i) = k}, LAMBDA i : fit[i])]
               @@ (IF rest > 0 THEN <<s, p, <<>>>> :> rest ELSE <<>>)
        ofSource(s) ==
            LET targets == Targets(row.sources[s])
            IN {ofTarget(s, p) : p \in {x \in DOMAIN targets : targets[x] > 0}}
    IN FoldSet(LAMBDA f, g : f @@ g, <<>>, UNION {ofSource(s) : s \in DOMAIN row.sources})

(* aggregateSessionBlocks, from what is shown of each row *)
SessionBlocks(shown) ==
    LET having(k) == {i \in DOMAIN shown : k \in DOMAIN shown[i]}
    IN [k \in UNION {DOMAIN shown[i] : i \in DOMAIN shown} |->
           [total |-> SumOver(having(k), LAMBDA i : shown[i][k]),
            occurrences |-> Cardinality(having(k))]]

-----------------------------------------------------------------------------
(***************************************************************************)
(* What the dashboard says of a session's context adds up: a composition   *)
(* is a partition of its total, cached from the front; the same prefix of  *)
(* a conversation weighs the same in every post ("a fixed number for an    *)
(* unchanged prefix", compose.go) and names the same producers unless a    *)
(* tool id is used again; the calls' tool columns sum to the round-trips   *)
(* of the run ("summing per-call values over a session double-counts       *)
(* nothing", toolturn.go); and the pages of the agents split the session,  *)
(* their blocks adding up to their sources where none is scaled away.      *)
(***************************************************************************)
Partitioned(row, official) ==
    LET sources == row.sources
        blocks == row.blocks
    IN /\ row.total = SumOver(DOMAIN sources, LAMBDA s : sources[s].tokens)
       /\ row.cached = SumOver(DOMAIN sources, LAMBDA s : sources[s].cached)
       /\ row.cached = Min({official, row.total})
       /\ \A s \in DOMAIN sources :
             LET named == SumFunction(sources[s].children)
             IN named = IF s = "other" THEN 0 ELSE sources[s].tokens
       /\ \A i, j \in DOMAIN blocks :
             i < j /\ blocks[j].cached > 0 => blocks[i].cached = blocks[i].tokens

IdsUnique(body) ==
    \A i, j \in DOMAIN body :
        IsCall(wire, body[i]) /\ IsCall(wire, body[j]) /\ body[i].id = body[j].id /\ body[i].id # 0
            => i = j
Stable(earlier, later) ==
    LET old == earlier.rows[1].blocks
        new == later.rows[1].blocks
    IN \A i \in DOMAIN old :
          /\ i \in DOMAIN new /\ new[i].tokens = old[i].tokens /\ new[i].source = old[i].source
          /\ IdsUnique(later.body) => new[i].producer = old[i].producer

(* A run in which no tail was posted twice, or shed, or never posted.  In the
   responses shape only the calls right before the results are seen. *)
Conversed(a) == {i \in DOMAIN posts : posts[i].agent = a /\ ~posts[i].utility}
ClientResult(body, i) ==
    /\ IsResult(wire, body[i])
    /\ wire = "anthropic" => body[i].kind = "tool_result" /\ body[i].role = "user"
    /\ wire = "chat" => body[i].role = "tool"
Invoked(body, results) ==
    {i \in DOMAIN body :
        /\ body[i].kind \in CallKinds[wire] \ {"mcp_tool_use"} /\ body[i].role # "user"
        /\ wire = "chat" => body[i].kind = "tool_call"
        /\ \E j \in results : body[j].msg = body[i].msg + 1}
Unbroken(body, calls) ==
    wire = "responses" =>
        \A i \in calls : \A j \in i..Len(body) : body[j].msg = body[i].msg => j \in calls
ToolColumnsAddUp(a) ==
    LET run == Conversed(a)
        last == posts[Max(run)].body
        results == {i \in DOMAIN last : ClientResult(last, i)}
        invoked == Invoked(last, results)
        carried(i) == {j \in run : i \in NewResults(wire, posts[j].body)}
    IN (run # {} /\ \A i \in results : \E j \in run : carried(i) = {j} /\ posts[j].tool.tokens > 0)
       => /\ SumOver(run, LAMBDA j : posts[j].tool.tokens)
                = SumOver(results, LAMBDA i : last[i].weight)
          /\ Unbroken(last, invoked)
                => SumOver(run, LAMBDA j : posts[j].tool.calls) = Cardinality(invoked)

(* The rows, the sums and the blocks of a page, bound so that each is made
   once. *)
PageAddsUp(agent) ==
    \A rows \in {Turns(agent)} :
    \A page \in {AggregateRows(rows)}, shown \in {[i \in DOMAIN rows |-> Shown(rows[i])]} :
    \A blocks \in {SessionBlocks(shown)} :
        LET whole == \A i \in DOMAIN rows : \A j \in DOMAIN rows[i].blocks :
                        LET b == rows[i].blocks[j]
                        IN <<b.source, b.producer, b.hash>> \in DOMAIN blocks
        IN /\ \A k \in DOMAIN blocks : blocks[k].occurrences <= page.requests
           /\ \A s \in DOMAIN page.sources :
                 LET sum == SumOver({k \in DOMAIN blocks : k[1] = s}, LAMBDA k : blocks[k].total)
                 IN sum <= page.sources[s].tokens /\ (whole => sum = page.sources[s].tokens)

ContextAddsUp ==
    /\ \A i \in DOMAIN posts : posts[i].rows # <<>> =>
          Partitioned(posts[i].rows[1], posts[i].cached)
    /\ \A i, j \in DOMAIN posts :
          (i < j /\ posts[i].agent = posts[j].agent /\ posts[i].rows # <<>> /\ posts[j].rows # <<>>)
             => Stable(posts[i], posts[j])
    /\ \A a \in Agents : ToolColumnsAddUp(a)
    /\ \A a \in ContextAgents : PageAddsUp(a)
    /\ SumOver(ContextAgents, LAMBDA a : AggregateRows(Turns(a)).total)
          = AggregateComposition.total
            - AggregateRows(SelectSeq(Stored, LAMBDA row : row.utility)).total
    /\ \A a \in Agents : ContextAgents # {} => Selected(a) \in ContextAgents
=============================================================================
