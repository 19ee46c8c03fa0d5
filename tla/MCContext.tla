------------------------------ MODULE MCContext ------------------------------
(* Conversations of every shape: harness text, parallel calls, an id used    *)
(* again, an image that cannot be read, tools a server runs, a client that   *)
(* answers in part or not at all, and rows of an older release with no       *)
(* blocks or with more than their sources hold.                              *)
EXTENDS Integers, Sequences, TLC

Piece(role, kind, weight) ==
    [msg |-> 0, role |-> role, kind |-> kind, id |-> 0, name |-> "", weight |-> weight]
Tool(role, kind, id, name) == [Piece(role, kind, 1) EXCEPT !.id = id, !.name = name]

Asked ==
  [anthropic |-> <<Piece("user", "reminder", 1)>>,
   chat |-> <<Piece("user", "text", 2), Piece("user", "image", 0)>>,
   responses |-> <<Piece("user", "text", 2)>>]
Header ==
    [w \in DOMAIN Asked |->
        <<IF w = "responses" THEN Piece("developer", "skills", 2) ELSE Tool("", "tool", 0, "read")>>
        \o Asked[w]]
Replied ==
  [anthropic |->
     {<<Piece("assistant", "thinking", 1), Tool("assistant", "tool_use", 1, "read"),
        Tool("assistant", "tool_use", 2, "")>>,
      <<Tool("assistant", "tool_use", 1, "bash")>>,
      <<Tool("assistant", "mcp_tool_use", 3, "search"), Tool("assistant", "mcp_tool_result", 3, ""),
        Piece("assistant", "redacted_thinking", 4)>>},
   chat |->
     {<<Piece("assistant", "text", 1), Tool("assistant", "tool_call", 1, "read"),
        Tool("assistant", "tool_call", 2, "bash")>>,
      <<Tool("assistant", "function_call", 0, "old")>>},
   responses |->
     {<<Piece("", "reasoning", 1), Tool("", "function_call", 1, "read"),
        Tool("", "computer_call", 2, "")>>,
      <<Tool("", "function_call", 1, "bash"), Piece("", "reasoning", 1),
        Tool("", "image_generation_call", 3, "")>>}]

(* The client answers the calls of the last message, all or the first, or
   says something else. *)
Reply(w, p) ==
    CASE w = "anthropic" -> <<[Tool("user", "tool_result", p.id, "") EXCEPT !.weight = 3]>>
      [] w = "chat" /\ p.kind = "tool_call" ->
            <<[Tool("tool", "text", p.id, "") EXCEPT !.weight = 3]>>
      [] w = "chat" /\ p.kind = "function_call" -> <<Tool("function", "text", 0, p.name)>>
      [] w = "responses" -> <<[Tool("", "function_call_output", p.id, "") EXCEPT !.weight = 3]>>
Responses(w, body) ==
    LET last == SelectSeq(body, LAMBDA p : p.msg = body[Len(body)].msg)
        calls == SelectSeq(last, LAMBDA p :
                     p.kind \in {"tool_use", "tool_call", "function_call", "computer_call"})
        numbered(s) == [i \in DOMAIN s |-> IF w = "chat" THEN [s[i] EXCEPT !.msg = i - 1] ELSE s[i]]
    IN CASE calls = <<>> -> {}
         [] Len(calls) = 1 ->
               {Reply(w, calls[1])}
         [] Len(calls) = 2 ->
               {numbered(Reply(w, calls[1]) \o Reply(w, calls[2])),
                IF w = "anthropic"
                THEN Append(Reply(w, calls[1]), Piece("user", "text", 1))
                ELSE Reply(w, calls[1])}

Source(tokens, children) == [tokens |-> tokens, cached |-> 0, children |-> children]
Block(producer, hash, tokens) ==
    [source |-> "user", producer |-> producer, hash |-> <<hash>>, tokens |-> tokens, cached |-> 0]
OldRow(agent, tokens, children, blocks) ==
    [agent |-> agent, utility |-> FALSE, total |-> tokens, cached |-> 0,
     sources |-> "user" :> Source(tokens, children), blocks |-> blocks]
Legacy ==
  [anthropic |-> <<>>,
   chat |->
     <<OldRow("main", 4, "text" :> 3, <<>>),
       OldRow("sub", 5, "text" :> 3,
           <<Block("text", "a", 3), Block("text", "b", 2), Block("gone", "c", 1)>>)>>,
   responses |-> <<OldRow("sub", 3, <<>>, <<Block("text", "a", 1), Block("text", "b", 7)>>)>>]

CallEnd(analysed, billed, utility, cached) ==
    [analysed |-> analysed, billed |-> billed, utility |-> utility, cached |-> cached]
Ends ==
    {CallEnd(TRUE, TRUE, FALSE, 4), CallEnd(FALSE, TRUE, FALSE, 4),
     CallEnd(TRUE, FALSE, FALSE, 0), CallEnd(TRUE, TRUE, TRUE, 50)}

(* The client asks, the model replies, the client answers or asks again. *)
Said(w, body) ==
    LET last == body[Len(body)]
    IN IF last.msg > 0 /\ last.role \in {"assistant", ""} /\ last.kind # "function_call_output"
       THEN {Asked[w]} \cup Responses(w, body)
       ELSE Replied[w]
==============================================================================
