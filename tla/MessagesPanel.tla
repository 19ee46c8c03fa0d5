--------------------------- MODULE MessagesPanel ---------------------------
(***************************************************************************)
(* The Messages panel of one coding-agent session: harnesses send their    *)
(* growing or rewritten contexts, the parse pipeline or the offline        *)
(* backfill stamps the captured calls, retention takes the oldest, and a   *)
(* viewer reads the conversation back from a few bodies.  A request whose  *)
(* body is not captured leaves nothing the panel reads.                    *)
(***************************************************************************)
EXTENDS Conversations

CONSTANTS
    Agents, Main,
    ViewBudget,         \* sessionMessagesBudget, in messages
    MaxCalls, MaxMessages, MaxPrunes,       \* bounds
    MaxSwaps            \* bound per agent: messages of a context with another remainder

ASSUME PanelAssumption == Main \in Agents

VARIABLES
    context,            \* per agent: the conversation as it last sent it
    said,               \* messages there are, numbered from 1
    calls,              \* the captured calls, in the order they started
    goneCalls, goneBodies,  \* how many of the oldest retention has taken
    viewer              \* an open panel

panelVars == <<context, said, calls, goneCalls, goneBodies, viewer>>

Shut == [at |-> "shut", upTo |-> 0, ids |-> {}, shown |-> <<>>, omitted |-> 0]

PanelInit ==
    /\ context = [a \in Agents |-> <<>>] /\ said = 0
    /\ calls = <<>> /\ goneCalls = 0 /\ goneBodies = 0
    /\ viewer = Shut

(* What an agent may send next: more, the same again, a compaction, a rewind,
   its context without one of the older messages, or the same words around
   another image, document or thinking block. *)
News(n) == [k \in 1..n |-> [words |-> said + k, rest |-> 0]]

NextContexts(ctx) ==
    {ctx \o News(n) : n \in 0..2}
    \cup {News(1)}
    \cup {Front(ctx) \o News(n) : n \in {x \in 1..2 : Len(ctx) > 1}}
    \cup {RemoveAt(ctx, 2) \o News(n) : n \in {x \in 0..2 : Len(ctx) > 2}}
    \cup {[ctx EXCEPT ![k].rest = 1] : k \in DOMAIN ctx}

(* A request; a subagent speaks once the main loop has. *)
Ask ==
    \E a \in Agents : \E ctx \in NextContexts(context[a]) \ {<<>>} :
        /\ a # Main => context[Main] # <<>>
        /\ Max(Range(Words(ctx))) <= MaxMessages
        /\ Cardinality({k \in DOMAIN ctx : ctx[k].rest = 1}) <= MaxSwaps[a]
        /\ context' = [context EXCEPT ![a] = ctx]
        /\ said' = Max({said} \cup Range(Words(ctx)))
        /\ \/ /\ Len(calls) < MaxCalls
              /\ calls' = Append(calls, [agent |-> a, body |-> ctx, print |-> Unstamped])
           \/ ctx # context[a] /\ UNCHANGED calls
        /\ UNCHANGED <<goneCalls, goneBodies, viewer>>

HasRaw(i) == i > goneBodies /\ i > goneCalls

(* process and SaveMessageFingerprint, or a row of msgbackfill; a call that is
   gone, a dropped job and a failed write leave the row as it was. *)
Stamp(i) ==
    /\ i > goneCalls /\ calls[i].print = Unstamped
    /\ calls' = [calls EXCEPT ![i].print = Fingerprint(calls[i].body)]
    /\ UNCHANGED <<context, said, goneCalls, goneBodies, viewer>>

Prune ==
    /\ goneCalls + goneBodies < MaxPrunes
    /\ \/ goneBodies < Len(calls) /\ goneBodies' = goneBodies + 1 /\ UNCHANGED goneCalls
       \/ goneCalls < Len(calls) /\ goneCalls' = goneCalls + 1 /\ UNCHANGED goneBodies
    /\ UNCHANGED <<context, said, calls, viewer>>

(* sessionShapes *)
SessionShapes ==
    [i \in {x \in DOMAIN calls : x > goneCalls} |->
        [agent |-> calls[i].agent, print |-> calls[i].print, raw |-> HasRaw(i)]]

(* SessionCover, and then the bodies: what retention takes in between is not
   there any more. *)
OpenPanel ==
    /\ viewer.at = "shut" /\ calls # <<>>
    /\ viewer' = [Shut EXCEPT !.at = "reading", !.upTo = Len(calls), !.ids = MessageCover(SessionShapes)]
    /\ UNCHANGED <<context, said, calls, goneCalls, goneBodies>>

(* SessionRequests and mergePrompts *)
ShowPanel ==
    /\ viewer.at = "reading"
    /\ LET there == {i \in viewer.ids : HasRaw(i)}
           read == Admitted(there, [i \in there |-> Len(calls[i].body)], ViewBudget)
           bodies == [i \in read |-> calls[i].body]
       IN  viewer' = [viewer EXCEPT !.at = "shown", !.shown = MergePrompts(bodies),
                                    !.omitted = Cardinality(there \ read)]
    /\ UNCHANGED <<context, said, calls, goneCalls, goneBodies>>

ClosePanel ==
    /\ viewer.at # "shut"
    /\ viewer' = Shut
    /\ UNCHANGED <<context, said, calls, goneCalls, goneBodies>>

PanelNext ==
    \/ Ask \/ Prune \/ OpenPanel \/ ShowPanel \/ ClosePanel
    \/ \E i \in DOMAIN calls : Stamp(i)

-----------------------------------------------------------------------------
(* Properties *)

(* A later request of the agent starts with the same words and is longer,
   although it is no continuation: the history behind it was rewritten. *)
RewrittenAfter(i) ==
    \E j \in DOMAIN calls :
        /\ j > i /\ calls[j].agent = calls[i].agent
        /\ Head(Words(calls[j].body)) = Head(Words(calls[i].body))
        /\ Len(calls[j].body) > Len(calls[i].body)
        /\ ~IsPrefix(Words(calls[i].body), Words(calls[j].body))

(* A later request of the agent repeats its words, with another image, document
   or thinking block somewhere among them. *)
LookAlikeAfter(i) ==
    \E j \in DOMAIN calls :
        /\ j > i /\ calls[j].agent = calls[i].agent
        /\ IsPrefix(Words(calls[i].body), Words(calls[j].body))
        /\ ~IsPrefix(calls[i].body, calls[j].body)

Shows(view, body) ==
    \E k \in 0..Len(view) : IsPrefix(body, SubSeq(view, k + 1, Len(view)))

(* Every captured request is shown from its first word to its last, in order
   and without gaps, although most bodies are never read, and whole unless a
   later request repeats its words around another image, document or thinking
   block; or the panel says that it left some out.  So it is whatever was
   stamped, dropped or pruned, and however the agents interleave
   (messagecover.go, sessionmessages.go).  The exception is a history rewritten
   behind a longer request; the comment of messagecover.go knows of in-place
   edits only. *)
CapturedIsShown ==
    viewer.at = "shown" =>
        \A i \in 1..viewer.upTo :
            HasRaw(i) =>
                \/ viewer.omitted > 0
                \/ RewrittenAfter(i)
                \/ /\ Shows(Words(viewer.shown), Words(calls[i].body))
                   /\ Shows(viewer.shown, calls[i].body) \/ LookAlikeAfter(i)
=============================================================================
