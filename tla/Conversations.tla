--------------------------- MODULE Conversations ---------------------------
(***************************************************************************)
(* How a session's conversation is put together from captured requests:    *)
(* the fingerprint of a message array (internal/parse), which bodies have  *)
(* to be read (store/messagecover.go, store/payloads.go) and how they are  *)
(* merged (api/sessionmessages.go).  The two sides see a message           *)
(* differently: the parser keeps its words (role, text, tool calls and     *)
(* ids) and drops the rest (images, documents, thinking), the merge        *)
(* compares the whole JSON.  A message is [words, rest]; neither digest    *)
(* collides.  Shapes are in time order.                                    *)
(***************************************************************************)
EXTENDS Integers, Sequences, SequencesExt, FiniteSets, FiniteSetsExt

Unstamped == [count |-> 0, head |-> 0, tail |-> <<>>]
Unavailable == [Unstamped EXCEPT !.count = -1]

(* What parsing keeps of an array, message by message. *)
Words(body) == [k \in DOMAIN body |-> body[k].words]

(* Fingerprint, writeMessage: the hashes are of the parsed messages. *)
Fingerprint(body) ==
    IF body = <<>> THEN Unstamped
    ELSE [count |-> Len(body), head |-> body[1].words, tail |-> Words(body)]

Stamped(shape) == shape.print.count > 0

(* extends: the later request is taken to hold all of the earlier one. *)
Extends_AnyFork(prev, cur) ==
    /\ Stamped(prev) /\ Stamped(cur)
    /\ prev.print.head = cur.print.head
    /\ cur.print.count >= prev.print.count
Extends(prev, cur) ==
    /\ Stamped(prev) /\ Stamped(cur)
    /\ prev.print.head = cur.print.head
    /\ cur.print.count >= prev.print.count
    /\ cur.print.count = prev.print.count => cur.print.tail = prev.print.tail

(* The requests of one agent that start with the same message. *)
Thread(shapes, i) ==
    {j \in DOMAIN shapes :
        /\ Stamped(shapes[j])
        /\ shapes[j].agent = shapes[i].agent
        /\ shapes[j].print.head = shapes[i].print.head}

(* A run is a stretch of a thread in which each request extends the one before
   it, whatever else lies between them in time. *)
SameRun(shapes, i, j) ==
    LET thread == Thread(shapes, i) IN
    \A k \in {x \in thread : i <= x /\ x < j} :
        Extends(shapes[k], shapes[Min({x \in thread : x > k})])

(* messageCover: of each run the last request whose body is there, and every
   request nothing is known of. *)
MessageCover(shapes) ==
    {i \in DOMAIN shapes :
        /\ shapes[i].raw
        /\ Stamped(shapes[i]) =>
               \A j \in Thread(shapes, i) : j > i /\ shapes[j].raw => ~SameRun(shapes, i, j)}

(* SessionRequests: the newest bodies, and always one, while they fit. *)
Admitted(ids, size, budget) ==
    {i \in ids :
        \/ i = Max(ids)
        \/ MapThenSumSet(LAMBDA j : size[j], {x \in ids : x >= i}) <= budget}

(* mergePromptItems: the longest suffix of the view that the request starts
   with is shared, whole message by whole message. *)
MergePromptItems(existing, next) ==
    LET overlap == Max({n \in 0..Min({Len(existing), Len(next)}) :
                           SubSeq(existing, Len(existing) - n + 1, Len(existing))
                               = SubSeq(next, 1, n)})
    IN  existing \o SubSeq(next, overlap + 1, Len(next))

(* mergePrompts: the bodies, by call, folded into one view, oldest first. *)
MergePrompts(bodies) ==
    LET view[n \in Nat] ==
            IF n = 0 THEN <<>>
            ELSE IF n \in DOMAIN bodies THEN MergePromptItems(view[n - 1], bodies[n])
            ELSE view[n - 1]
    IN  view[Max({0} \cup DOMAIN bodies)]
=============================================================================
