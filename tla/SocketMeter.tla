---------------------------- MODULE SocketMeter ----------------------------
(***************************************************************************)
(* Metering a speech session without slowing its relay (proxy/wsmeter.go): *)
(* the relay hands every slab of downstream bytes to a bounded channel and *)
(* never waits; the decoder takes the slabs apart into frames, the frames  *)
(* into messages, and keeps the latest usage; finish gives the result.     *)
(* Bytes are counted in units: one for a frame's header, so a backlog that *)
(* passes the cap by less than a header is not told apart.                 *)
(***************************************************************************)
EXTENDS Integers, Sequences, FiniteSets, FiniteSetsExt, Functions

CONSTANTS
    Downstreams,        \* what servers send: sequences of frames
    ChanDepth,
    MaxFrameBuffer, MaxJSONMessage,
    NibbleAt,           \* a message shows that it is JSON once it is this long
    MaxSlab             \* bound: units in a slab

(* A frame: its opcode, FIN, payload units, and of the message that begins
   with it, whether it is JSON and the usage it states. *)
Frames == [op : {"binary", "continuation", "other"}, fin : BOOLEAN, len : Nat,
           json : BOOLEAN, usage : Nat, masked : BOOLEAN]

ASSUME SocketsAssumption ==
    /\ Downstreams \subseteq Seq(Frames)
    /\ NibbleAt \in Nat \ {0} /\ MaxSlab \in Nat
    /\ MaxFrameBuffer \in Nat /\ MaxJSONMessage \in Nat

VARIABLES
    frames, sent,       \* the session, and the units relayed so far
    slabs, fed,         \* the channel: lengths; the units that entered it
    desynced, inputClosed, result,
    decoder             \* wsReassembler and the usage kept

socketVars == <<frames, sent, slabs, fed, desynced, inputClosed, result, decoder>>

NoUsage == 0            \* none, or one that normalises to zero
Unknown == -1
NoResult == -2

NewDecoder == [frame |-> 1, buf |-> 0, inMsg |-> FALSE, first |-> 0, size |-> 0, skip |-> FALSE,
               decided |-> FALSE, bad |-> FALSE, last |-> Unknown, done |-> FALSE]

SocketInit ==
    /\ frames = <<>> /\ sent = 0 /\ slabs = <<>> /\ fed = 0
    /\ desynced = FALSE /\ inputClosed = FALSE /\ result = NoResult
    /\ decoder = NewDecoder

Units(fs) == FoldFunctionOnSet(+, 0, [i \in DOMAIN fs |-> 1 + fs[i].len], DOMAIN fs)

Handshake(fs) ==
    /\ frames = <<>> /\ frames' = fs
    /\ UNCHANGED <<sent, slabs, fed, desynced, inputClosed, result, decoder>>

(* feed: a full channel ends the metering of the session. *)
Feed(n) ==
    /\ ~inputClosed /\ sent + n <= Units(frames)
    /\ sent' = sent + n
    /\ IF desynced THEN UNCHANGED <<slabs, fed, desynced>>
       ELSE IF Len(slabs) < ChanDepth
       THEN slabs' = Append(slabs, n) /\ fed' = fed + n /\ UNCHANGED desynced
       ELSE desynced' = TRUE /\ UNCHANGED <<slabs, fed>>
    /\ UNCHANGED <<frames, inputClosed, result, decoder>>

-----------------------------------------------------------------------------
(* wsReassembler *)

Fail(d) == [d EXCEPT !.bad = TRUE, !.buf = 0]

(* onMessage: the latest usage that is not zero. *)
OnMessage(d, usage) == IF usage = NoUsage THEN d ELSE [d EXCEPT !.last = usage]

IsJSON(i, len) == len >= NibbleAt /\ frames[i].json

Decide(d) ==
    IF d.decided \/ d.size < NibbleAt THEN d
    ELSE IF IsJSON(d.first, d.size) THEN [d EXCEPT !.decided = TRUE]
    ELSE [d EXCEPT !.decided = TRUE, !.skip = TRUE, !.size = 0]

BeginMessage(d, i) ==
    IF frames[i].fin
    THEN IF IsJSON(i, frames[i].len) THEN OnMessage(d, frames[i].usage) ELSE d
    ELSE Decide([d EXCEPT !.inMsg = TRUE, !.decided = FALSE, !.skip = FALSE,
                          !.first = i, !.size = frames[i].len])

EndMessage(d) ==
    LET heard == IF ~d.skip /\ d.size > 0 /\ IsJSON(d.first, d.size)
                 THEN OnMessage(d, frames[d.first].usage) ELSE d
    IN  [heard EXCEPT !.inMsg = FALSE, !.decided = FALSE, !.skip = FALSE, !.size = 0]

ContinueMessage(d, i) ==
    IF ~d.inMsg THEN d
    ELSE LET len == frames[i].len
             grown == IF d.skip THEN d
                      ELSE IF d.size + len > MaxJSONMessage
                      THEN [d EXCEPT !.skip = TRUE, !.size = 0]
                      ELSE [d EXCEPT !.size = @ + len]
         IN  IF frames[i].fin THEN EndMessage(Decide(grown)) ELSE Decide(grown)

(* The header is there: a masked frame or one over the cap is an anomaly. *)
HeaderRead == decoder.buf >= 1 /\ decoder.frame <= Len(frames)
Anomalous(i) == frames[i].masked \/ frames[i].len > MaxFrameBuffer
FrameRead == HeaderRead /\ (Anomalous(decoder.frame) \/ decoder.buf > frames[decoder.frame].len)

(* The frame leaves the buffer, and goes where its opcode says. *)
Past(d, i) == [d EXCEPT !.frame = i + 1, !.buf = @ - (1 + frames[i].len)]
Dispatch(d, i) ==
    CASE frames[i].op = "binary" -> BeginMessage(d, i)
      [] frames[i].op = "continuation" -> ContinueMessage(d, i)
      [] OTHER -> d

(* parseFrame *)
ParseFrame ==
    /\ ~decoder.bad /\ FrameRead
    /\ LET i == decoder.frame
       IN  decoder' = IF Anomalous(i) THEN Fail(decoder)
                      ELSE Dispatch(Past(decoder, i), i)
    /\ UNCHANGED <<frames, sent, slabs, fed, desynced, inputClosed, result>>

(* write: nothing of the buffer parses any more; a backlog over the cap fails. *)
TakeSlab ==
    /\ decoder.bad \/ ~FrameRead
    /\ slabs # <<>>
    /\ slabs' = Tail(slabs)
    /\ decoder' = IF decoder.bad THEN decoder
                  ELSE IF decoder.buf > MaxFrameBuffer THEN Fail(decoder)
                  ELSE [decoder EXCEPT !.buf = @ + Head(slabs)]
    /\ UNCHANGED <<frames, sent, fed, desynced, inputClosed, result>>

(* finish, and the end of run *)
CloseInput ==
    /\ frames # <<>> /\ ~inputClosed /\ inputClosed' = TRUE
    /\ UNCHANGED <<frames, sent, slabs, fed, desynced, result, decoder>>

Drained ==
    /\ inputClosed /\ slabs = <<>> /\ (decoder.bad \/ ~FrameRead) /\ ~decoder.done
    /\ decoder' = [decoder EXCEPT !.done = TRUE,
                                  !.bad = @ \/ decoder.buf > MaxFrameBuffer]
    /\ desynced' = (desynced \/ decoder'.bad)
    /\ UNCHANGED <<frames, sent, slabs, fed, inputClosed, result>>

Metered_OfWhatWasDecoded == decoder.last
Metered == IF desynced THEN Unknown ELSE decoder.last

Finish ==
    /\ decoder.done /\ result = NoResult
    /\ result' = Metered
    /\ UNCHANGED <<frames, sent, slabs, fed, desynced, inputClosed, decoder>>

SocketNext ==
    \/ \E fs \in Downstreams : Handshake(fs)
    \/ \E n \in 1..MaxSlab : Feed(n)
    \/ ParseFrame \/ TakeSlab \/ CloseInput \/ Drained \/ Finish

-----------------------------------------------------------------------------
(* Properties *)

(* The frames wholly among the first units of the session. *)
Whole(units) == {i \in DOMAIN frames : Units(SubSeq(frames, 1, i)) <= units}

(* The last fragment of the message that begins with frame i, and its size. *)
LastOf(i) ==
    IF frames[i].fin THEN i
    ELSE LET ends == {j \in (i + 1)..Len(frames) :
                         \/ frames[j].op = "continuation" /\ frames[j].fin
                         \/ frames[j].op = "binary" /\ ~frames[j].fin}
         IN  IF ends = {} THEN Len(frames) + 1 ELSE Min(ends)
SizeOf(i) ==
    FoldFunctionOnSet(+, 0, [j \in DOMAIN frames |-> frames[j].len],
        {i} \cup {j \in (i + 1)..LastOf(i) : frames[j].op = "continuation"})

(* The usage a client that decoded the whole session would have: of the last
   JSON message that came to its end and is not over the cap. *)
LatestUsage ==
    LET stating == {i \in Whole(sent) :
            /\ frames[i].op = "binary" /\ frames[i].json /\ frames[i].usage # NoUsage
            /\ LastOf(i) \in Whole(sent) /\ (frames[i].fin \/ frames[LastOf(i)].op = "continuation")
            /\ NibbleAt <= SizeOf(i)
            /\ frames[i].fin \/ SizeOf(i) <= MaxJSONMessage}
        ended == {LastOf(i) : i \in stating}
    IN  IF stating = {} THEN Unknown
        ELSE frames[CHOOSE i \in stating : LastOf(i) = Max(ended)].usage

(* However the bytes were cut into slabs and however far the decoder fell
   behind, a finished session is metered by the latest usage the server sent,
   or not at all: not at all once a slab was dropped, a frame was masked or
   over the cap (wsmeter.go: never a corrupt guess). *)
SocketsNeverGuess ==
    result # NoResult =>
        LET readable == \A i \in 1..Len(frames) :
                Units(SubSeq(frames, 1, i - 1)) < sent => ~Anomalous(i)
        IN  IF fed < sent \/ ~readable THEN result = Unknown
            ELSE result = LatestUsage
=============================================================================
