---------------------------- MODULE ServerProofs ----------------------------
(***************************************************************************)
(* Proofs about Server: the shape of its state, the count of connections,   *)
(* what holds of the counters when RunServer returns, that what a peer      *)
(* sends is what its thread handles, and that what the thread answers is    *)
(* true.                                                                    *)
(***************************************************************************)
EXTENDS Server, FiniteSetTheorems, SequenceTheorems, TLAPS

USE DEF coordinator, context, peers, connections

-----------------------------------------------------------------------------
(* The inductive invariant.                                                 *)

Bytes == [frame : Frames, at : Nat]
Codes == {"ok", "wire_malformed", "protocol_mismatch", "stale_fabric_epoch", "fenced_stale_epoch",
          "already_exists", "worker_limit_exceeded", "committed", "rejected", "fenced"}
Replies == [kind : ServerKinds \cup {"none"}, code : Codes, epoch : Nat, previous : Nat]
Entries == [attempt : Attempts, epoch : Nat]

\* The steps of ServeConnection that work on a frame.
Placing == {"fence", "place", "commit", "tally"}
Setting == {"epoch", "apply", "reread"}
Working == {"greet"} \cup Placing \cup Setting

\* The threads inside ServeConnection.
Serving == {c \in Conns : thread[c] \notin Gone \cup {"left"}}

CoreShape ==
    /\ incarnation \in 0 .. MaxCrashes /\ fabricEpoch \in 1 .. MaxEpoch
    /\ records \in Seq(Entries)
    /\ known \subseteq Attempts /\ ended \subseteq known
    /\ main \in {"wait", "closing", "joining", "finished"} /\ stop \in BOOLEAN
    /\ live \in Int /\ served \in Nat /\ committed \in Nat /\ inherited \in Nat

PeerShape ==
    /\ script \in Casts
    /\ peer \in [Conns -> {"away", "open", "gone"}]
    /\ sent \in [Conns -> Nat] /\ got \in [Conns -> Nat]
    /\ wire \in [Conns -> Seq(Bytes)]
    /\ \A c \in Conns : peer[c] = "away" => link[c] = "none"

LinkShape ==
    /\ link \in [Conns -> {"none", "backlog", "open", "closed"}]
    /\ bound \in [Conns -> 0 .. DefaultBound]
    /\ buffer \in [Conns -> Seq(Bytes)]
    /\ thread \in [Conns -> ThreadStates]
    /\ handled \in [Conns -> Seq(Frames)]
    /\ reply \in [Conns -> Replies]
    /\ replies \in [Conns -> Seq(Replies)]

\* A thread at a step that reads its frame has taken one, of the kind of the step,
\* and commits an attempt it has registered.
FrameOK ==
    \A c \in Conns :
        /\ thread[c] \in Working => Len(handled[c]) > 0
        /\ thread[c] \in Placing => Frame(c).kind = "place_request"
        /\ thread[c] \in Setting => Frame(c).kind = "set_epoch"
        /\ thread[c] = "commit" => Frame(c).attempt \in known

\* A connection that was not accepted has no thread and no history.
FreshOK ==
    \A c \in Conns :
        link[c] \in {"none", "backlog"} =>
            /\ thread[c] = "none"
            /\ handled[c] = <<>> /\ replies[c] = <<>> /\ buffer[c] = <<>>

CountOK == IsFiniteSet(Serving) /\ live = Cardinality(Serving) /\ live <= MaxConnections

Shape == CoreShape /\ PeerShape /\ LinkShape /\ FrameOK /\ FreshOK

-----------------------------------------------------------------------------
(* Frames and replies.                                                      *)

\* The frame a thread works on is one a peer may send.
LEMMA FrameIsFrame ==
    ASSUME LinkShape, FrameOK, NEW c \in Conns, thread[c] \in Working
    PROVE  /\ Frame(c) \in Frames
           /\ thread[c] \in Placing => Frame(c).attempt \in Attempts
           /\ thread[c] \in Setting => Frame(c).epoch \in 1 .. MaxEpoch
  <1>1. handled[c] \in Seq(Frames) /\ Len(handled[c]) > 0
    BY DEF LinkShape, FrameOK
  <1>2. Frame(c) \in Frames
    <2>1. Len(handled[c]) \in DOMAIN handled[c]
      BY <1>1
    <2> QED
      BY <1>1, <2>1, ElementOfSeq DEF Frame
  <1> QED
    BY <1>2 DEF FrameOK, Frames

LEMMA AnswerIsReply ==
    ASSUME NEW kind \in ServerKinds, NEW code \in Codes
    PROVE  /\ Answer(kind, code) \in Replies
           /\ Answer(kind, code).kind = kind /\ Answer(kind, code).code = code
  BY DEF Answer, NoReply, Replies

LEMMA NoReplyIsReply == NoReply \in Replies
  BY DEF NoReply, Replies, Codes

\* The error frames are replies.
LEMMA ErrorIsReply ==
    ASSUME NEW code \in Codes
    PROVE  /\ Answer("error", code) \in Replies
           /\ Answer("error", code).kind = "error" /\ Answer("error", code).code = code
  BY AnswerIsReply, "error" \in ServerKinds DEF ServerKinds

\* Where Handler sends the thread, and with what reply.
LEMMA HandlerGoes ==
    ASSUME NEW f \in Frames, NEW pc \in {"hello", "recv"}
    PROVE  /\ Handler(pc, f).pc \in {"greet", "fence", "epoch", "send"}
           /\ Handler(pc, f).reply \in Replies
           /\ Handler(pc, f).pc = "fence" => f.kind = "place_request"
           /\ Handler(pc, f).pc = "epoch" => f.kind = "set_epoch"
  <1>1. Answer("error", "wire_malformed") \in Replies
    BY ErrorIsReply DEF Codes
  <1>2. Answer("recovery_report", "ok") \in Replies
    BY AnswerIsReply DEF ServerKinds, Codes
  <1>3. Answer("stats_report", "ok") \in Replies
    BY AnswerIsReply DEF ServerKinds, Codes
  <1>4. Answer("shutdown_ack", "ok") \in Replies
    BY AnswerIsReply DEF ServerKinds, Codes
  <1> QED
    BY <1>1, <1>2, <1>3, <1>4, NoReplyIsReply DEF Handler

LEMMA EncodedIsBytes ==
    ASSUME NEW f \in Frames
    PROVE  EncodeFrame(f) \in Seq(Bytes) /\ Len(EncodeFrame(f)) = HeaderBytes + f.size
  <1>1. HeaderBytes + f.size \in Nat
    BY HeaderAssumption DEF Frames
  <1>2. EncodeFrame(f) \in [1 .. (HeaderBytes + f.size) -> Bytes]
    BY <1>1 DEF EncodeFrame, Bytes
  <1> QED
    BY <1>1, <1>2, SeqDef DEF EncodeFrame

\* What FrameStream::Next hands out is the frame of the first byte, and it needs
\* at least the bytes of the header.
LEMMA NextNeedsFrame ==
    ASSUME NEW buf \in Seq(Bytes), NEW b \in Nat, NextStatus(buf, b) = "frame"
    PROVE  /\ NextFrame(buf) \in Frames /\ Rest(buf) \in Seq(Bytes)
           /\ HeaderBytes + NextFrame(buf).size <= Len(buf)
  <1>1. ~(Len(buf) < HeaderBytes)
    BY DEF NextStatus
  <1>2. 1 \in DOMAIN buf
    BY <1>1, HeaderAssumption
  <1>3. buf[1] \in Bytes
    BY <1>2, ElementOfSeq
  <1>4. NextFrame(buf) \in Frames /\ NextFrame(buf).size \in Nat
    BY <1>3 DEF NextFrame, Bytes, Frames
  <1>5. ~(Len(buf) < HeaderBytes + NextFrame(buf).size)
    BY <1>1 DEF NextStatus, NextFrame
  <1>6. Rest(buf) \in Seq(Bytes)
    BY <1>4, <1>5, HeaderAssumption, SubSeqProperties DEF Rest
  <1> QED
    BY <1>4, <1>5, <1>6, HeaderAssumption

-----------------------------------------------------------------------------
(* Every step keeps the shape.                                              *)

LEMMA ShapeInit == Init => Shape
  <1> SUFFICES ASSUME Init PROVE Shape
    OBVIOUS
  <1>1. CoreShape
    <2>1. records = <<>> /\ incarnation = 0 /\ fabricEpoch = 1
      BY DEF Init, Ledger!Init
    <2> QED
      BY <2>1, OptionsAssumption DEF Init, CoreShape, FreshContext
  <1>2. PeerShape
    BY DEF Init, PeerShape
  <1>3. LinkShape
    BY NoReplyIsReply, OptionsAssumption DEF Init, LinkShape, ThreadStates, Gone
  <1>4. FrameOK
    BY DEF Init, FrameOK, Working, Placing, Setting
  <1>5. FreshOK
    BY DEF Init, FreshOK
  <1> QED
    BY <1>1, <1>2, <1>3, <1>4, <1>5 DEF Shape

\* The steps of a thread that only move it on and set its reply.
LEMMA GoesShape ==
    ASSUME PeerShape, LinkShape, NEW c \in Conns, NEW pc \in ThreadStates, NEW r \in Replies,
           Goes(c, pc, r)
    PROVE  /\ PeerShape' /\ LinkShape'
           /\ thread'[c] = pc /\ reply'[c] = r
           /\ \A d \in Conns \ {c} : thread'[d] = thread[d] /\ reply'[d] = reply[d]
           /\ \A d \in Conns : Frame(d)' = Frame(d)
  <1>1. PeerShape'
    BY DEF PeerShape, Goes
  <1>2. LinkShape'
    BY DEF LinkShape, Goes
  <1>3. /\ thread'[c] = pc /\ reply'[c] = r
        /\ \A d \in Conns \ {c} : thread'[d] = thread[d] /\ reply'[d] = reply[d]
    BY DEF LinkShape, Goes
  <1>4. \A d \in Conns : Frame(d)' = Frame(d)
    BY DEF Goes, Frame
  <1> QED
    BY <1>1, <1>2, <1>3, <1>4

LEMMA GoesFrame ==
    ASSUME Shape, NEW c \in Conns, NEW pc \in ThreadStates, NEW r \in Replies, Goes(c, pc, r),
           thread[c] # "none", known \subseteq known',
           pc \in Working => thread[c] \in Working,
           pc \in Placing => thread[c] \in Placing,
           pc \in Setting => thread[c] \in Setting,
           pc = "commit" => Frame(c).attempt \in known'
    PROVE  PeerShape' /\ LinkShape' /\ FrameOK' /\ FreshOK'
  <1>1. PeerShape' /\ LinkShape'
    BY GoesShape DEF Shape
  <1>2. FrameOK'
    <2> SUFFICES ASSUME NEW d \in Conns
                 PROVE  /\ thread'[d] \in Working => Len(handled'[d]) > 0
                        /\ thread'[d] \in Placing => Frame(d)'.kind = "place_request"
                        /\ thread'[d] \in Setting => Frame(d)'.kind = "set_epoch"
                        /\ thread'[d] = "commit" => Frame(d)'.attempt \in known'
      BY DEF FrameOK
    <2>1. Frame(d)' = Frame(d) /\ handled'[d] = handled[d]
      BY GoesShape DEF Shape, Goes
    <2>2. CASE d = c
      <3>1. thread'[d] = pc
        BY <2>2, GoesShape DEF Shape
      <3> QED
        BY <2>1, <2>2, <3>1 DEF Shape, FrameOK
    <2>3. CASE d # c
      <3>1. thread'[d] = thread[d]
        BY <2>3, GoesShape DEF Shape
      <3> QED
        BY <2>1, <3>1 DEF Shape, FrameOK
    <2> QED
      BY <2>2, <2>3
  <1>3. FreshOK'
    <2> SUFFICES ASSUME NEW d \in Conns, link'[d] \in {"none", "backlog"}
                 PROVE  /\ thread'[d] = "none"
                        /\ handled'[d] = <<>> /\ replies'[d] = <<>> /\ buffer'[d] = <<>>
      BY DEF FreshOK
    <2>1. thread[d] = "none" /\ handled[d] = <<>> /\ replies[d] = <<>> /\ buffer[d] = <<>>
      BY DEF Goes, Shape, FreshOK
    <2>2. d # c
      BY <2>1
    <2>3. thread'[d] = thread[d]
      BY <2>2, GoesShape DEF Shape
    <2> QED
      BY <2>1, <2>3 DEF Goes
  <1> QED
    BY <1>1, <1>2, <1>3

\* Steps of a connection thread that read or change the coordinator.
LEMMA GreetShape == ASSUME Shape, NEW c \in Conns, Greet(c) PROVE Shape'
  <1> USE DEF Shape
  <1> DEFINE code == IF ~Frame(c).version THEN "protocol_mismatch"
                     ELSE IF Frame(c).epoch # fabricEpoch THEN "stale_fabric_epoch" ELSE "ok"
             r == [Answer("hello_ack", code) EXCEPT !.epoch = fabricEpoch]
  <1>1. Frame(c) \in Frames
    BY FrameIsFrame DEF Greet, Working
  <1>2. r \in Replies
    <2>1. Answer("hello_ack", code) \in Replies
      BY AnswerIsReply DEF ServerKinds, Codes
    <2> HIDE DEF code
    <2> QED
      BY <2>1 DEF Replies, CoreShape
  <1>3. /\ reply' = [reply EXCEPT ![c] = r]
        /\ bound' = [bound EXCEPT ![c] = Negotiated(Frame(c))]
        /\ thread' = [thread EXCEPT ![c] = "send"]
        /\ UNCHANGED <<link, buffer, handled, replies>>
    BY DEF Greet
  <1> HIDE DEF r
  <1>4. Negotiated(Frame(c)) \in 0 .. DefaultBound
    BY <1>1, OptionsAssumption DEF Negotiated, Frames
  <1>5. CoreShape' /\ PeerShape'
    BY DEF CoreShape, PeerShape, Greet
  <1>6. LinkShape'
    BY <1>2, <1>3, <1>4 DEF LinkShape, ThreadStates
  <1>7. FrameOK'
    BY DEF LinkShape, FrameOK, Greet, Frame, Working, Placing, Setting
  <1>8. FreshOK'
    BY DEF LinkShape, FreshOK, Greet
  <1> QED
    BY <1>5, <1>6, <1>7, <1>8

LEMMA FenceShape == ASSUME Shape, NEW c \in Conns, Fence(c) PROVE Shape'
  <1> USE DEF Shape
  <1>1. CoreShape'
    BY DEF CoreShape, Fence
  <1>2. CASE Goes(c, "send", Answer("error", "fenced_stale_epoch"))
    BY <1>1, <1>2, ErrorIsReply, GoesFrame
    DEF Fence, ThreadStates, Working, Placing, Setting, Codes
  <1>3. CASE Goes(c, "place", NoReply)
    BY <1>1, <1>3, NoReplyIsReply, GoesFrame DEF Fence, ThreadStates, Working, Placing, Setting
  <1> QED
    BY <1>2, <1>3 DEF Fence

LEMMA RegisterShape == ASSUME Shape, NEW c \in Conns, Register(c) PROVE Shape'
  <1> USE DEF Shape
  <1>1. Frame(c).attempt \in Attempts
    BY FrameIsFrame DEF Register, Working, Placing
  <1>2. CoreShape' /\ known \subseteq known'
    BY <1>1 DEF CoreShape, Register
  <1>3. CASE Goes(c, "commit", NoReply) /\ known' = known \cup {Frame(c).attempt}
    BY <1>2, <1>3, NoReplyIsReply, GoesFrame DEF Register, ThreadStates, Working, Placing, Setting
  <1>4. ASSUME NEW code \in Codes, Goes(c, "send", Answer("error", code)) PROVE Shape'
    BY <1>2, <1>4, ErrorIsReply, GoesFrame DEF Register, ThreadStates, Working, Placing, Setting
  <1>5. Registration(Frame(c)) \in Codes
    BY DEF Registration, Codes
  <1> QED
    BY <1>3, <1>4, <1>5 DEF Register

LEMMA CommitShape == ASSUME Shape, NEW c \in Conns, CommitPlacement(c) PROVE Shape'
  <1> USE DEF Shape
  <1>1. Frame(c).attempt \in Attempts /\ Frame(c).attempt \in known
    BY FrameIsFrame DEF CommitPlacement, Working, Placing, FrameOK
  <1>2. CoreShape'
    <2>1. CASE Ledger!Record(Frame(c).attempt) /\ UNCHANGED ended
      <3>1. [attempt |-> Frame(c).attempt, epoch |-> fabricEpoch] \in Entries
        BY <1>1 DEF CoreShape, Entries
      <3>2. records' \in Seq(Entries)
        BY <2>1, <3>1, AppendProperties DEF CoreShape, Ledger!Record
      <3> QED
        BY <2>1, <3>2 DEF CoreShape, CommitPlacement, Ledger!Record
    <2>2. CASE ended' = ended \cup {Frame(c).attempt} /\ UNCHANGED <<incarnation, fabricEpoch, records>>
      BY <1>1, <2>2 DEF CoreShape, CommitPlacement
    <2> QED
      BY <2>1, <2>2 DEF CommitPlacement
  <1>3. PICK code \in {"committed", "rejected", "fenced"} :
            Goes(c, "tally", Answer("place_result", code))
    BY DEF CommitPlacement
  <1>4. Answer("place_result", code) \in Replies
    BY AnswerIsReply DEF ServerKinds, Codes
  <1> QED
    BY <1>2, <1>3, <1>4, GoesFrame DEF CommitPlacement, ThreadStates, Working, Placing, Setting

LEMMA TallyShape == ASSUME Shape, NEW c \in Conns, Tally(c) PROVE Shape'
  <1> USE DEF Shape
  <1>1. CoreShape'
    BY DEF CoreShape, Tally
  <1>2. reply[c] \in Replies
    BY DEF LinkShape
  <1> QED
    BY <1>1, <1>2, GoesFrame DEF Tally, ThreadStates, Working, Placing, Setting

LEMMA EpochShape ==
    ASSUME Shape, NEW c \in Conns, ReadEpoch(c) \/ SetAuthority(c) \/ RereadEpoch(c)
    PROVE  Shape'
  <1> USE DEF Shape
  <1>1. ASSUME ReadEpoch(c) PROVE Shape'
    <2>1. CoreShape'
      BY <1>1 DEF CoreShape, ReadEpoch
    <2>2. Answer("epoch_ack", "ok") \in Replies
      BY AnswerIsReply DEF ServerKinds, Codes
    <2>3. [Answer("epoch_ack", "ok") EXCEPT !.previous = fabricEpoch] \in Replies
      BY <2>2 DEF Replies, CoreShape
    <2> QED
      BY <1>1, <2>1, <2>3, GoesFrame DEF ReadEpoch, ThreadStates, Working, Placing, Setting
  <1>2. ASSUME SetAuthority(c) PROVE Shape'
    <2>1. Frame(c).epoch \in 1 .. MaxEpoch
      BY <1>2, FrameIsFrame DEF SetAuthority, Working, Setting
    <2>2. CoreShape'
      BY <1>2, <2>1 DEF CoreShape, SetAuthority
    <2>3. PICK code \in Codes : Goes(c, "reread", [reply[c] EXCEPT !.code = code])
      BY <1>2 DEF SetAuthority, Codes
    <2>4. [reply[c] EXCEPT !.code = code] \in Replies
      BY DEF Replies, LinkShape
    <2> QED
      BY <1>2, <2>2, <2>3, <2>4, GoesFrame DEF SetAuthority, ThreadStates, Working, Placing, Setting
  <1>3. ASSUME RereadEpoch(c) PROVE Shape'
    <2>1. CoreShape'
      BY <1>3 DEF CoreShape, RereadEpoch
    <2>2. reply[c] \in Replies /\ fabricEpoch \in Nat
      BY DEF LinkShape, CoreShape
    <2>3. [reply[c] EXCEPT !.epoch = fabricEpoch] \in Replies
      BY <2>2 DEF Replies
    <2> QED
      BY <1>3, <2>1, <2>3, GoesFrame DEF RereadEpoch, ThreadStates, Working, Placing, Setting
  <1> QED
    BY <1>1, <1>2, <1>3

\* Steps that end a request or a connection, or begin the next round.
LEMMA RoundShape ==
    ASSUME Shape, NEW c \in Conns,
           LoopTop(c) \/ Limit(c) \/ RequestStop(c) \/ Return(c) \/ Done(c)
    PROVE  Shape'
  <1> USE DEF Shape
  <1>1. CoreShape'
    <2>1. CASE LoopTop(c) \/ Limit(c) \/ Done(c)
      BY <2>1 DEF CoreShape, LoopTop, Limit, Done
    <2>2. CASE RequestStop(c)
      BY <2>2 DEF CoreShape, RequestStop
    <2>3. CASE Return(c)
      BY <2>3 DEF CoreShape, Return
    <2> QED
      BY <2>1, <2>2, <2>3
  <1>2. PICK pc \in {"return", "recv", "stop", "top", "left", "done"} : Goes(c, pc, NoReply)
    BY DEF LoopTop, Limit, RequestStop, Return, Done
  <1>3. thread[c] # "none" /\ known' = known
    BY DEF LoopTop, Limit, RequestStop, Return, Done
  <1>4. pc \in ThreadStates /\ pc \notin Working \cup Placing \cup Setting /\ pc # "commit"
    BY DEF ThreadStates, Gone, Working, Placing, Setting
  <1> QED
    BY <1>1, <1>2, <1>3, <1>4, NoReplyIsReply, GoesFrame

LEMMA ReceiveShape ==
    ASSUME Shape, NEW c \in Conns, NEW k \in 1 .. Len(wire[c]), Receive(c, k)
    PROVE  Shape'
  <1> USE DEF Shape
  <1>1. CoreShape'
    BY DEF CoreShape, Receive
  <1>2. wire[c] \in Seq(Bytes) /\ Len(wire[c]) \in Nat /\ k \in Int
    BY DEF PeerShape
  <1>3. SubSeq(wire[c], 1, k) \in Seq(Bytes) /\ SubSeq(wire[c], k + 1, Len(wire[c])) \in Seq(Bytes)
    BY <1>2, SubSeqProperties
  <1>4. PeerShape'
    BY <1>3 DEF PeerShape, Receive
  <1>5. buffer[c] \o SubSeq(wire[c], 1, k) \in Seq(Bytes)
    BY <1>3, ConcatProperties DEF LinkShape
  <1>6. LinkShape'
    BY <1>5 DEF LinkShape, Receive
  <1>7. FrameOK'
    BY DEF FrameOK, Receive, Frame
  <1>8. FreshOK'
    BY DEF FreshOK, Receive, LinkShape
  <1> QED
    BY <1>1, <1>4, <1>6, <1>7, <1>8

LEMMA ReceiveFailsShape == ASSUME Shape, NEW c \in Conns, ReceiveFails(c) PROVE Shape'
  <1> USE DEF Shape
  <1>1. /\ thread' = [thread EXCEPT ![c] = "return"] /\ thread[c] \in {"hello", "recv"}
        /\ UNCHANGED <<coordinator, context, peers, link, bound, buffer, handled, reply, replies>>
    BY DEF ReceiveFails, Receiving
  <1>2. CoreShape' /\ PeerShape'
    BY <1>1 DEF CoreShape, PeerShape
  <1>3. LinkShape'
    BY <1>1 DEF LinkShape, ThreadStates
  <1>4. FrameOK'
    BY <1>1 DEF FrameOK, LinkShape, Frame, Working, Placing, Setting
  <1>5. FreshOK'
    BY <1>1 DEF FreshOK, LinkShape
  <1> QED
    BY <1>2, <1>3, <1>4, <1>5

LEMMA TakeFrameShape == ASSUME Shape, NEW c \in Conns, TakeFrame(c) PROVE Shape'
  <1> USE DEF Shape
  <1> DEFINE f == NextFrame(buffer[c])
             h == Handler(thread[c], f)
  <1>1. /\ f \in Frames /\ Rest(buffer[c]) \in Seq(Bytes)
        /\ thread[c] \in {"hello", "recv"}
    BY NextNeedsFrame DEF TakeFrame, LinkShape, Receiving
  <1>2. /\ h.pc \in {"greet", "fence", "epoch", "send"} /\ h.reply \in Replies
        /\ h.pc = "fence" => f.kind = "place_request"
        /\ h.pc = "epoch" => f.kind = "set_epoch"
    BY <1>1, HandlerGoes
  <1>3. /\ handled' = [handled EXCEPT ![c] = Append(handled[c], f)]
        /\ thread' = [thread EXCEPT ![c] = h.pc]
        /\ reply' = [reply EXCEPT ![c] = h.reply]
        /\ buffer' = [buffer EXCEPT ![c] = Rest(buffer[c])]
        /\ UNCHANGED <<coordinator, context, peers, link, bound, replies>>
    BY DEF TakeFrame, LinkShape
  <1> HIDE DEF f, h
  <1>4. /\ Append(handled[c], f) \in Seq(Frames)
        /\ Len(Append(handled[c], f)) = Len(handled[c]) + 1
        /\ Append(handled[c], f)[Len(handled[c]) + 1] = f
        /\ Len(handled[c]) \in Nat
    BY <1>1, AppendProperties DEF LinkShape
  <1>5. CoreShape' /\ PeerShape'
    BY <1>3 DEF CoreShape, PeerShape
  <1>6. LinkShape'
    BY <1>1, <1>2, <1>3, <1>4 DEF LinkShape, ThreadStates
  <1>7. FrameOK'
    <2> SUFFICES ASSUME NEW d \in Conns
                 PROVE  /\ thread'[d] \in Working => Len(handled'[d]) > 0
                        /\ thread'[d] \in Placing => Frame(d)'.kind = "place_request"
                        /\ thread'[d] \in Setting => Frame(d)'.kind = "set_epoch"
                        /\ thread'[d] = "commit" => Frame(d)'.attempt \in known'
      BY DEF FrameOK
    <2>1. CASE d = c
      <3>1. handled'[c] = Append(handled[c], f) /\ thread'[c] = h.pc
        BY <1>3 DEF LinkShape
      <3>2. Frame(c)' = f
        BY <1>4, <3>1 DEF Frame
      <3> QED
        BY <1>2, <1>4, <2>1, <3>1, <3>2 DEF Placing, Setting
    <2>2. CASE d # c
      <3>1. handled'[d] = handled[d] /\ thread'[d] = thread[d] /\ known' = known
        BY <1>3, <2>2 DEF LinkShape
      <3> QED
        BY <3>1 DEF FrameOK, Frame
    <2> QED
      BY <2>1, <2>2
  <1>8. FreshOK'
    BY <1>1, <1>3 DEF FreshOK, LinkShape
  <1> QED
    BY <1>5, <1>6, <1>7, <1>8

LEMMA SendShape == ASSUME Shape, NEW c \in Conns, Send(c) PROVE Shape'
  <1> USE DEF Shape
  <1>1. PICK ok \in BOOLEAN :
            /\ thread' = [thread EXCEPT ![c] = AfterSend(reply[c], ok)]
            /\ replies' = IF ok /\ peer[c] = "open"
                          THEN [replies EXCEPT ![c] = Append(replies[c], reply[c])] ELSE replies
    BY DEF Send, LinkShape
  <1>2. AfterSend(reply[c], ok) \in {"return", "top", "stop", "limit"}
    BY DEF AfterSend
  <1>3. /\ thread[c] = "send" /\ reply' = [reply EXCEPT ![c] = NoReply]
        /\ UNCHANGED <<coordinator, main, stop, live, committed, inherited, peers,
                       link, bound, buffer, handled>>
    BY DEF Send
  <1>4. CoreShape' /\ PeerShape'
    BY <1>3 DEF CoreShape, PeerShape, Send
  <1>5. Append(replies[c], reply[c]) \in Seq(Replies)
    BY AppendProperties DEF LinkShape
  <1>6. LinkShape'
    <2>1. replies' \in [Conns -> Seq(Replies)]
      BY <1>1, <1>5 DEF LinkShape
    <2>2. thread' \in [Conns -> ThreadStates]
      BY <1>1, <1>2 DEF LinkShape, ThreadStates
    <2> QED
      BY <1>3, <2>1, <2>2, NoReplyIsReply DEF LinkShape
  <1>7. FrameOK'
    <2>1. \A d \in Conns : Frame(d)' = Frame(d)
      BY <1>3 DEF Frame
    <2> QED
      BY <1>1, <1>2, <1>3, <2>1 DEF FrameOK, LinkShape, Working, Placing, Setting
  <1>8. FreshOK'
    <2> SUFFICES ASSUME NEW d \in Conns, link'[d] \in {"none", "backlog"}
                 PROVE  /\ thread'[d] = "none"
                        /\ handled'[d] = <<>> /\ replies'[d] = <<>> /\ buffer'[d] = <<>>
      BY DEF FreshOK
    <2>1. thread[d] = "none" /\ handled[d] = <<>> /\ replies[d] = <<>> /\ buffer[d] = <<>>
      BY <1>3 DEF FreshOK
    <2>2. d # c
      BY <1>3, <2>1
    <2>3. thread'[d] = thread[d] /\ replies'[d] = replies[d]
      BY <1>1, <2>2 DEF LinkShape
    <2> QED
      BY <1>3, <2>1, <2>3
  <1> QED
    BY <1>4, <1>6, <1>7, <1>8

LEMMA PeerStepShape == ASSUME Shape, NEW c \in Conns, Peer(c) PROVE Shape'
  <1> USE DEF Shape
  <1>1. ASSUME Connect(c) PROVE Shape'
    <2>1. CoreShape' /\ PeerShape'
      BY <1>1 DEF CoreShape, PeerShape, Connect
    <2>2. LinkShape' /\ FrameOK'
      BY <1>1 DEF LinkShape, FrameOK, Frame, Connect
    <2>3. FreshOK'
      BY <1>1 DEF FreshOK, PeerShape, LinkShape, Connect
    <2> QED
      BY <2>1, <2>2, <2>3
  <1>2. ASSUME PeerSend(c) PROVE Shape'
    <2> DEFINE f == script[c].frames[sent[c] + 1]
    <2>1. script[c].frames \in Seq(Frames) /\ sent[c] \in Nat
      BY CastAssumption DEF PeerShape
    <2>2. f \in Frames
      BY <1>2, <2>1, ElementOfSeq DEF PeerSend
    <2>3. wire' = [wire EXCEPT ![c] = wire[c] \o EncodeFrame(f)]
      BY <1>2 DEF PeerSend, PeerShape
    <2> HIDE DEF f
    <2>4. wire[c] \o EncodeFrame(f) \in Seq(Bytes)
      BY <2>2, EncodedIsBytes, ConcatProperties DEF PeerShape
    <2>5. wire' \in [Conns -> Seq(Bytes)]
      BY <2>3, <2>4 DEF PeerShape
    <2>6. PeerShape'
      BY <1>2, <2>5 DEF PeerShape, PeerSend
    <2>7. CoreShape' /\ LinkShape' /\ FrameOK' /\ FreshOK'
      BY <1>2 DEF CoreShape, LinkShape, FrameOK, FreshOK, Frame, PeerSend
    <2> QED
      BY <2>6, <2>7
  <1>3. ASSUME PeerRead(c) PROVE Shape'
    <2>1. PeerShape'
      BY <1>3 DEF PeerShape, PeerRead
    <2>2. CoreShape' /\ LinkShape' /\ FrameOK' /\ FreshOK'
      BY <1>3 DEF CoreShape, LinkShape, FrameOK, FreshOK, Frame, PeerRead
    <2> QED
      BY <2>1, <2>2
  <1>4. ASSUME NEW k \in 0 .. Len(wire[c]), PeerGone(c, k) PROVE Shape'
    <2>1. wire[c] \in Seq(Bytes) /\ Len(wire[c]) \in Nat
      BY DEF PeerShape
    <2>2. SubSeq(wire[c], 1, k) \in Seq(Bytes)
      BY <2>1, SubSeqProperties
    <2>3. PeerShape'
      BY <1>4, <2>2 DEF PeerShape, PeerGone
    <2>4. CoreShape' /\ LinkShape' /\ FrameOK' /\ FreshOK'
      BY <1>4 DEF CoreShape, LinkShape, FrameOK, FreshOK, Frame, PeerGone
    <2> QED
      BY <2>3, <2>4
  <1> QED
    BY <1>1, <1>2, <1>3, <1>4 DEF Peer

LEMMA AcceptShape == ASSUME Shape, NEW c \in Conns, Accept(c) PROVE Shape'
  <1> USE DEF Shape
  <1>1. CoreShape' /\ PeerShape'
    <2>1. CoreShape'
      BY DEF CoreShape, Accept
    <2>2. \A d \in Conns : peer'[d] = "away" => link'[d] = "none"
      BY DEF PeerShape, LinkShape, Accept
    <2> QED
      BY <2>1, <2>2 DEF PeerShape, Accept
  <1>2. ASSUME AtLimit PROVE LinkShape' /\ FrameOK' /\ FreshOK'
    <2> DEFINE r == Answer("error", "worker_limit_exceeded")
    <2>1. r \in Replies
      BY ErrorIsReply DEF Codes
    <2>2. /\ replies' = [replies EXCEPT ![c] = Append(replies[c], r)]
          /\ link' = [link EXCEPT ![c] = "closed"]
          /\ UNCHANGED <<thread, bound, buffer, handled, reply, known>>
      BY <1>2 DEF Accept, LinkShape
    <2> HIDE DEF r
    <2>3. Append(replies[c], r) \in Seq(Replies)
      BY <2>1, AppendProperties DEF LinkShape
    <2>4. LinkShape'
      BY <2>2, <2>3 DEF LinkShape
    <2>5. FrameOK'
      BY <2>2 DEF FrameOK, Frame
    <2>6. FreshOK'
      BY <2>2 DEF FreshOK, LinkShape
    <2> QED
      BY <2>4, <2>5, <2>6
  <1>3. ASSUME ~AtLimit PROVE LinkShape' /\ FrameOK' /\ FreshOK'
    <2>1. /\ link' = [link EXCEPT ![c] = "open"]
          /\ thread' = [thread EXCEPT ![c] = "hello"]
          /\ UNCHANGED <<replies, bound, buffer, handled, reply, known>>
      BY <1>3 DEF Accept
    <2>2. LinkShape'
      BY <2>1 DEF LinkShape, ThreadStates
    <2>3. FrameOK'
      BY <2>1 DEF FrameOK, Frame, LinkShape, Working, Placing, Setting
    <2>4. FreshOK'
      BY <2>1 DEF FreshOK, LinkShape
    <2> QED
      BY <2>2, <2>3, <2>4
  <1> QED
    BY <1>1, <1>2, <1>3

\* The other steps of RunServer.
LEMMA MainShape ==
    ASSUME Shape,
           \/ ReapConnections \/ LeaveLoop \/ AllClosed \/ Finish
           \/ \E c \in Conns : CloseConnection(c)
    PROVE  Shape'
  <1> USE DEF Shape
  <1>1. CASE ReapConnections
    <2>1. CoreShape' /\ PeerShape'
      BY <1>1 DEF CoreShape, PeerShape, FreshOK, ReapConnections
    <2>2. LinkShape'
      BY <1>1 DEF LinkShape, ReapConnections, ThreadStates, Gone
    <2>3. FrameOK' /\ FreshOK'
      BY <1>1 DEF FrameOK, FreshOK, Frame, ReapConnections, Working, Placing, Setting
    <2> QED
      BY <2>1, <2>2, <2>3
  <1>2. CASE LeaveLoop \/ AllClosed
    BY <1>2 DEF CoreShape, PeerShape, LinkShape, FrameOK, FreshOK, Frame, LeaveLoop, AllClosed
  <1>3. CASE Finish
    <2>1. CoreShape' /\ PeerShape'
      BY <1>3 DEF CoreShape, PeerShape, Finish
    <2>2. LinkShape'
      BY <1>3 DEF LinkShape, Finish
    <2>3. FrameOK' /\ FreshOK'
      BY <1>3 DEF FrameOK, FreshOK, Frame, Finish
    <2> QED
      BY <2>1, <2>2, <2>3
  <1>4. ASSUME NEW c \in Conns, CloseConnection(c) PROVE Shape'
    <2>1. CoreShape' /\ PeerShape'
      BY <1>4 DEF CoreShape, PeerShape, CloseConnection
    <2>2. LinkShape'
      BY <1>4 DEF LinkShape, CloseConnection
    <2>3. FrameOK' /\ FreshOK'
      BY <1>4 DEF LinkShape, FrameOK, FreshOK, Frame, CloseConnection
    <2> QED
      BY <2>1, <2>2, <2>3
  <1> QED
    BY <1>1, <1>2, <1>3, <1>4

LEMMA CrashShape == ASSUME Shape, NEW e \in 1 .. MaxEpoch, Crash(e) PROVE Shape'
  <1> USE DEF Shape
  <1>1. CoreShape'
    <2>1. /\ incarnation' = incarnation + 1 /\ records' = records
          /\ incarnation < MaxCrashes /\ fabricEpoch' = e
      BY DEF Crash, Ledger!Restart
    <2>2. {records[i].attempt : i \in DOMAIN records} \subseteq Attempts
      <3> SUFFICES ASSUME NEW i \in DOMAIN records PROVE records[i].attempt \in Attempts
        OBVIOUS
      <3>1. records[i] \in Entries
        BY ElementOfSeq DEF CoreShape
      <3> QED
        BY <3>1 DEF Entries
    <2>3. known' \subseteq Attempts /\ ended' \subseteq known'
      BY <2>2 DEF CoreShape, Crash
    <2>4. Len(records) \in Nat
      BY DEF CoreShape
    <2> QED
      BY <2>1, <2>3, <2>4, OptionsAssumption DEF CoreShape, Crash, FreshContext
  <1>2. PeerShape'
    BY DEF PeerShape, Crash
  <1>3. LinkShape'
    BY NoReplyIsReply DEF LinkShape, Crash, ThreadStates, Gone
  <1>4. FrameOK'
    BY DEF FrameOK, Crash, Working, Placing, Setting
  <1>5. FreshOK'
    BY DEF FreshOK, LinkShape, Crash
  <1> QED
    BY <1>1, <1>2, <1>3, <1>4, <1>5

LEMMA ShapeNext == Shape /\ [Next]_vars => Shape'
  <1> SUFFICES ASSUME Shape, [Next]_vars PROVE Shape'
    OBVIOUS
  <1>1. CASE Main
    BY <1>1, AcceptShape, MainShape DEF Main
  <1>2. ASSUME NEW c \in Conns, Serve(c) PROVE Shape'
    BY <1>2, ReceiveShape, ReceiveFailsShape, TakeFrameShape, GreetShape, RoundShape, FenceShape,
       RegisterShape, CommitShape, TallyShape, EpochShape, SendShape DEF Serve
  <1>3. ASSUME NEW c \in Conns, Peer(c) PROVE Shape'
    BY <1>3, PeerStepShape
  <1>4. ASSUME NEW e \in 1 .. MaxEpoch, Crash(e) PROVE Shape'
    BY <1>4, CrashShape
  <1>5. CASE UNCHANGED vars
    BY <1>5 DEF vars, Shape, CoreShape, PeerShape, LinkShape, FrameOK, FreshOK, Frame
  <1> QED
    BY <1>1, <1>2, <1>3, <1>4, <1>5 DEF Next

-----------------------------------------------------------------------------
(* live_connections.                                                        *)

\* A thread enters ServeConnection, leaves it, or stays on its side.
LEMMA CountEnter ==
    ASSUME CountOK, Shape, NEW c \in Conns, c \notin Serving, live < MaxConnections,
           live' = live + 1, Serving' = Serving \cup {c}
    PROVE  CountOK'
  BY FS_AddElement, OptionsAssumption DEF CountOK, Shape, CoreShape

LEMMA CountLeave ==
    ASSUME CountOK, Shape, NEW c \in Conns, c \in Serving,
           live' = live - 1, Serving' = Serving \ {c}
    PROVE  CountOK'
  BY FS_RemoveElement, OptionsAssumption DEF CountOK, Shape, CoreShape

LEMMA CountStay ==
    ASSUME CountOK, live' = live, Serving' = Serving
    PROVE  CountOK'
  BY DEF CountOK

LEMMA CountInit == Init => CountOK
  <1> SUFFICES ASSUME Init PROVE CountOK
    OBVIOUS
  <1>1. Serving = {} /\ live = 0
    BY DEF Init, Serving, Gone, FreshContext
  <1> QED
    BY <1>1, FS_EmptySet, OptionsAssumption DEF CountOK

\* A step of a thread that stays inside ServeConnection.
LEMMA CountGoes ==
    ASSUME Shape, NEW c \in Conns, NEW pc \in ThreadStates, thread' = [thread EXCEPT ![c] = pc],
           thread[c] \notin Gone \cup {"left"}, pc \notin Gone \cup {"left"}
    PROVE  Serving' = Serving
  BY DEF Shape, LinkShape, Serving

LEMMA CountServe ==
    ASSUME Shape, CountOK, NEW c \in Conns, Serve(c)
    PROVE  CountOK'
  <1> USE DEF Shape
  <1>1. ASSUME NEW k \in 1 .. Len(wire[c]), Receive(c, k) PROVE CountOK'
    BY <1>1, CountStay DEF Receive, Serving
  <1>2. CASE ReceiveFails(c)
    <2>1. Serving' = Serving
      BY <1>2, CountGoes DEF ReceiveFails, Receiving, ThreadStates, Gone
    <2> QED
      BY <1>2, <2>1, CountStay DEF ReceiveFails
  <1>3. CASE TakeFrame(c)
    <2> DEFINE pc == Handler(thread[c], NextFrame(buffer[c])).pc
    <2>1. pc \in {"greet", "fence", "epoch", "send"}
      BY <1>3, NextNeedsFrame, HandlerGoes DEF TakeFrame, LinkShape, Receiving
    <2>2. thread' = [thread EXCEPT ![c] = pc] /\ thread[c] \in {"hello", "recv"} /\ live' = live
      BY <1>3 DEF TakeFrame, LinkShape, Receiving
    <2> HIDE DEF pc
    <2>3. Serving' = Serving
      BY <2>1, <2>2, CountGoes DEF ThreadStates, Gone
    <2> QED
      BY <2>2, <2>3, CountStay
  <1>4. CASE Greet(c)
    <2>1. Serving' = Serving
      BY <1>4, CountGoes DEF Greet, ThreadStates, Gone
    <2> QED
      BY <1>4, <2>1, CountStay DEF Greet
  <1>5. CASE Send(c)
    <2>1. PICK pc \in {"return", "top", "stop", "limit"} : thread' = [thread EXCEPT ![c] = pc]
      BY <1>5 DEF Send, AfterSend
    <2>2. Serving' = Serving
      BY <1>5, <2>1, CountGoes DEF Send, ThreadStates, Gone
    <2> QED
      BY <1>5, <2>2, CountStay DEF Send
  <1>6. CASE Return(c)
    <2>1. c \in Serving /\ Serving' = Serving \ {c}
      BY <1>6 DEF Return, Goes, Serving, Gone, LinkShape
    <2> QED
      BY <1>6, <2>1, CountLeave DEF Return
  <1>7. CASE Done(c)
    <2>1. Serving' = Serving
      BY <1>7 DEF Done, Goes, Serving, Gone, LinkShape
    <2> QED
      BY <1>7, <2>1, CountStay DEF Done
  <1>8. CASE \/ LoopTop(c) \/ Fence(c) \/ Register(c) \/ CommitPlacement(c) \/ Tally(c)
             \/ ReadEpoch(c) \/ SetAuthority(c) \/ RereadEpoch(c) \/ Limit(c) \/ RequestStop(c)
    <2>1. live' = live /\ thread[c] \in ThreadStates \ (Gone \cup {"left"})
      BY <1>8 DEF LoopTop, Fence, Register, CommitPlacement, Tally, ReadEpoch, SetAuthority,
                  RereadEpoch, Limit, RequestStop, ThreadStates, Gone
    <2>2. PICK pc \in ThreadStates \ (Gone \cup {"left"}) : thread' = [thread EXCEPT ![c] = pc]
      BY <1>8 DEF LoopTop, Fence, Register, CommitPlacement, Tally, ReadEpoch, SetAuthority,
                  RereadEpoch, Limit, RequestStop, Goes, ThreadStates, Gone
    <2>3. Serving' = Serving
      BY <2>1, <2>2, CountGoes
    <2> QED
      BY <2>1, <2>3, CountStay
  <1> QED
    BY <1>1, <1>2, <1>3, <1>4, <1>5, <1>6, <1>7, <1>8 DEF Serve

LEMMA CountMain ==
    ASSUME Shape, CountOK, Main
    PROVE  CountOK'
  <1> USE DEF Shape
  <1>1. CASE ReapConnections
    <2>1. Serving' = Serving
      BY <1>1 DEF ReapConnections, Serving, Gone, LinkShape
    <2> QED
      BY <1>1, <2>1, CountStay DEF ReapConnections
  <1>2. CASE LeaveLoop \/ AllClosed \/ Finish
    BY <1>2, CountStay DEF LeaveLoop, AllClosed, Finish, Serving
  <1>3. ASSUME NEW c \in Conns, CloseConnection(c) PROVE CountOK'
    BY <1>3, CountStay DEF CloseConnection, Serving
  <1>4. ASSUME NEW c \in Conns, Accept(c) PROVE CountOK'
    <2>1. CASE AtLimit
      BY <1>4, <2>1, CountStay DEF Accept, Serving
    <2>2. CASE ~AtLimit
      <3>1. thread[c] = "none"
        BY <1>4 DEF Accept, FreshOK
      <3>2. c \notin Serving /\ Serving' = Serving \cup {c}
        BY <1>4, <2>2, <3>1 DEF Accept, Serving, Gone, LinkShape
      <3>3. live' = live + 1 /\ live < MaxConnections
        BY <1>4, <2>2, OptionsAssumption DEF Accept, AtLimit, CoreShape
      <3> QED
        BY <3>2, <3>3, CountEnter
    <2> QED
      BY <2>1, <2>2
  <1> QED
    BY <1>1, <1>2, <1>3, <1>4 DEF Main

LEMMA CountNext == Shape /\ CountOK /\ [Next]_vars => CountOK'
  <1> SUFFICES ASSUME Shape, CountOK, [Next]_vars PROVE CountOK'
    OBVIOUS
  <1>1. CASE Main
    BY <1>1, CountMain
  <1>2. ASSUME NEW c \in Conns, Serve(c) PROVE CountOK'
    BY <1>2, CountServe
  <1>3. ASSUME NEW c \in Conns, Peer(c) PROVE CountOK'
    BY <1>3, CountStay DEF Peer, Connect, PeerSend, PeerRead, PeerGone, Serving
  <1>4. ASSUME NEW e \in 1 .. MaxEpoch, Crash(e) PROVE CountOK'
    <2>1. Serving' = {} /\ live' = 0
      BY <1>4 DEF Crash, Serving, Gone, FreshContext
    <2> QED
      BY <2>1, FS_EmptySet, OptionsAssumption DEF CountOK
  <1>5. CASE UNCHANGED vars
    BY <1>5, CountStay DEF vars, Serving
  <1> QED
    BY <1>1, <1>2, <1>3, <1>4, <1>5 DEF Next

\* The counter live_connections is exact and bounded: however many peers connect,
\* whatever they send and whenever they leave or the process dies, the check that
\* RunServer makes before the increment never admits one connection too many.
THEOREM ConnectionsStayBounded == Spec => []ConnectionsAreBounded
  <1>1. Init => Shape /\ CountOK
    BY ShapeInit, CountInit
  <1>2. Shape /\ CountOK /\ [Next]_vars => Shape' /\ CountOK'
    BY ShapeNext, CountNext
  <1>3. Shape /\ CountOK => ConnectionsAreBounded
    BY DEF CountOK, ConnectionsAreBounded, Serving
  <1> QED
    BY <1>1, <1>2, <1>3, PTL DEF Spec

\* Type correctness of the server: the counters of the ServerContext never go
\* below zero and every thread is at a step of ServeConnection.
THEOREM ServerTypeCorrect == Spec => []TypeOK
  <1>1. Init => Shape /\ CountOK
    BY ShapeInit, CountInit
  <1>2. Shape /\ CountOK /\ [Next]_vars => Shape' /\ CountOK'
    BY ShapeNext, CountNext
  <1>3. Shape /\ CountOK => TypeOK
    <2> SUFFICES ASSUME Shape, CountOK PROVE TypeOK
      OBVIOUS
    <2>1. live \in Nat
      BY FS_CardinalityType DEF CountOK
    <2>2. \A c \in Conns : reply[c].kind \in ServerKinds \cup {"none"}
      BY DEF Shape, LinkShape, Replies
    <2> QED
      BY <2>1, <2>2 DEF Shape, CoreShape, PeerShape, LinkShape, TypeOK
  <1> QED
    BY <1>1, <1>2, <1>3, PTL DEF Spec

-----------------------------------------------------------------------------
(* The counters when RunServer returns.                                     *)

\* Placements that are durable and not yet counted.
Uncounted == {c \in Conns : thread[c] = "tally" /\ reply[c].code = "committed"}

TallyOK == IsFiniteSet(Uncounted) /\ committed + Cardinality(Uncounted) = Len(records) - inherited

FinalOK == main = "finished" => \A c \in Conns : thread[c] \in Gone /\ link[c] # "open"

LEMMA TallyInit == Init => TallyOK /\ FinalOK
  <1> SUFFICES ASSUME Init PROVE TallyOK /\ FinalOK
    OBVIOUS
  <1>1. Uncounted = {} /\ committed = 0 /\ inherited = 0
    BY DEF Init, Uncounted, FreshContext
  <1>2. records = <<>>
    BY DEF Init, Ledger!Init
  <1>3. TallyOK
    BY <1>1, <1>2, FS_EmptySet DEF TallyOK
  <1>4. FinalOK
    BY DEF Init, FinalOK, FreshContext
  <1> QED
    BY <1>3, <1>4

LEMMA TallyStay ==
    ASSUME TallyOK, Uncounted' = Uncounted, UNCHANGED <<committed, records, inherited>>
    PROVE  TallyOK'
  BY DEF TallyOK

\* A step of a thread that is neither at the tally nor goes there.
LEMMA TallyGoes ==
    ASSUME Shape, NEW c \in Conns, NEW pc, thread' = [thread EXCEPT ![c] = pc],
           thread[c] # "tally", pc # "tally",
           \A d \in Conns \ {c} : reply'[d] = reply[d]
    PROVE  Uncounted' = Uncounted
  BY DEF Shape, LinkShape, Uncounted

LEMMA TallyServe ==
    ASSUME Shape, TallyOK, NEW c \in Conns, Serve(c)
    PROVE  TallyOK'
  <1> USE DEF Shape
  <1>1. ASSUME NEW k \in 1 .. Len(wire[c]), Receive(c, k) PROVE TallyOK'
    BY <1>1, TallyStay DEF Receive, Uncounted
  <1>2. CASE ReceiveFails(c)
    <2>1. Uncounted' = Uncounted
      BY <1>2, TallyGoes DEF ReceiveFails, Receiving
    <2> QED
      BY <1>2, <2>1, TallyStay DEF ReceiveFails
  <1>3. CASE TakeFrame(c)
    <2> DEFINE h == Handler(thread[c], NextFrame(buffer[c]))
    <2>1. h.pc \in {"greet", "fence", "epoch", "send"}
      BY <1>3, NextNeedsFrame, HandlerGoes DEF TakeFrame, LinkShape, Receiving
    <2>2. /\ thread' = [thread EXCEPT ![c] = h.pc] /\ thread[c] \in {"hello", "recv"}
          /\ reply' = [reply EXCEPT ![c] = h.reply]
      BY <1>3 DEF TakeFrame, LinkShape, Receiving
    <2> HIDE DEF h
    <2>3. \A d \in Conns \ {c} : reply'[d] = reply[d]
      BY <2>2 DEF LinkShape
    <2>4. Uncounted' = Uncounted
      BY <2>1, <2>2, <2>3, TallyGoes
    <2> QED
      BY <1>3, <2>4, TallyStay DEF TakeFrame
  <1>4. CASE Greet(c)
    <2>1. \A d \in Conns \ {c} : reply'[d] = reply[d]
      BY <1>4 DEF Greet, LinkShape
    <2>2. Uncounted' = Uncounted
      BY <1>4, <2>1, TallyGoes DEF Greet
    <2> QED
      BY <1>4, <2>2, TallyStay DEF Greet
  <1>5. CASE Send(c)
    <2>1. PICK pc \in {"return", "top", "stop", "limit"} : thread' = [thread EXCEPT ![c] = pc]
      BY <1>5 DEF Send, AfterSend
    <2>2. \A d \in Conns \ {c} : reply'[d] = reply[d]
      BY <1>5 DEF Send, LinkShape
    <2>3. Uncounted' = Uncounted
      BY <1>5, <2>1, <2>2, TallyGoes DEF Send
    <2> QED
      BY <1>5, <2>3, TallyStay DEF Send
  <1>6. CASE CommitPlacement(c)
    <2>1. ASSUME Ledger!Record(Frame(c).attempt), Goes(c, "tally", Answer("place_result", "committed"))
          PROVE  TallyOK'
      <3>1. Answer("place_result", "committed").code = "committed"
        BY AnswerIsReply DEF ServerKinds, Codes
      <3>2. c \notin Uncounted /\ Uncounted' = Uncounted \cup {c}
        BY <1>6, <2>1, <3>1 DEF CommitPlacement, Goes, Uncounted, LinkShape
      <3>3. Len(records') = Len(records) + 1 /\ Len(records) \in Nat
        BY <2>1, AppendProperties DEF Ledger!Record, CoreShape
      <3>4. UNCHANGED <<committed, inherited>>
        BY <1>6 DEF CommitPlacement
      <3>5. IsFiniteSet(Uncounted') /\ Cardinality(Uncounted') = Cardinality(Uncounted) + 1
        BY <3>2, FS_AddElement DEF TallyOK
      <3>6. Cardinality(Uncounted) \in Nat
        BY FS_CardinalityType DEF TallyOK
      <3> QED
        BY <3>3, <3>4, <3>5, <3>6 DEF TallyOK, CoreShape
    <2>2. ASSUME NEW code \in {"rejected", "fenced"}, Goes(c, "tally", Answer("place_result", code)),
                 UNCHANGED records
          PROVE  TallyOK'
      <3>1. Answer("place_result", code).code = code
        BY AnswerIsReply DEF ServerKinds, Codes
      <3>2. Uncounted' = Uncounted
        BY <1>6, <2>2, <3>1 DEF CommitPlacement, Goes, Uncounted, LinkShape
      <3> QED
        BY <1>6, <2>2, <3>2, TallyStay DEF CommitPlacement
    <2> QED
      BY <1>6, <2>1, <2>2 DEF CommitPlacement
  <1>7. CASE Tally(c)
    <2>1. UNCHANGED <<records, inherited>> /\ thread[c] = "tally"
      BY <1>7 DEF Tally
    <2>2. CASE reply[c].code = "committed"
      <3>1. c \in Uncounted /\ Uncounted' = Uncounted \ {c} /\ committed' = committed + 1
        BY <1>7, <2>2 DEF Tally, Goes, Uncounted, LinkShape
      <3>2. IsFiniteSet(Uncounted') /\ Cardinality(Uncounted') = Cardinality(Uncounted) - 1
        BY <3>1, FS_RemoveElement DEF TallyOK
      <3>3. Cardinality(Uncounted) \in Nat
        BY FS_CardinalityType DEF TallyOK
      <3> QED
        BY <2>1, <3>1, <3>2, <3>3 DEF TallyOK, CoreShape
    <2>3. CASE reply[c].code # "committed"
      <3>1. Uncounted' = Uncounted /\ committed' = committed
        BY <1>7, <2>3 DEF Tally, Goes, Uncounted, LinkShape
      <3> QED
        BY <2>1, <3>1, TallyStay
    <2> QED
      BY <2>2, <2>3
  <1>8. CASE \/ LoopTop(c) \/ Fence(c) \/ Register(c) \/ ReadEpoch(c) \/ SetAuthority(c)
             \/ RereadEpoch(c) \/ Limit(c) \/ RequestStop(c) \/ Return(c) \/ Done(c)
    <2>1. UNCHANGED <<committed, records, inherited>> /\ thread[c] # "tally"
      BY <1>8 DEF LoopTop, Fence, Register, ReadEpoch, SetAuthority, RereadEpoch, Limit,
                  RequestStop, Return, Done
    <2>2. PICK pc \in ThreadStates \ {"tally"} : \E r : Goes(c, pc, r)
      BY <1>8 DEF LoopTop, Fence, Register, ReadEpoch, SetAuthority, RereadEpoch, Limit,
                  RequestStop, Return, Done, ThreadStates, Gone
    <2>3. /\ thread' = [thread EXCEPT ![c] = pc]
          /\ \A d \in Conns \ {c} : reply'[d] = reply[d]
      BY <2>2 DEF Goes, LinkShape
    <2>4. Uncounted' = Uncounted
      BY <2>1, <2>2, <2>3, TallyGoes
    <2> QED
      BY <2>1, <2>4, TallyStay
  <1> QED
    BY <1>1, <1>2, <1>3, <1>4, <1>5, <1>6, <1>7, <1>8 DEF Serve

LEMMA TallyNext == Shape /\ TallyOK /\ [Next]_vars => TallyOK'
  <1> SUFFICES ASSUME Shape, TallyOK, [Next]_vars PROVE TallyOK'
    OBVIOUS
  <1>1. CASE Main
    <2>1. UNCHANGED <<committed, records, inherited, reply>>
      BY <1>1 DEF Main, ReapConnections, LeaveLoop, AllClosed, Finish, Accept, CloseConnection
    <2>2. \A c \in Conns : thread'[c] = "tally" <=> thread[c] = "tally"
      <3>1. CASE ReapConnections
        BY <3>1 DEF ReapConnections, Shape, LinkShape
      <3>2. CASE LeaveLoop \/ AllClosed \/ Finish \/ \E c \in Conns : CloseConnection(c)
        BY <3>2 DEF LeaveLoop, AllClosed, Finish, CloseConnection
      <3>3. ASSUME NEW c \in Conns, Accept(c)
            PROVE  \A d \in Conns : thread'[d] = "tally" <=> thread[d] = "tally"
        BY <3>3 DEF Accept, Shape, LinkShape, FreshOK
      <3> QED
        BY <1>1, <3>1, <3>2, <3>3 DEF Main
    <2>3. Uncounted' = Uncounted
      BY <2>1, <2>2 DEF Uncounted
    <2> QED
      BY <2>1, <2>3, TallyStay
  <1>2. ASSUME NEW c \in Conns, Serve(c) PROVE TallyOK'
    BY <1>2, TallyServe
  <1>3. ASSUME NEW c \in Conns, Peer(c) PROVE TallyOK'
    BY <1>3, TallyStay DEF Peer, Connect, PeerSend, PeerRead, PeerGone, Uncounted
  <1>4. ASSUME NEW e \in 1 .. MaxEpoch, Crash(e) PROVE TallyOK'
    <2>1. Uncounted' = {} /\ committed' = 0 /\ inherited' = Len(records) /\ records' = records
      BY <1>4 DEF Crash, Uncounted, FreshContext, Ledger!Restart
    <2>2. Len(records) \in Nat
      BY DEF Shape, CoreShape
    <2> QED
      BY <2>1, <2>2, FS_EmptySet DEF TallyOK
  <1>5. CASE UNCHANGED vars
    BY <1>5, TallyStay DEF vars, Uncounted
  <1> QED
    BY <1>1, <1>2, <1>3, <1>4, <1>5 DEF Next

\* Once RunServer has returned no thread can move.
LEMMA FinalNext == Shape /\ FinalOK /\ [Next]_vars => FinalOK'
  <1> SUFFICES ASSUME Shape, FinalOK, [Next]_vars, main' = "finished"
               PROVE  \A c \in Conns : thread'[c] \in Gone /\ link'[c] # "open"
    BY DEF FinalOK
  <1>1. CASE Finish
    BY <1>1 DEF Finish, Joined
  <1>2. CASE Main /\ ~Finish
    BY <1>2 DEF Main, ReapConnections, LeaveLoop, AllClosed, Accept, CloseConnection
  <1>3. ASSUME NEW c \in Conns, Serve(c) PROVE FALSE
    <2>1. main = "finished" /\ thread[c] \in Gone
      <3>1. main' = main
        BY <1>3 DEF Serve, Receive, ReceiveFails, TakeFrame, Greet, LoopTop, Fence, Register,
                    CommitPlacement, Tally, ReadEpoch, SetAuthority, RereadEpoch, Send, Limit,
                    RequestStop, Return, Done
      <3> QED
        BY <3>1 DEF FinalOK
    <2> QED
      BY <1>3, <2>1
      DEF Serve, Receive, ReceiveFails, TakeFrame, Receiving, Greet, LoopTop, Fence, Register,
          CommitPlacement, Tally, ReadEpoch, SetAuthority, RereadEpoch, Send, Limit, RequestStop,
          Return, Done, Gone
  <1>4. ASSUME NEW c \in Conns, Peer(c)
        PROVE  \A d \in Conns : thread'[d] \in Gone /\ link'[d] # "open"
    BY <1>4 DEF Peer, Connect, PeerSend, PeerRead, PeerGone, FinalOK
  <1>5. ASSUME NEW e \in 1 .. MaxEpoch, Crash(e) PROVE FALSE
    BY <1>5 DEF Crash, FreshContext
  <1>6. CASE UNCHANGED vars
    BY <1>6 DEF vars, FinalOK
  <1> QED
    BY <1>1, <1>2, <1>3, <1>4, <1>5, <1>6 DEF Next

\* When RunServer returns every thread is joined, no socket is open, and
\* ServerResult counts exactly the placements that became durable while it ran.
THEOREM ResultIsFinal == Spec => []FinishedIsFinal
  <1> DEFINE Inv == Shape /\ CountOK /\ TallyOK /\ FinalOK
  <1>1. Init => Inv
    BY ShapeInit, CountInit, TallyInit
  <1>2. Inv /\ [Next]_vars => Inv'
    BY ShapeNext, CountNext, TallyNext, FinalNext
  <1>3. Inv => FinishedIsFinal
    <2> SUFFICES ASSUME Inv, main = "finished"
                 PROVE  /\ \A c \in Conns : thread[c] \in Gone /\ link[c] # "open"
                        /\ live = 0
                        /\ committed = Len(records) - inherited
      BY DEF FinishedIsFinal
    <2>1. \A c \in Conns : thread[c] \in Gone /\ link[c] # "open"
      BY DEF FinalOK
    <2>2. Serving = {} /\ Uncounted = {}
      BY <2>1 DEF Serving, Uncounted, Gone
    <2> QED
      BY <2>1, <2>2, FS_EmptySet DEF CountOK, TallyOK, Shape, CoreShape
  <1> QED
    BY <1>1, <1>2, <1>3, PTL DEF Spec

-----------------------------------------------------------------------------
(* What a peer sends is what its thread handles, and what it answers is true. *)

\* The byte at position p of what is buffered and then on the wire.
At(b, w, p) == IF p <= Len(b) THEN b[p] ELSE w[p - Len(b)]

\* The buffered and travelling bytes are a beginning of the frames n + 1 .. m of
\* fs, whole frames one after the other: off[i] is where frame i ends.
Offsets(off, fs, n, m) ==
    /\ off \in [n .. m -> Nat] /\ off[n] = 0
    /\ \A i \in (n + 1) .. m : off[i] = off[i - 1] + (HeaderBytes + fs[i].size)
    /\ \A i, j \in n .. m : i <= j => off[i] <= off[j]
Tiled(off, b, w, fs, n, m) ==
    \A i \in (n + 1) .. m : \A k \in 1 .. (HeaderBytes + fs[i].size) :
        off[i - 1] + k <= Len(b) + Len(w) => At(b, w, off[i - 1] + k) = [frame |-> fs[i], at |-> k]
\* The last bytes of them, as many as lost, will never come.
Tiles(b, w, fs, n, m, lost) ==
    \E off \in [n .. m -> Nat] :
        /\ Offsets(off, fs, n, m) /\ Tiled(off, b, w, fs, n, m)
        /\ Len(b) + Len(w) + lost = off[m]
\* b2 and w2 hold the first of the bytes that b and w hold.
Within(b2, w2, b, w) ==
    /\ Len(b2) + Len(w2) <= Len(b) + Len(w)
    /\ \A p \in 1 .. Len(b2) + Len(w2) : At(b2, w2, p) = At(b, w, p)

StreamAt(c) ==
    /\ Len(handled[c]) <= sent[c] /\ sent[c] <= Len(script[c].frames)
    /\ \A i \in 1 .. Len(handled[c]) : handled[c][i] = script[c].frames[i]
    /\ \E lost \in Nat :
          /\ Tiles(buffer[c], wire[c], script[c].frames, Len(handled[c]), sent[c], lost)
          /\ peer[c] # "gone" => lost = 0
    /\ link[c] = "none" => peer[c] = "away"
    /\ peer[c] = "away" => sent[c] = 0

StreamOK == \A c \in Conns : StreamAt(c)

\* RunServer closes a socket only after stop was set.
ClosedOK ==
    /\ main # "wait" => stop
    /\ \A c \in Serving : link[c] = "closed" => stop

\* After an accepted handshake the bound is one EncodeFrame accepts.
BoundAt(c) ==
    /\ thread[c] \in {"top", "recv", "limit"} \cup Placing \cup Setting => MinBound <= bound[c]
    /\ thread[c] = "send" /\ reply[c].kind = "error" /\ reply[c].code # "wire_malformed"
          => MinBound <= bound[c]

\* Reply i answers frame i.
AlignedAt(c) ==
    /\ c \in Serving => Len(replies[c]) <= Len(handled[c])
    /\ thread[c] \in Working \cup {"send"} /\ peer[c] = "open"
          => Len(handled[c]) = Len(replies[c]) + 1
    /\ thread[c] \in {"hello", "recv", "limit"} /\ peer[c] = "open"
          => Len(handled[c]) = Len(replies[c])
    /\ thread[c] = "top" /\ peer[c] = "open" => Len(handled[c]) = Len(replies[c]) \/ stop

\* The order of an acknowledgement of epoch e, whose second epoch is q.
Ordered(r, e, q) == IF r.code = "ok" THEN r.previous <= e /\ e <= q ELSE e < q

EpochAt(c) ==
    /\ thread[c] = "tally" => reply[c].kind = "place_result"
    /\ thread[c] \in {"apply", "reread"} => reply[c].kind = "epoch_ack"
    /\ thread[c] = "apply" => reply[c].code = "ok" /\ reply[c].previous <= fabricEpoch
    /\ thread[c] = "reread" => Ordered(reply[c], Frame(c).epoch, fabricEpoch)
    /\ thread[c] = "send" /\ reply[c].kind = "epoch_ack"
          => /\ Len(handled[c]) > 0
             /\ Ordered(reply[c], Frame(c).epoch, reply[c].epoch)
    /\ \A i \in DOMAIN replies[c] : replies[c][i].kind = "epoch_ack" =>
          /\ i <= Len(handled[c])
          /\ Ordered(replies[c][i], handled[c][i].epoch, replies[c][i].epoch)

AnswersOK == ClosedOK /\ \A c \in Conns : BoundAt(c) /\ AlignedAt(c) /\ EpochAt(c)

\* A thread that has registered an attempt and not yet answered.
Deciding(c) ==
    \/ thread[c] \in {"commit", "tally"}
    \/ thread[c] = "send" /\ reply[c].kind = "place_result"

\* Frame i of c is, or is about to be, answered by a result.
Claim(c, i) ==
    \/ i \in DOMAIN replies[c] /\ replies[c][i].kind = "place_result"
    \/ i = Len(handled[c]) /\ Deciding(c)

\* What a result says of the request it answers.
Truth(code, f, recs, refused) ==
    \/ /\ code = "committed"
       /\ \E n \in DOMAIN recs : recs[n] = [attempt |-> f.attempt, epoch |-> f.expected]
    \/ code \in {"rejected", "fenced"} /\ f.attempt \in refused

InLedger(a, recs) == \E n \in DOMAIN recs : recs[n].attempt = a

LedgerOK ==
    /\ \A n \in DOMAIN records : records[n].attempt \in known
    /\ \A a \in ended : ~InLedger(a, records)

DecisionAt(c) ==
    /\ thread[c] = "commit" => Frame(c).attempt \notin ended /\ ~InLedger(Frame(c).attempt, records)
    /\ thread[c] = "tally" => Truth(reply[c].code, Frame(c), records, ended)
    /\ thread[c] = "send" /\ reply[c].kind = "place_result"
          => Len(handled[c]) > 0 /\ Truth(reply[c].code, Frame(c), records, ended)
    /\ \A i \in DOMAIN replies[c] : replies[c][i].kind = "place_result" =>
          i <= Len(handled[c]) /\ Truth(replies[c][i].code, handled[c][i], records, ended)

OnceOK ==
    \A c, d \in Conns : \A i \in 1 .. Len(handled[c]), j \in 1 .. Len(handled[d]) :
        Claim(c, i) /\ Claim(d, j) /\ handled[c][i].attempt = handled[d][j].attempt
            => c = d /\ i = j

ResultsOK == LedgerOK /\ (\A c \in Conns : DecisionAt(c)) /\ OnceOK

-----------------------------------------------------------------------------
(* The stream.                                                              *)

LEMMA TilesWitness ==
    ASSUME NEW b, NEW w, NEW fs, NEW n, NEW m, NEW lost, NEW off \in [n .. m -> Nat],
           Offsets(off, fs, n, m), Tiled(off, b, w, fs, n, m), Len(b) + Len(w) + lost = off[m]
    PROVE  Tiles(b, w, fs, n, m, lost)
  BY DEF Tiles

LEMMA FrameSize ==
    ASSUME NEW fs \in Seq(Frames), NEW i \in 1 .. Len(fs)
    PROVE  fs[i] \in Frames /\ fs[i].size \in Nat /\ HeaderBytes + fs[i].size \in Nat
  <1>1. fs[i] \in Frames
    BY ElementOfSeq
  <1>2. fs[i].size \in Nat
    BY <1>1 DEF Frames
  <1> QED
    BY <1>1, <1>2, HeaderAssumption

LEMMA TilesEmpty ==
    ASSUME NEW fs, NEW n \in Nat
    PROVE  Tiles(<<>>, <<>>, fs, n, n, 0)
  <1> DEFINE off == [i \in n .. n |-> 0]
  <1>1. off \in [n .. n -> Nat] /\ Offsets(off, fs, n, n) /\ Tiled(off, <<>>, <<>>, fs, n, n)
    BY DEF Offsets, Tiled
  <1>2. Len(<<>>) + Len(<<>>) + 0 = off[n]
    OBVIOUS
  <1> HIDE DEF off
  <1> QED
    BY <1>1, <1>2, TilesWitness

LEMMA PlaceArithmetic ==
    ASSUME NEW x \in Nat, NEW k \in Nat \ {0}, NEW a \in Nat, NEW b \in Nat, NEW c \in Nat,
           NEW d \in Nat, x + k <= a + b, a + b <= c + d
    PROVE  x + k \in 1 .. a + b /\ x + k <= c + d
  OBVIOUS

LEMMA SumIsNat ==
    ASSUME NEW x \in Nat, NEW y \in Nat, NEW z \in Nat
    PROVE  x + y + z \in Nat
  OBVIOUS

\* Bytes that move from the wire to the buffer, or are lost at the end.
LEMMA TilesWithin ==
    ASSUME NEW fs \in Seq(Frames), NEW n \in Nat, NEW m \in Nat, n <= m, m <= Len(fs),
           NEW b \in Seq(Bytes), NEW w \in Seq(Bytes), NEW lost \in Nat,
           NEW b2 \in Seq(Bytes), NEW w2 \in Seq(Bytes), NEW lost2 \in Nat,
           Tiles(b, w, fs, n, m, lost), Within(b2, w2, b, w),
           Len(b2) + Len(w2) + lost2 = Len(b) + Len(w) + lost
    PROVE  Tiles(b2, w2, fs, n, m, lost2)
  <1>1. PICK off \in [n .. m -> Nat] :
            /\ Offsets(off, fs, n, m) /\ Tiled(off, b, w, fs, n, m)
            /\ Len(b) + Len(w) + lost = off[m]
    BY DEF Tiles
  <1>2. off[m] \in Nat /\ Len(b) \in Nat /\ Len(w) \in Nat /\ Len(b2) \in Nat /\ Len(w2) \in Nat
    BY <1>1
  <1>3. Tiled(off, b2, w2, fs, n, m)
    <2> SUFFICES ASSUME NEW i \in (n + 1) .. m, NEW k \in 1 .. (HeaderBytes + fs[i].size),
                        off[i - 1] + k <= Len(b2) + Len(w2)
                 PROVE  At(b2, w2, off[i - 1] + k) = [frame |-> fs[i], at |-> k]
      BY DEF Tiled
    <2>1. off[i - 1] \in Nat /\ k \in Nat \ {0}
      <3>1. i - 1 \in n .. m /\ i \in 1 .. Len(fs)
        OBVIOUS
      <3>2. HeaderBytes + fs[i].size \in Nat
        BY <3>1, FrameSize
      <3> QED
        BY <1>1, <3>1, <3>2
    <2>2. off[i - 1] + k \in 1 .. Len(b2) + Len(w2) /\ off[i - 1] + k <= Len(b) + Len(w)
      <3>1. Len(b2) + Len(w2) <= Len(b) + Len(w)
        BY DEF Within
      <3> QED
        BY <1>2, <2>1, <3>1, PlaceArithmetic
    <2> QED
      BY <1>1, <2>2 DEF Tiled, Within
  <1>4. Len(b2) + Len(w2) + lost2 = off[m]
    BY <1>1, <1>2
  <1> QED
    BY <1>1, <1>2, <1>3, <1>4, TilesWitness

\* recv hands out the first k bytes on the wire.
LEMMA TilesReceive ==
    ASSUME NEW fs \in Seq(Frames), NEW n \in Nat, NEW m \in Nat, n <= m, m <= Len(fs),
           NEW b \in Seq(Bytes), NEW w \in Seq(Bytes), NEW lost \in Nat,
           Tiles(b, w, fs, n, m, lost), NEW k \in 1 .. Len(w)
    PROVE  Tiles(b \o SubSeq(w, 1, k), SubSeq(w, k + 1, Len(w)), fs, n, m, lost)
  <1> DEFINE v == SubSeq(w, 1, k)
             b2 == b \o v
             w2 == SubSeq(w, k + 1, Len(w))
  <1>1. Len(b) \in Nat /\ Len(w) \in Nat /\ k \in Nat /\ k <= Len(w)
    OBVIOUS
  <1>2. v \in Seq(Bytes) /\ Len(v) = k /\ \A i \in 1 .. k : v[i] = w[i]
    BY <1>1
  <1>3. /\ w2 \in Seq(Bytes) /\ Len(w2) = Len(w) - k
        /\ \A i \in 1 .. Len(w) - k : w2[i] = w[k + i]
    BY <1>1
  <1> HIDE DEF v, w2
  <1>4. /\ b2 \in Seq(Bytes) /\ Len(b2) = Len(b) + k
        /\ \A i \in 1 .. Len(b) + k : b2[i] = IF i <= Len(b) THEN b[i] ELSE v[i - Len(b)]
    BY <1>1, <1>2, ConcatProperties
  <1> HIDE DEF b2
  <1>5. Len(b2) + Len(w2) = Len(b) + Len(w)
    BY <1>1, <1>3, <1>4
  <1>6. ASSUME NEW p \in 1 .. Len(b) + Len(w) PROVE At(b2, w2, p) = At(b, w, p)
    <2>1. p \in Nat \ {0} /\ p <= Len(b) + Len(w)
      BY <1>1
    <2>2. CASE p <= Len(b)
      BY <1>1, <1>4, <2>1, <2>2 DEF At
    <2>3. CASE ~(p <= Len(b)) /\ p <= Len(b) + k
      <3>1. p \in 1 .. Len(b) + k /\ p - Len(b) \in 1 .. k
        BY <1>1, <2>1, <2>3
      <3> QED
        BY <1>2, <1>4, <2>3, <3>1 DEF At
    <2>4. CASE ~(p <= Len(b) + k)
      <3>1. /\ p - (Len(b) + k) \in 1 .. Len(w) - k /\ ~(p <= Len(b))
            /\ k + (p - (Len(b) + k)) = p - Len(b)
        BY <1>1, <2>1, <2>4
      <3> QED
        BY <1>3, <1>4, <2>4, <3>1 DEF At
    <2> QED
      BY <2>2, <2>3, <2>4
  <1>7. Len(b2) + Len(w2) <= Len(b) + Len(w)
    BY <1>1, <1>5
  <1>8. Within(b2, w2, b, w)
    BY <1>5, <1>6, <1>7 DEF Within
  <1>9. Tiles(b2, w2, fs, n, m, lost)
    BY <1>3, <1>4, <1>5, <1>8, TilesWithin
  <1> QED
    BY <1>9 DEF b2, w2, v

\* A connection breaks and its bytes are gone.
LEMMA TilesLost ==
    ASSUME NEW fs \in Seq(Frames), NEW n \in Nat, NEW m \in Nat, n <= m, m <= Len(fs),
           NEW b \in Seq(Bytes), NEW w \in Seq(Bytes), NEW lost \in Nat,
           Tiles(b, w, fs, n, m, lost)
    PROVE  Tiles(<<>>, <<>>, fs, n, m, Len(b) + Len(w) + lost)
  <1> DEFINE e == <<>>
  <1>1. e \in Seq(Bytes) /\ Len(e) = 0 /\ Len(b) \in Nat /\ Len(w) \in Nat
    OBVIOUS
  <1> HIDE DEF e
  <1>2. Within(e, e, b, w)
    BY <1>1 DEF Within
  <1> DEFINE more == Len(b) + Len(w) + lost
  <1>3. Tiles(e, e, fs, n, m, more)
    <2>1. more \in Nat /\ Len(e) + Len(e) + more = Len(b) + Len(w) + lost
      BY <1>1
    <2> HIDE DEF more
    <2> QED
      BY <1>1, <1>2, <2>1, TilesWithin
  <1> QED
    BY <1>3 DEF e, more

LEMMA TilesAppend ==
    ASSUME NEW fs \in Seq(Frames), NEW n \in Nat, NEW m \in Nat, n <= m, m < Len(fs),
           NEW b \in Seq(Bytes), NEW w \in Seq(Bytes), Tiles(b, w, fs, n, m, 0)
    PROVE  Tiles(b, w \o EncodeFrame(fs[m + 1]), fs, n, m + 1, 0)
  <1>1. PICK off \in [n .. m -> Nat] :
            /\ Offsets(off, fs, n, m) /\ Tiled(off, b, w, fs, n, m)
            /\ Len(b) + Len(w) + 0 = off[m]
    BY DEF Tiles
  <1> DEFINE f == fs[m + 1]
             t == HeaderBytes + f.size
             new == [i \in n .. (m + 1) |-> IF i <= m THEN off[i] ELSE off[m] + t]
             w2 == w \o EncodeFrame(f)
  <1>2. f \in Frames /\ t \in Nat
    BY FrameSize
  <1>3. EncodeFrame(f) \in Seq(Bytes) /\ Len(EncodeFrame(f)) = t
    BY <1>2, EncodedIsBytes
  <1>4. \A k \in 1 .. t : EncodeFrame(f)[k] = [frame |-> f, at |-> k]
    BY DEF EncodeFrame
  <1>5. /\ Len(w2) = Len(w) + t
        /\ \A p \in 1 .. Len(w) : w2[p] = w[p]
        /\ \A k \in 1 .. t : w2[Len(w) + k] = EncodeFrame(f)[k]
    <2> HIDE DEF f, t
    <2>1. Len(w) \in Nat
      OBVIOUS
    <2>2. /\ Len(w2) = Len(w) + Len(EncodeFrame(f))
          /\ \A p \in 1 .. Len(w) + Len(EncodeFrame(f)) :
                 w2[p] = IF p <= Len(w) THEN w[p] ELSE EncodeFrame(f)[p - Len(w)]
      BY <1>3, ConcatProperties
    <2> HIDE DEF w2
    <2>3. \A k \in 1 .. t : w2[Len(w) + k] = EncodeFrame(f)[k]
      <3> TAKE k \in 1 .. t
      <3>1. Len(w) + k \in 1 .. Len(w) + t /\ ~(Len(w) + k <= Len(w)) /\ (Len(w) + k) - Len(w) = k
        BY <1>2, <2>1
      <3> QED
        BY <1>3, <2>2, <3>1
    <2>4. \A p \in 1 .. Len(w) : w2[p] = w[p]
      BY <1>2, <1>3, <2>1, <2>2
    <2> QED
      BY <1>3, <2>2, <2>3, <2>4
  <1>6. /\ \A i \in n .. m : off[i] \in Nat
        /\ off[n] = 0
        /\ \A i \in (n + 1) .. m : off[i] = off[i - 1] + (HeaderBytes + fs[i].size)
        /\ \A i, j \in n .. m : i <= j => off[i] <= off[j]
    BY <1>1 DEF Offsets
  <1>0. Len(b) + Len(w) = off[m]
    BY <1>1
  <1>7. /\ \A i \in n .. m : new[i] = off[i]
        /\ new[m + 1] = off[m] + t
    <2> HIDE DEF t
    <2> QED
      OBVIOUS
  <1>8. new \in [n .. (m + 1) -> Nat]
    BY <1>2, <1>6
  <1> HIDE DEF new, w2, t
  <1>9. Offsets(new, fs, n, m + 1)
    <2>1. new[n] = 0
      BY <1>6, <1>7
    <2>2. \A i \in (n + 1) .. (m + 1) : new[i] = new[i - 1] + (HeaderBytes + fs[i].size)
      <3> TAKE i \in (n + 1) .. (m + 1)
      <3>1. CASE i = m + 1
        BY <1>7, <3>1 DEF t
      <3>2. CASE i # m + 1
        BY <1>6, <1>7, <3>2
      <3> QED
        BY <3>1, <3>2
    <2>3. \A i, j \in n .. (m + 1) : i <= j => new[i] <= new[j]
      <3> SUFFICES ASSUME NEW i \in n .. (m + 1), NEW j \in n .. (m + 1), i <= j
                   PROVE  new[i] <= new[j]
        OBVIOUS
      <3>1. CASE j <= m
        <4>1. i \in n .. m /\ j \in n .. m
          BY <3>1
        <4> QED
          BY <1>6, <1>7, <4>1
      <3>2. CASE j = m + 1 /\ i <= m
        <4>1. new[i] = off[i] /\ new[j] = off[m] + t /\ off[i] <= off[m]
          BY <1>6, <1>7, <3>2
        <4> QED
          BY <1>2, <1>6, <3>2, <4>1
      <3>3. CASE i = m + 1 /\ j = m + 1
        BY <1>8, <3>3
      <3> QED
        BY <3>1, <3>2, <3>3
    <2> QED
      BY <1>8, <2>1, <2>2, <2>3 DEF Offsets
  <1>10. Tiled(new, b, w2, fs, n, m + 1)
    <2> SUFFICES ASSUME NEW i \in (n + 1) .. (m + 1), NEW k \in 1 .. (HeaderBytes + fs[i].size)
                 PROVE  At(b, w2, new[i - 1] + k) = [frame |-> fs[i], at |-> k]
      BY DEF Tiled
    <2>0. Len(b) \in Nat /\ Len(w) \in Nat
      OBVIOUS
    <2>1. CASE i = m + 1
      <3>1. new[i - 1] = Len(b) + Len(w) /\ k \in 1 .. t
        BY <1>1, <1>7, <2>0, <2>1 DEF t
      <3>2. At(b, w2, new[i - 1] + k) = w2[Len(w) + k]
        BY <2>0, <3>1 DEF At
      <3> QED
        BY <1>4, <1>5, <2>1, <3>1, <3>2
    <2>2. CASE i # m + 1
      <3>1. i \in (n + 1) .. m /\ new[i - 1] = off[i - 1] /\ off[i - 1] \in Nat
        BY <1>6, <1>7, <2>2
      <3>2. off[i - 1] + k <= off[i] /\ off[i] <= off[m]
        <4>1. off[i] = off[i - 1] + (HeaderBytes + fs[i].size)
          BY <1>6, <3>1
        <4>2. off[i] <= off[m]
          BY <1>6, <3>1
        <4>3. off[i] \in Nat /\ off[m] \in Nat /\ i \in 1 .. Len(fs)
          BY <1>6, <3>1
        <4>4. HeaderBytes + fs[i].size \in Nat
          BY <4>3, FrameSize
        <4> QED
          BY <3>1, <4>1, <4>2, <4>3, <4>4
      <3>5. off[i - 1] \in Nat /\ off[i] \in Nat /\ off[m] \in Nat /\ k \in Nat
        <4>1. i \in 1 .. Len(fs)
          BY <3>1
        <4>2. HeaderBytes + fs[i].size \in Nat
          BY <4>1, FrameSize
        <4> QED
          BY <1>6, <3>1, <4>2
      <3>3. At(b, w, off[i - 1] + k) = [frame |-> fs[i], at |-> k]
        <4>1. off[i - 1] + k <= Len(b) + Len(w)
          BY <1>0, <3>2, <3>5
        <4> QED
          BY <1>1, <3>1, <4>1 DEF Tiled
      <3>4. At(b, w2, off[i - 1] + k) = At(b, w, off[i - 1] + k)
        <4>1. off[i - 1] + k <= Len(b) + Len(w)
          BY <1>0, <3>2, <3>5
        <4>2. off[i - 1] + k \in Nat
          BY <3>1
        <4>3. ~(off[i - 1] + k <= Len(b)) => (off[i - 1] + k) - Len(b) \in 1 .. Len(w)
          BY <2>0, <4>1, <4>2
        <4> QED
          BY <1>5, <4>3 DEF At
      <3> QED
        BY <3>1, <3>3, <3>4
    <2> QED
      BY <2>1, <2>2
  <1>11. Len(b) + Len(w2) = new[m + 1]
    BY <1>1, <1>2, <1>5, <1>7
  <1> QED
    <2>1. Len(b) + Len(w2) + 0 = new[m + 1]
      BY <1>2, <1>5, <1>11
    <2>2. Tiles(b, w2, fs, n, m + 1, 0)
      BY <1>8, <1>9, <1>10, <2>1, TilesWitness
    <2> QED
      BY <2>2 DEF w2

\* The first buffered byte is the first of the next frame.
LEMMA TilesHead ==
    ASSUME NEW fs \in Seq(Frames), NEW n \in Nat, NEW m \in Nat, n <= m, m <= Len(fs),
           NEW b \in Seq(Bytes), NEW w \in Seq(Bytes), NEW lost \in Nat,
           Tiles(b, w, fs, n, m, lost), Len(b) > 0
    PROVE  n < m /\ b[1].frame = fs[n + 1]
  <1>1. PICK off \in [n .. m -> Nat] :
            /\ Offsets(off, fs, n, m) /\ Tiled(off, b, w, fs, n, m)
            /\ Len(b) + Len(w) + lost = off[m]
    BY DEF Tiles
  <1>2. Len(b) \in Nat /\ Len(w) \in Nat /\ off[n] = 0 /\ off[m] \in Nat
    BY <1>1 DEF Offsets
  <1>3. n < m
    BY <1>1, <1>2
  <1>4. 1 \in 1 .. (HeaderBytes + fs[n + 1].size)
    <2>1. fs[n + 1].size \in Nat
      BY <1>3, FrameSize
    <2> QED
      BY <2>1, HeaderAssumption
  <1>5. At(b, w, 1) = [frame |-> fs[n + 1], at |-> 1]
    <2>1. n + 1 \in (n + 1) .. m /\ off[(n + 1) - 1] + 1 = 1 /\ 1 <= Len(b) + Len(w)
      BY <1>2, <1>3
    <2> QED
      BY <1>1, <1>4, <2>1 DEF Tiled
  <1> QED
    BY <1>2, <1>3, <1>5 DEF At

LEMMA ShiftArithmetic ==
    ASSUME NEW t \in Nat, NEW x \in Nat, NEW y \in Nat, NEW z \in Nat
    PROVE  x = y + z => x - t = (y - t) + z
  OBVIOUS

\* b2 is b without its first t bytes.
Shifted(b2, b, t) ==
    t <= Len(b) /\ Len(b2) = Len(b) - t /\ \A p \in 1 .. Len(b) - t : b2[p] = b[t + p]

LEMMA AtShift ==
    ASSUME NEW b \in Seq(Bytes), NEW b2 \in Seq(Bytes), NEW w \in Seq(Bytes),
           NEW t \in Nat, Shifted(b2, b, t)
    PROVE  \A q \in Nat \ {0} : At(b2, w, q) = At(b, w, t + q)
  <1> USE DEF Shifted
  <1> TAKE q \in Nat \ {0}
  <1>1. Len(b) \in Nat
    OBVIOUS
  <1>2. CASE q <= Len(b2)
    <2>1. q \in 1 .. Len(b) - t /\ t + q <= Len(b)
      BY <1>1, <1>2
    <2> QED
      BY <1>2, <2>1 DEF At
  <1>3. CASE ~(q <= Len(b2))
    <2>1. ~(t + q <= Len(b)) /\ (t + q) - Len(b) = q - Len(b2)
      BY <1>1, <1>3
    <2> QED
      BY <1>3, <2>1 DEF At
  <1> QED
    BY <1>2, <1>3

\* Taking a whole frame from the front of the buffer.
LEMMA TilesTake ==
    ASSUME NEW fs \in Seq(Frames), NEW n \in Nat, NEW m \in Nat, n < m, m <= Len(fs),
           NEW b \in Seq(Bytes), NEW w \in Seq(Bytes), NEW lost \in Nat,
           Tiles(b, w, fs, n, m, lost),
           HeaderBytes + fs[n + 1].size <= Len(b)
    PROVE  Tiles(SubSeq(b, HeaderBytes + fs[n + 1].size + 1, Len(b)), w, fs, n + 1, m, lost)
  <1>1. PICK off \in [n .. m -> Nat] :
            /\ Offsets(off, fs, n, m) /\ Tiled(off, b, w, fs, n, m)
            /\ Len(b) + Len(w) + lost = off[m]
    BY DEF Tiles
  <1> DEFINE t == HeaderBytes + fs[n + 1].size
             b2 == SubSeq(b, t + 1, Len(b))
             new == [i \in (n + 1) .. m |-> off[i] - t]
  <1>2. t \in Nat /\ Len(b) \in Nat /\ Len(w) \in Nat
    BY FrameSize
  <1>3. /\ \A i \in n .. m : off[i] \in Nat
        /\ off[n] = 0
        /\ \A i \in (n + 1) .. m : off[i] = off[i - 1] + (HeaderBytes + fs[i].size)
        /\ \A i, j \in n .. m : i <= j => off[i] <= off[j]
    BY <1>1 DEF Offsets
  <1>4. off[n + 1] = t /\ \A i \in (n + 1) .. m : t <= off[i]
    <2>1. n + 1 \in (n + 1) .. m /\ n + 1 \in n .. m /\ (n + 1) - 1 = n
      OBVIOUS
    <2>2. off[n + 1] = off[n] + t
      BY <1>3, <2>1
    <2>3. off[n + 1] = t
      BY <1>2, <1>3, <2>2
    <2> HIDE DEF t
    <2>4. \A i \in (n + 1) .. m : off[n + 1] <= off[i]
      BY <1>3, <2>1
    <2> QED
      BY <2>3, <2>4
  <1>5. \A i \in (n + 1) .. m : new[i] = off[i] - t
    OBVIOUS
  <1>6. new \in [(n + 1) .. m -> Nat]
    <2> HIDE DEF t
    <2>1. \A i \in (n + 1) .. m : off[i] - t \in Nat
      BY <1>2, <1>3, <1>4
    <2> QED
      BY <2>1
  <1>7. /\ b2 \in Seq(Bytes) /\ Len(b2) = Len(b) - t
        /\ \A p \in 1 .. Len(b) - t : b2[p] = b[t + p]
    <2> HIDE DEF t
    <2>1. t + 1 \in Int /\ Len(b) \in Int /\ \A i \in t + 1 .. Len(b) : b[i] \in Bytes
      BY <1>2, ElementOfSeq
    <2>2. /\ b2 \in Seq(Bytes)
          /\ Len(b2) = IF t + 1 <= Len(b) THEN Len(b) - (t + 1) + 1 ELSE 0
          /\ \A i \in 1 .. Len(b) - (t + 1) + 1 : b2[i] = b[(t + 1) + i - 1]
      <3>1. ASSUME NEW q \in Int, \A i \in q .. Len(b) : b[i] \in Bytes
            PROVE  /\ SubSeq(b, q, Len(b)) \in Seq(Bytes)
                   /\ Len(SubSeq(b, q, Len(b))) = IF q <= Len(b) THEN Len(b) - q + 1 ELSE 0
                   /\ \A i \in 1 .. Len(b) - q + 1 : SubSeq(b, q, Len(b))[i] = b[q + i - 1]
        BY <2>1, <3>1, SubSeqProperties
      <3> QED
        BY <2>1, <3>1
    <2>3. t <= Len(b)
      BY DEF t
    <2> HIDE DEF b2
    <2>4. Len(b2) = Len(b) - t
      <3>1. CASE t = Len(b)
        BY <1>2, <2>2, <3>1
      <3>2. CASE t + 1 <= Len(b)
        BY <1>2, <2>2, <3>2
      <3> QED
        BY <1>2, <2>3, <3>1, <3>2
    <2>5. \A p \in 1 .. Len(b) - t : b2[p] = b[t + p]
      <3> TAKE p \in 1 .. Len(b) - t
      <3>1. p \in 1 .. Len(b) - (t + 1) + 1 /\ (t + 1) + p - 1 = t + p
        BY <1>2
      <3> QED
        BY <2>2, <3>1
    <2> QED
      BY <2>2, <2>4, <2>5
  <1>8. t <= Len(b)
    OBVIOUS
  <1> HIDE DEF new, b2, t
  <1>10. \A x, y, z \in Nat : x = y + z => x - t = (y - t) + z
    BY <1>2, ShiftArithmetic
  <1>9. Offsets(new, fs, n + 1, m)
    <2>1. new[n + 1] = 0
      BY <1>2, <1>4, <1>5
    <2>2. \A i \in ((n + 1) + 1) .. m : new[i] = new[i - 1] + (HeaderBytes + fs[i].size)
      <3> TAKE i \in ((n + 1) + 1) .. m
      <3>1. i \in (n + 1) .. m /\ i - 1 \in (n + 1) .. m /\ i \in 1 .. Len(fs) /\ i \in n .. m
            /\ i - 1 \in n .. m
        OBVIOUS
      <3>2. HeaderBytes + fs[i].size \in Nat
        BY <3>1, FrameSize
      <3>3. off[i] = off[i - 1] + (HeaderBytes + fs[i].size)
        BY <1>3, <3>1
      <3>4. off[i] \in Nat /\ off[i - 1] \in Nat
        BY <1>3, <3>1
      <3>5. new[i] = off[i] - t /\ new[i - 1] = off[i - 1] - t
        BY <1>5, <3>1
      <3> QED
        <4>1. off[i] - t = (off[i - 1] - t) + (HeaderBytes + fs[i].size)
          BY <1>10, <3>2, <3>3, <3>4
        <4> QED
          BY <3>5, <4>1
    <2>3. \A i, j \in (n + 1) .. m : i <= j => new[i] <= new[j]
      <3> SUFFICES ASSUME NEW i \in (n + 1) .. m, NEW j \in (n + 1) .. m, i <= j
                   PROVE  new[i] <= new[j]
        OBVIOUS
      <3>1. i \in n .. m /\ j \in n .. m
        OBVIOUS
      <3>2. off[i] <= off[j] /\ off[i] \in Nat /\ off[j] \in Nat
        BY <1>3, <3>1
      <3> QED
        BY <1>2, <1>5, <3>2
    <2> QED
      BY <1>6, <2>1, <2>2, <2>3 DEF Offsets
  <1>11. \A x, y \in Nat, z \in Nat \ {0} : x = y - t => At(b2, w, x + z) = At(b, w, y + z)
    <2>1. Shifted(b2, b, t)
      BY <1>7, <1>8 DEF Shifted
    <2>2. \A q \in Nat \ {0} : At(b2, w, q) = At(b, w, t + q)
      BY <1>2, <1>7, <2>1, AtShift
    <2> SUFFICES ASSUME NEW x \in Nat, NEW y \in Nat, NEW z \in Nat \ {0}, x = y - t
                 PROVE  At(b2, w, x + z) = At(b, w, y + z)
      OBVIOUS
    <2>3. x + z \in Nat \ {0} /\ t + (x + z) = y + z
      BY <1>2
    <2> QED
      BY <2>2, <2>3
  <1>12. Tiled(new, b2, w, fs, n + 1, m)
    <2> SUFFICES ASSUME NEW i \in ((n + 1) + 1) .. m, NEW k \in 1 .. (HeaderBytes + fs[i].size),
                        new[i - 1] + k <= Len(b2) + Len(w)
                 PROVE  At(b2, w, new[i - 1] + k) = [frame |-> fs[i], at |-> k]
      BY DEF Tiled
    <2>1. i \in (n + 1) .. m /\ i - 1 \in (n + 1) .. m /\ i - 1 \in n .. m /\ i \in 1 .. Len(fs)
      OBVIOUS
    <2>2. /\ off[i - 1] \in Nat /\ new[i - 1] = off[i - 1] - t /\ new[i - 1] \in Nat
          /\ k \in Nat \ {0}
      <3>1. HeaderBytes + fs[i].size \in Nat
        BY <2>1, FrameSize
      <3>2. k \in Nat \ {0}
        BY <3>1
      <3>3. off[i - 1] \in Nat
        BY <1>3, <2>1
      <3>4. new[i - 1] = off[i - 1] - t
        BY <1>5, <2>1
      <3>5. new[i - 1] \in Nat
        BY <1>6, <2>1
      <3> QED
        BY <3>2, <3>3, <3>4, <3>5
    <2>3. off[i - 1] + k <= Len(b) + Len(w)
      <3>1. \A o, q, l, v, u \in Nat : (o - u) + q <= (l - u) + v => o + q <= l + v
        OBVIOUS
      <3>2. (off[i - 1] - t) + k <= (Len(b) - t) + Len(w)
        BY <1>7, <2>2
      <3> QED
        BY <1>2, <2>2, <3>1, <3>2
    <2>4. At(b, w, off[i - 1] + k) = [frame |-> fs[i], at |-> k]
      BY <1>1, <2>1, <2>3 DEF Tiled
    <2>5. At(b2, w, new[i - 1] + k) = At(b, w, off[i - 1] + k)
      BY <1>11, <2>2
    <2> QED
      BY <2>4, <2>5
  <1>13. Len(b2) + Len(w) + lost = new[m]
    <2>1. new[m] = off[m] - t /\ off[m] \in Nat
      BY <1>3, <1>5
    <2> QED
      BY <1>1, <1>2, <1>7, <2>1
  <1>14. Tiles(b2, w, fs, n + 1, m, lost)
    BY <1>6, <1>9, <1>12, <1>13, TilesWitness
  <1> QED
    BY <1>14 DEF b2, t

LEMMA StreamInit == Init => StreamOK
  <1> SUFFICES ASSUME Init, NEW c \in Conns PROVE StreamAt(c)
    BY DEF StreamOK
  <1>1. /\ handled[c] = <<>> /\ sent[c] = 0 /\ buffer[c] = <<>> /\ wire[c] = <<>>
        /\ peer[c] = "away" /\ script \in Casts
    BY DEF Init
  <1>2. script[c].frames \in Seq(Frames)
    BY <1>1, CastAssumption
  <1>3. Tiles(<<>>, <<>>, script[c].frames, 0, 0, 0)
    BY TilesEmpty
  <1>4. Len(handled[c]) = 0 /\ Len(handled[c]) <= 0 /\ 0 <= Len(script[c].frames)
    BY <1>1, <1>2
  <1>5. \A i \in 1 .. Len(handled[c]) : handled[c][i] = script[c].frames[i]
    BY <1>4
  <1>6. Tiles(buffer[c], wire[c], script[c].frames, Len(handled[c]), sent[c], 0)
    BY <1>1, <1>3, <1>4
  <1> QED
    BY <1>1, <1>4, <1>5, <1>6 DEF StreamAt

\* What is known of a connection's stream.
LEMMA StreamTypes ==
    ASSUME Shape, NEW c \in Conns
    PROVE  /\ script[c].frames \in Seq(Frames) /\ sent[c] \in Nat
           /\ buffer[c] \in Seq(Bytes) /\ wire[c] \in Seq(Bytes) /\ handled[c] \in Seq(Frames)
           /\ Len(handled[c]) \in Nat /\ Len(buffer[c]) \in Nat /\ Len(wire[c]) \in Nat
           /\ Len(script[c].frames) \in Nat
  <1>1. script[c].frames \in Seq(Frames)
    BY CastAssumption DEF Shape, PeerShape
  <1>2. handled[c] \in Seq(Frames) /\ buffer[c] \in Seq(Bytes) /\ wire[c] \in Seq(Bytes)
    BY DEF Shape, PeerShape, LinkShape
  <1> QED
    BY <1>1, <1>2 DEF Shape, PeerShape

LEMMA StreamStay ==
    ASSUME NEW c \in Conns, StreamAt(c),
           handled'[c] = handled[c], sent'[c] = sent[c], script' = script, peer'[c] = peer[c],
           buffer'[c] = buffer[c], wire'[c] = wire[c],
           link'[c] = "none" => link[c] = "none"
    PROVE  StreamAt(c)'
  BY DEF StreamAt

LEMMA StreamReceive ==
    ASSUME Shape, StreamOK, NEW c \in Conns, NEW k \in 1 .. Len(wire[c]), Receive(c, k)
    PROVE  StreamOK'
  <1> SUFFICES ASSUME NEW d \in Conns PROVE StreamAt(d)'
    BY DEF StreamOK
  <1>1. CASE d # c
    BY <1>1, StreamStay DEF StreamOK, Receive, Shape, PeerShape, LinkShape
  <1>2. CASE d = c
    <2>1. /\ buffer'[c] = buffer[c] \o SubSeq(wire[c], 1, k)
          /\ wire'[c] = SubSeq(wire[c], k + 1, Len(wire[c]))
      BY DEF Receive, Shape, PeerShape, LinkShape
    <2>0. StreamAt(c)
      BY DEF StreamOK
    <2>2. PICK lost \in Nat :
              /\ Tiles(buffer[c], wire[c], script[c].frames, Len(handled[c]), sent[c], lost)
              /\ peer[c] # "gone" => lost = 0
      BY <2>0 DEF StreamAt
    <2>3. Len(handled[c]) <= sent[c] /\ sent[c] <= Len(script[c].frames)
      BY <2>0 DEF StreamAt
    <2>4. Tiles(buffer'[c], wire'[c], script[c].frames, Len(handled[c]), sent[c], lost)
      <3>1. /\ script[c].frames \in Seq(Frames) /\ sent[c] \in Nat /\ Len(handled[c]) \in Nat
            /\ buffer[c] \in Seq(Bytes) /\ wire[c] \in Seq(Bytes)
        BY StreamTypes
      <3>2. Tiles(buffer[c] \o SubSeq(wire[c], 1, k), SubSeq(wire[c], k + 1, Len(wire[c])),
                  script[c].frames, Len(handled[c]), sent[c], lost)
        BY <2>2, <2>3, <3>1, TilesReceive
      <3> QED
        BY <2>1, <3>2
    <2> QED
      BY <1>2, <2>0, <2>2, <2>4 DEF StreamAt, Receive
  <1> QED
    BY <1>1, <1>2

LEMMA StreamTake ==
    ASSUME Shape, StreamOK, NEW c \in Conns, TakeFrame(c)
    PROVE  StreamOK'
  <1> SUFFICES ASSUME NEW d \in Conns PROVE StreamAt(d)'
    BY DEF StreamOK
  <1>1. CASE d # c
    BY <1>1, StreamStay DEF StreamOK, TakeFrame, Shape, PeerShape, LinkShape
  <1>2. CASE d = c
    <2> DEFINE n == Len(handled[c])
               fs == script[c].frames
               f == NextFrame(buffer[c])
    <2>1. /\ fs \in Seq(Frames) /\ n \in Nat /\ sent[c] \in Nat /\ StreamAt(c)
          /\ buffer[c] \in Seq(Bytes) /\ wire[c] \in Seq(Bytes) /\ Len(buffer[c]) \in Nat
      BY StreamTypes DEF StreamOK
    <2>2. /\ f \in Frames /\ HeaderBytes + f.size <= Len(buffer[c])
      BY NextNeedsFrame DEF TakeFrame, Shape, LinkShape
    <2>3. Len(buffer[c]) > 0
      BY <2>1, <2>2, HeaderAssumption DEF Frames
    <2>10. PICK lost \in Nat :
              /\ Tiles(buffer[c], wire[c], script[c].frames, Len(handled[c]), sent[c], lost)
              /\ peer[c] # "gone" => lost = 0
      BY <2>1 DEF StreamAt
    <2>4. n < sent[c] /\ f = fs[n + 1]
      BY <2>1, <2>3, <2>10, TilesHead DEF StreamAt, NextFrame
    <2>5. Tiles(Rest(buffer[c]), wire[c], fs, n + 1, sent[c], lost)
      BY <2>1, <2>2, <2>4, <2>10, TilesTake DEF StreamAt, Rest
    <2>6. /\ handled'[c] = Append(handled[c], f) /\ buffer'[c] = Rest(buffer[c])
          /\ UNCHANGED <<script, sent, wire, peer, link>>
      BY DEF TakeFrame, Shape, LinkShape
    <2> HIDE DEF f
    <2>7. /\ Len(handled'[c]) = n + 1 /\ handled'[c][n + 1] = f
          /\ \A i \in 1 .. n : handled'[c][i] = handled[c][i]
      BY <2>2, <2>6, StreamTypes, AppendProperties
    <2>8. \A i \in 1 .. n + 1 : handled'[c][i] = fs[i]
      <3> TAKE i \in 1 .. n + 1
      <3>1. CASE i = n + 1
        BY <2>4, <2>7, <3>1
      <3>2. CASE i # n + 1
        BY <2>1, <2>7, <3>2 DEF StreamAt
      <3> QED
        BY <3>1, <3>2
    <2>9. n + 1 <= sent[c]
      BY <2>1, <2>4
    <2> HIDE DEF n
    <2> QED
      BY <1>2, <2>1, <2>5, <2>6, <2>7, <2>8, <2>9, <2>10 DEF StreamAt
  <1> QED
    BY <1>1, <1>2

LEMMA StreamPeer ==
    ASSUME Shape, StreamOK, NEW c \in Conns, Peer(c)
    PROVE  StreamOK'
  <1> SUFFICES ASSUME NEW d \in Conns PROVE StreamAt(d)'
    BY DEF StreamOK
  <1>0. StreamAt(c) /\ StreamAt(d)
    BY DEF StreamOK
  <1>1. CASE d # c
    BY <1>0, <1>1, StreamStay
    DEF Peer, Connect, PeerSend, PeerRead, PeerGone, Shape, PeerShape, LinkShape
  <1>2. CASE d = c /\ Connect(c)
    <2>1. /\ peer[c] = "away" /\ peer'[c] = "open" /\ link'[c] = "backlog"
          /\ UNCHANGED <<script, sent, wire, buffer, handled>>
      BY <1>2 DEF Connect, Shape, PeerShape, LinkShape
    <2> QED
      BY <1>0, <1>2, <2>1 DEF StreamAt
  <1>3. CASE d = c /\ PeerSend(c)
    <2>1. /\ peer[c] = "open" /\ sent[c] < Len(script[c].frames) /\ sent'[c] = sent[c] + 1
          /\ wire'[c] = wire[c] \o EncodeFrame(script[c].frames[sent[c] + 1])
          /\ UNCHANGED <<script, peer, link, buffer, handled>>
      BY <1>3 DEF PeerSend, Shape, PeerShape
    <2>2. Tiles(buffer[c], wire'[c], script[c].frames, Len(handled[c]), sent[c] + 1, 0)
      <3>2. Tiles(buffer[c], wire[c], script[c].frames, Len(handled[c]), sent[c], 0)
        BY <1>0, <2>1 DEF StreamAt
      <3>3. Len(handled[c]) <= sent[c]
        BY <1>0 DEF StreamAt
      <3> QED
        BY <2>1, <3>2, <3>3, StreamTypes, TilesAppend
    <2>3. sent[c] + 1 <= Len(script[c].frames) /\ Len(handled[c]) <= sent[c] + 1
      BY <1>0, <2>1, StreamTypes DEF StreamAt
    <2> QED
      BY <1>0, <1>3, <2>1, <2>2, <2>3 DEF StreamAt
  <1>4. CASE d = c /\ PeerRead(c)
    BY <1>0, <1>4, StreamStay DEF PeerRead
  <1>5. ASSUME NEW k \in 0 .. Len(wire[c]), d = c, PeerGone(c, k) PROVE StreamAt(d)'
    <2> DEFINE w2 == SubSeq(wire[c], 1, k)
    <2>1. /\ peer[c] = "open" /\ peer'[c] = "gone" /\ wire'[c] = w2
          /\ UNCHANGED <<script, sent, link, buffer, handled>>
      BY <1>5 DEF PeerGone, Shape, PeerShape
    <2>2. /\ w2 \in Seq(Bytes) /\ Len(w2) = k
          /\ \A i \in 1 .. k : w2[i] = wire[c][i]
      <3>1. k \in Nat /\ wire[c] \in Seq(Bytes) /\ Len(wire[c]) \in Nat /\ k <= Len(wire[c])
        BY StreamTypes
      <3> QED
        BY <3>1
    <2> HIDE DEF w2
    <2>3. k \in Nat /\ Len(buffer[c]) \in Nat /\ Len(wire[c]) \in Nat /\ k <= Len(wire[c])
      BY StreamTypes
    <2>4. Len(buffer[c]) + Len(w2) <= Len(buffer[c]) + Len(wire[c])
      BY <2>2, <2>3
    <2>5. \A p \in 1 .. Len(buffer[c]) + Len(w2) : At(buffer[c], w2, p) = At(buffer[c], wire[c], p)
      <3> TAKE p \in 1 .. Len(buffer[c]) + Len(w2)
      <3>1. ~(p <= Len(buffer[c])) => p - Len(buffer[c]) \in 1 .. k
        BY <2>2, <2>3
      <3> QED
        BY <2>2, <3>1 DEF At
    <2>6. PICK lost \in Nat :
              Tiles(buffer[c], wire[c], script[c].frames, Len(handled[c]), sent[c], lost)
      BY <1>0 DEF StreamAt
    <2> DEFINE more == lost + (Len(wire[c]) - k)
    <2>7. more \in Nat /\ Len(buffer[c]) + Len(w2) + more = Len(buffer[c]) + Len(wire[c]) + lost
      <3>1. \A x, y, z \in Nat : k <= y => lost + (y - k) \in Nat /\ x + k + (lost + (y - k)) = x + y + lost
        BY <2>3
      <3> QED
        BY <2>2, <2>3, <3>1
    <2> HIDE DEF more
    <2>8. Within(buffer[c], w2, buffer[c], wire[c])
      BY <2>4, <2>5 DEF Within
    <2>9. Len(handled[c]) <= sent[c] /\ sent[c] <= Len(script[c].frames)
      BY <1>0 DEF StreamAt
    <2>10. Tiles(buffer[c], w2, script[c].frames, Len(handled[c]), sent[c], more)
      BY <2>2, <2>6, <2>7, <2>8, <2>9, StreamTypes, TilesWithin
    <2> QED
      BY <1>0, <1>5, <2>1, <2>7, <2>10 DEF StreamAt
  <1> QED
    BY <1>1, <1>2, <1>3, <1>4, <1>5 DEF Peer

LEMMA StreamCrash ==
    ASSUME Shape, StreamOK, NEW e \in 1 .. MaxEpoch, Crash(e)
    PROVE  StreamOK'
  <1> SUFFICES ASSUME NEW c \in Conns PROVE StreamAt(c)'
    BY DEF StreamOK
  <1>1. /\ wire'[c] = <<>> /\ buffer'[c] = <<>> /\ UNCHANGED <<script, sent, handled>>
        /\ peer'[c] = IF link[c] = "none" THEN peer[c] ELSE "gone"
        /\ link'[c] = IF link[c] = "none" THEN "none" ELSE "closed"
    BY DEF Crash
  <1>2. StreamAt(c)
    BY DEF StreamOK
  <1>3. CASE link[c] = "none"
    <2>1. sent[c] = 0 /\ Len(handled[c]) = 0
      BY <1>2, <1>3, StreamTypes DEF StreamAt
    <2>2. Tiles(<<>>, <<>>, script[c].frames, 0, 0, 0)
      BY TilesEmpty
    <2> QED
      BY <1>1, <1>2, <1>3, <2>1, <2>2 DEF StreamAt
  <1>4. CASE link[c] # "none"
    <2>1. PICK lost \in Nat :
              Tiles(buffer[c], wire[c], script[c].frames, Len(handled[c]), sent[c], lost)
      BY <1>2 DEF StreamAt
    <2>2. Len(handled[c]) <= sent[c] /\ sent[c] <= Len(script[c].frames)
      BY <1>2 DEF StreamAt
    <2> DEFINE more == Len(buffer[c]) + Len(wire[c]) + lost
    <2>3. more \in Nat
      <3>1. Len(buffer[c]) \in Nat /\ Len(wire[c]) \in Nat
        BY StreamTypes
      <3> QED
        BY <3>1, SumIsNat
    <2>4. Tiles(<<>>, <<>>, script[c].frames, Len(handled[c]), sent[c], more)
      BY <2>1, <2>2, StreamTypes, TilesLost
    <2> HIDE DEF more
    <2>5. peer'[c] = "gone" /\ link'[c] = "closed"
      BY <1>1, <1>4
    <2> QED
      BY <1>1, <1>2, <2>2, <2>3, <2>4, <2>5 DEF StreamAt
  <1> QED
    BY <1>3, <1>4

LEMMA StreamNext == Shape /\ StreamOK /\ [Next]_vars => StreamOK'
  <1> SUFFICES ASSUME Shape, StreamOK, [Next]_vars PROVE StreamOK'
    OBVIOUS
  <1>1. ASSUME UNCHANGED <<script, peer, sent, wire, buffer, handled>>,
               \A c \in Conns : link'[c] = "none" => link[c] = "none"
        PROVE  StreamOK'
    BY <1>1, StreamStay DEF StreamOK
  <1>2. CASE Main
    <2>1. UNCHANGED <<script, peer, sent, wire, buffer, handled>>
      BY <1>2 DEF Main, ReapConnections, LeaveLoop, AllClosed, Finish, Accept, CloseConnection
    <2>2. \A c \in Conns : link'[c] = "none" => link[c] = "none"
      <3>1. CASE ReapConnections
        BY <3>1 DEF ReapConnections
      <3>2. CASE LeaveLoop \/ AllClosed \/ Finish
        BY <3>2 DEF LeaveLoop, AllClosed, Finish
      <3>3. ASSUME NEW c \in Conns, Accept(c) \/ CloseConnection(c)
            PROVE  \A d \in Conns : link'[d] = "none" => link[d] = "none"
        BY <3>3 DEF Accept, CloseConnection, Shape, LinkShape
      <3> QED
        BY <1>2, <3>1, <3>2, <3>3 DEF Main
    <2> QED
      BY <1>1, <2>1, <2>2
  <1>3. ASSUME NEW c \in Conns, Serve(c) PROVE StreamOK'
    <2>1. ASSUME \/ ReceiveFails(c) \/ Greet(c) \/ LoopTop(c) \/ Fence(c) \/ Register(c)
                 \/ CommitPlacement(c) \/ Tally(c) \/ ReadEpoch(c) \/ SetAuthority(c)
                 \/ RereadEpoch(c) \/ Send(c) \/ Limit(c) \/ RequestStop(c) \/ Return(c) \/ Done(c)
          PROVE  UNCHANGED <<script, peer, sent, wire, buffer, handled, link>>
      BY <2>1 DEF ReceiveFails, Greet, LoopTop, Fence, Register, CommitPlacement, Tally, ReadEpoch,
                  SetAuthority, RereadEpoch, Send, Limit, RequestStop, Return, Done, Goes
    <2> QED
      BY <1>1, <1>3, <2>1, StreamReceive, StreamTake DEF Serve
  <1>4. ASSUME NEW c \in Conns, Peer(c) PROVE StreamOK'
    BY <1>4, StreamPeer
  <1>5. ASSUME NEW e \in 1 .. MaxEpoch, Crash(e) PROVE StreamOK'
    BY <1>5, StreamCrash
  <1>6. CASE UNCHANGED vars
    BY <1>1, <1>6 DEF vars
  <1> QED
    BY <1>2, <1>3, <1>4, <1>5, <1>6 DEF Next

\* However the bytes of a connection are cut into chunks, whatever is lost at its
\* end and wherever the process dies, ServeConnection handles a beginning of the
\* frames the peer has sent, in order and unaltered.
THEOREM StreamsStayFaithful == Spec => []StreamsAreFaithful
  <1>1. Init => Shape /\ StreamOK
    BY ShapeInit, StreamInit
  <1>2. Shape /\ StreamOK /\ [Next]_vars => Shape' /\ StreamOK'
    BY ShapeNext, StreamNext
  <1>3. Shape /\ StreamOK => StreamsAreFaithful
    <2> SUFFICES ASSUME Shape, StreamOK, NEW c \in Conns
                 PROVE  /\ Len(handled[c]) <= sent[c]
                        /\ handled[c] = SubSeq(script[c].frames, 1, Len(handled[c]))
      BY DEF StreamsAreFaithful
    <2> DEFINE n == Len(handled[c])
               fs == script[c].frames
               g == SubSeq(fs, 1, n)
    <2>1. StreamAt(c)
      BY DEF StreamOK
    <2>2. fs \in Seq(Frames) /\ n \in Nat /\ Len(fs) \in Nat /\ n <= Len(fs) /\ handled[c] \in Seq(Frames)
      BY <2>1, StreamTypes DEF StreamAt
    <2>3. g \in Seq(Frames) /\ Len(g) = n /\ \A i \in 1 .. n : g[i] = fs[i]
      <3> HIDE DEF fs, n
      <3> QED
        BY <2>2
    <2>4. \A i \in 1 .. n : handled[c][i] = g[i]
      BY <2>1, <2>3 DEF StreamAt
    <2> HIDE DEF g
    <2>5. handled[c] = g
      BY <2>2, <2>3, <2>4, SeqEqual
    <2> QED
      BY <2>1, <2>5 DEF StreamAt, g
  <1> QED
    BY <1>1, <1>2, <1>3, PTL DEF Spec

-----------------------------------------------------------------------------
(* The answers.                                                             *)

LEMMA HandlerAnswers ==
    ASSUME NEW f \in Frames, NEW pc \in {"hello", "recv"}
    PROVE  /\ Handler(pc, f).pc = "send" =>
                 /\ Handler(pc, f).reply.kind \notin {"epoch_ack", "place_result"}
                 /\ Handler(pc, f).reply.kind = "error" => Handler(pc, f).reply.code = "wire_malformed"
           /\ Handler(pc, f).pc \in {"fence", "epoch"} => pc = "recv"
  <1>1. /\ Answer("error", "wire_malformed").kind = "error"
        /\ Answer("error", "wire_malformed").code = "wire_malformed"
    BY DEF Answer, NoReply
  <1>2. Answer("recovery_report", "ok").kind = "recovery_report"
    BY DEF Answer, NoReply
  <1>3. Answer("stats_report", "ok").kind = "stats_report"
    BY DEF Answer, NoReply
  <1>4. Answer("shutdown_ack", "ok").kind = "shutdown_ack"
    BY DEF Answer, NoReply
  <1> QED
    BY <1>1, <1>2, <1>3, <1>4 DEF Handler

\* The connection d takes no part in the step.
Stays(d) ==
    /\ thread'[d] = thread[d] /\ reply'[d] = reply[d] /\ replies'[d] = replies[d]
    /\ handled'[d] = handled[d] /\ bound'[d] = bound[d]

LEMMA AnswerTypes ==
    ASSUME Shape, NEW c \in Conns
    PROVE  /\ handled[c] \in Seq(Frames) /\ Len(handled[c]) \in Nat
           /\ replies[c] \in Seq(Replies) /\ Len(replies[c]) \in Nat
           /\ DOMAIN replies[c] = 1 .. Len(replies[c])
           /\ DOMAIN handled[c] = 1 .. Len(handled[c])
           /\ reply[c] \in Replies /\ fabricEpoch \in Nat /\ bound[c] \in Nat
           /\ thread[c] \in ThreadStates
  <1>1. /\ handled[c] \in Seq(Frames) /\ replies[c] \in Seq(Replies) /\ reply[c] \in Replies
        /\ bound[c] \in 0 .. DefaultBound /\ thread[c] \in ThreadStates
    BY DEF Shape, LinkShape
  <1>2. fabricEpoch \in Nat
    BY OptionsAssumption DEF Shape, CoreShape
  <1> QED
    BY <1>1, <1>2, OptionsAssumption

LEMMA BoundStay ==
    ASSUME NEW d \in Conns, Stays(d), BoundAt(d)
    PROVE  BoundAt(d)'
  BY DEF Stays, BoundAt

LEMMA AlignedStay ==
    ASSUME NEW d \in Conns, Stays(d), AlignedAt(d), stop => stop',
           thread[d] # "none" /\ peer'[d] = "open" => peer[d] = "open"
    PROVE  AlignedAt(d)'
  BY DEF Stays, AlignedAt, Serving, Working, Placing, Setting

LEMMA EpochStay ==
    ASSUME Shape, NEW d \in Conns, Stays(d), EpochAt(d), fabricEpoch' \in Nat,
           fabricEpoch <= fabricEpoch'
    PROVE  EpochAt(d)'
  <1>1. Frame(d)' = Frame(d)
    BY DEF Stays, Frame
  <1>2. thread[d] = "reread" => Ordered(reply[d], Frame(d).epoch, fabricEpoch')
    <2> SUFFICES ASSUME thread[d] = "reread" PROVE Ordered(reply[d], Frame(d).epoch, fabricEpoch')
      OBVIOUS
    <2>1. Frame(d).epoch \in 1 .. MaxEpoch
      BY FrameIsFrame DEF Shape, Working, Setting
    <2> QED
      BY <2>1, AnswerTypes, OptionsAssumption DEF EpochAt, Ordered
  <1>3. thread[d] = "apply" => reply[d].previous <= fabricEpoch'
    BY AnswerTypes DEF EpochAt, Replies
  <1> QED
    BY <1>1, <1>2, <1>3 DEF Stays, EpochAt

LEMMA AnswersInit == Init => AnswersOK
  BY DEF Init, AnswersOK, ClosedOK, BoundAt, AlignedAt, EpochAt, FreshContext, Serving, Gone,
         Working, Placing, Setting

\* What no step of a connection's thread touches.
LEMMA ServeOthers ==
    ASSUME Shape, NEW c \in Conns, Serve(c)
    PROVE  /\ \A d \in Conns \ {c} : Stays(d)
           /\ UNCHANGED <<link, peer, main>> /\ (stop => stop')
           /\ fabricEpoch' \in Nat /\ fabricEpoch <= fabricEpoch'
  <1> USE DEF Shape, LinkShape
  <1>0. fabricEpoch' \in Nat
    BY ShapeNext, OptionsAssumption DEF Next, CoreShape
  <1>1. ASSUME NEW k \in 1 .. Len(wire[c]), Receive(c, k)
        PROVE  (\A d \in Conns \ {c} : Stays(d)) /\ UNCHANGED <<link, peer, main, stop, fabricEpoch>>
    BY <1>1 DEF Receive, Stays
  <1>2. ASSUME ReceiveFails(c) \/ Greet(c) \/ TakeFrame(c)
        PROVE  (\A d \in Conns \ {c} : Stays(d)) /\ UNCHANGED <<link, peer, main, stop, fabricEpoch>>
    BY <1>2 DEF ReceiveFails, Greet, TakeFrame, Stays
  <1>3. ASSUME Send(c)
        PROVE  (\A d \in Conns \ {c} : Stays(d)) /\ UNCHANGED <<link, peer, main, stop, fabricEpoch>>
    BY <1>3 DEF Send, Stays
  <1>4. ASSUME NEW pc, NEW r, Goes(c, pc, r)
        PROVE  (\A d \in Conns \ {c} : Stays(d)) /\ UNCHANGED <<link, peer>>
    BY <1>4 DEF Goes, Stays
  <1>5. ASSUME \/ LoopTop(c) \/ Fence(c) \/ Register(c) \/ CommitPlacement(c) \/ Tally(c)
               \/ ReadEpoch(c) \/ SetAuthority(c) \/ RereadEpoch(c)
               \/ Limit(c) \/ RequestStop(c) \/ Return(c) \/ Done(c)
        PROVE  \E pc, r : Goes(c, pc, r)
    BY <1>5 DEF LoopTop, Fence, Register, CommitPlacement, Tally, ReadEpoch, SetAuthority,
                RereadEpoch, Limit, RequestStop, Return, Done
  <1>6. ASSUME \/ LoopTop(c) \/ Fence(c) \/ Register(c) \/ CommitPlacement(c) \/ Tally(c)
               \/ ReadEpoch(c) \/ RereadEpoch(c) \/ Limit(c) \/ RequestStop(c) \/ Return(c) \/ Done(c)
        PROVE  UNCHANGED <<main, fabricEpoch>> /\ (stop => stop')
    BY <1>6 DEF LoopTop, Fence, Register, CommitPlacement, Tally, ReadEpoch,
                RereadEpoch, Limit, RequestStop, Return, Done, Ledger!Record
  <1>7. ASSUME SetAuthority(c)
        PROVE  UNCHANGED <<main, stop>> /\ fabricEpoch <= fabricEpoch'
    <2>1. Frame(c).epoch \in Nat /\ fabricEpoch \in Nat
      BY <1>7, FrameIsFrame, AnswerTypes, OptionsAssumption DEF SetAuthority, Working, Setting
    <2> QED
      BY <1>7, <2>1 DEF SetAuthority, Superseded
  <1>8. fabricEpoch \in Nat
    BY AnswerTypes
  <1> QED
    BY <1>0, <1>1, <1>2, <1>3, <1>4, <1>5, <1>6, <1>7, <1>8 DEF Serve

\* Steps on the way to an answer, for the connection that takes them.
LEMMA WaitAnswers ==
    ASSUME Shape, AnswersOK, NEW c \in Conns,
           ReceiveFails(c) \/ LoopTop(c) \/ Limit(c) \/ RequestStop(c) \/ Return(c) \/ Done(c)
    PROVE  BoundAt(c)' /\ AlignedAt(c)' /\ EpochAt(c)'
  <1>1. BoundAt(c) /\ AlignedAt(c) /\ EpochAt(c)
    BY DEF AnswersOK
  <1>2. PICK pc \in {"return", "recv", "stop", "top", "left", "done"} :
            thread' = [thread EXCEPT ![c] = pc]
    BY DEF ReceiveFails, LoopTop, Limit, RequestStop, Return, Done, Goes
  <1>3. /\ UNCHANGED <<handled, replies, bound, peer>> /\ (stop => stop')
        /\ pc # "done" /\ pc # "left" => c \in Serving
        /\ pc = "recv" => thread[c] = "top" /\ ~stop
        /\ pc = "top" => thread[c] = "limit"
    <2>1. thread[c] \in ThreadStates /\ thread'[c] = pc
      BY <1>2, AnswerTypes DEF Shape, LinkShape
    <2>2. ASSUME ReceiveFails(c) PROVE thread'[c] = "return" /\ thread[c] \in {"hello", "recv"}
      BY <2>2 DEF ReceiveFails, Receiving, Shape, LinkShape
    <2>3. ASSUME LoopTop(c)
          PROVE  thread'[c] \in {"return", "recv"} /\ thread[c] = "top" /\ (thread'[c] = "recv" => ~stop)
      BY <2>3 DEF LoopTop, Goes, Shape, LinkShape
    <2>4. ASSUME Limit(c) PROVE thread'[c] \in {"stop", "top"} /\ thread[c] = "limit"
      BY <2>4 DEF Limit, Goes, Shape, LinkShape
    <2>5. ASSUME RequestStop(c) PROVE thread'[c] = "return" /\ thread[c] = "stop"
      BY <2>5 DEF RequestStop, Goes, Shape, LinkShape
    <2>6. ASSUME Return(c) \/ Done(c) PROVE thread'[c] \in {"left", "done"}
      BY <2>6 DEF Return, Done, Goes, Shape, LinkShape
    <2>7. UNCHANGED <<handled, replies, bound, peer>> /\ (stop => stop')
      BY DEF ReceiveFails, LoopTop, Limit, RequestStop, Return, Done, Goes
    <2> QED
      BY <2>1, <2>2, <2>3, <2>4, <2>5, <2>6, <2>7 DEF Serving, Gone
  <1>4. thread'[c] = pc
    BY <1>2 DEF Shape, LinkShape
  <1>5. BoundAt(c)'
    BY <1>1, <1>3, <1>4 DEF BoundAt, Placing, Setting
  <1>6. AlignedAt(c)'
    BY <1>1, <1>3, <1>4 DEF AlignedAt, Serving, Gone, Working, Placing, Setting
  <1>7. EpochAt(c)'
    BY <1>1, <1>3, <1>4 DEF EpochAt
  <1> QED
    BY <1>5, <1>6, <1>7

LEMMA TakeAnswers ==
    ASSUME Shape, AnswersOK, NEW c \in Conns, TakeFrame(c)
    PROVE  BoundAt(c)' /\ AlignedAt(c)' /\ EpochAt(c)'
  <1>1. BoundAt(c) /\ AlignedAt(c) /\ EpochAt(c)
    BY DEF AnswersOK
  <1> DEFINE f == NextFrame(buffer[c])
             h == Handler(thread[c], f)
  <1>2. f \in Frames /\ thread[c] \in {"hello", "recv"}
    BY NextNeedsFrame DEF TakeFrame, Shape, LinkShape, Receiving
  <1>3. /\ h.pc \in {"greet", "fence", "epoch", "send"}
        /\ h.pc = "send" => /\ h.reply.kind \notin {"epoch_ack", "place_result"}
                            /\ h.reply.kind = "error" => h.reply.code = "wire_malformed"
        /\ h.pc \in {"fence", "epoch"} => thread[c] = "recv"
    BY <1>2, HandlerGoes, HandlerAnswers
  <1>4. /\ handled'[c] = Append(handled[c], f) /\ thread'[c] = h.pc /\ reply'[c] = h.reply
        /\ UNCHANGED <<peer, bound, replies, stop>>
    BY DEF TakeFrame, Shape, LinkShape
  <1> HIDE DEF f, h
  <1>5. /\ Len(handled[c]) \in Nat /\ Len(replies[c]) \in Nat
        /\ Len(handled'[c]) = Len(handled[c]) + 1
        /\ \A i \in 1 .. Len(handled[c]) : handled'[c][i] = handled[c][i]
        /\ DOMAIN replies[c] = 1 .. Len(replies[c])
    BY <1>2, <1>4, AnswerTypes, AppendProperties
  <1>6. BoundAt(c)'
    BY <1>1, <1>3, <1>4 DEF BoundAt, Placing, Setting
  <1>7. AlignedAt(c)'
    <2>1. Len(replies[c]) <= Len(handled[c])
      BY <1>1, <1>2 DEF AlignedAt, Serving, Gone
    <2>2. peer[c] = "open" => Len(handled[c]) = Len(replies[c])
      BY <1>1, <1>2 DEF AlignedAt
    <2> QED
      BY <1>3, <1>4, <1>5, <2>1, <2>2 DEF AlignedAt
  <1>8. EpochAt(c)'
    <2>1. ASSUME NEW i \in DOMAIN replies[c], replies[c][i].kind = "epoch_ack"
          PROVE  /\ i <= Len(handled'[c])
                 /\ Ordered(replies[c][i], handled'[c][i].epoch, replies[c][i].epoch)
      <3>1. i \in 1 .. Len(handled[c]) /\ Ordered(replies[c][i], handled[c][i].epoch, replies[c][i].epoch)
        BY <1>1, <1>5, <2>1 DEF EpochAt
      <3> QED
        BY <1>5, <3>1
    <2> QED
      BY <1>3, <1>4, <2>1 DEF EpochAt
  <1> QED
    BY <1>6, <1>7, <1>8

\* Steps that work on the frame.
LEMMA WorkAnswers ==
    ASSUME Shape, AnswersOK, NEW c \in Conns,
           Greet(c) \/ Fence(c) \/ Register(c) \/ CommitPlacement(c) \/ Tally(c)
    PROVE  BoundAt(c)' /\ AlignedAt(c)' /\ EpochAt(c)'
  <1>1. BoundAt(c) /\ AlignedAt(c) /\ EpochAt(c)
    BY DEF AnswersOK
  <1>2. PICK pc \in {"place", "commit", "tally", "send"} : thread' = [thread EXCEPT ![c] = pc]
    BY DEF Greet, Fence, Register, CommitPlacement, Tally, Goes
  <1>3. /\ UNCHANGED <<handled, replies, peer, stop>>
        /\ thread[c] \in Placing \cup {"greet"}
        /\ thread[c] = "greet" => pc = "send"
        /\ thread[c] # "greet" => bound' = bound
    <2>1. thread'[c] = pc
      BY <1>2 DEF Shape, LinkShape
    <2>2. CASE Greet(c)
      BY <2>1, <2>2 DEF Greet, Shape, LinkShape
    <2>3. CASE Fence(c) \/ Register(c) \/ CommitPlacement(c) \/ Tally(c)
      BY <2>3 DEF Fence, Register, CommitPlacement, Tally, Goes, Placing
    <2> QED
      BY <2>2, <2>3
  <1>4. reply'[c].kind # "epoch_ack" /\ (thread[c] = "greet" => reply'[c].kind = "hello_ack")
    <2>1. CASE Greet(c)
      <3>1. reply'[c].kind = "hello_ack"
        BY <2>1 DEF Greet, Answer, NoReply, Shape, LinkShape
      <3> QED
        BY <3>1
    <2>2. CASE Fence(c) \/ Register(c)
      <3>1. NoReply.kind = "none" /\ \A code : Answer("error", code).kind = "error"
        BY DEF NoReply, Answer
      <3>2. reply'[c] = NoReply \/ \E code : reply'[c] = Answer("error", code)
        BY <2>2 DEF Fence, Register, Goes, Shape, LinkShape
      <3>3. thread[c] # "greet"
        BY <2>2 DEF Fence, Register
      <3> QED
        BY <3>1, <3>2, <3>3
    <2>4. CASE CommitPlacement(c)
      BY <2>4 DEF CommitPlacement, Goes, Answer, NoReply, Shape, LinkShape
    <2>5. CASE Tally(c)
      BY <1>1, <2>5 DEF Tally, Goes, Shape, LinkShape, EpochAt
    <2> QED
      BY <2>1, <2>2, <2>4, <2>5
  <1>9. pc = "tally" => reply'[c].kind = "place_result"
    <2>1. ASSUME pc = "tally" PROVE CommitPlacement(c)
      <3>1. thread'[c] = "tally"
        BY <1>2, <2>1 DEF Shape, LinkShape
      <3> QED
        BY <3>1 DEF Greet, Fence, Register, Tally, Goes, Shape, LinkShape
    <2> QED
      BY <2>1 DEF CommitPlacement, Goes, Answer, NoReply, Shape, LinkShape
  <1>5. thread'[c] = pc
    BY <1>2 DEF Shape, LinkShape
  <1>6. BoundAt(c)'
    BY <1>1, <1>3, <1>4, <1>5 DEF BoundAt, Placing, Setting
  <1>7. AlignedAt(c)'
    BY <1>1, <1>3, <1>5 DEF AlignedAt, Serving, Gone, Working, Placing, Setting
  <1>8. EpochAt(c)'
    BY <1>1, <1>3, <1>4, <1>5, <1>9 DEF EpochAt
  <1> QED
    BY <1>6, <1>7, <1>8

\* The three steps of kSetEpoch.
LEMMA EpochAnswers ==
    ASSUME Shape, AnswersOK, NEW c \in Conns, ReadEpoch(c) \/ SetAuthority(c) \/ RereadEpoch(c)
    PROVE  BoundAt(c)' /\ AlignedAt(c)' /\ EpochAt(c)'
  <1>1. BoundAt(c) /\ AlignedAt(c) /\ EpochAt(c)
    BY DEF AnswersOK
  <1>2. /\ thread[c] \in Setting /\ thread'[c] \in {"apply", "reread", "send"}
        /\ UNCHANGED <<handled, replies, peer, stop, bound>>
    BY DEF ReadEpoch, SetAuthority, RereadEpoch, Goes, Setting, Shape, LinkShape
  <1>3. /\ Frame(c).epoch \in Nat /\ Len(handled[c]) > 0
        /\ reply[c] \in Replies /\ reply[c].previous \in Nat /\ fabricEpoch \in Nat
    <2>1. Frame(c).epoch \in 1 .. MaxEpoch
      BY <1>2, FrameIsFrame DEF Shape, Working
    <2> QED
      BY <1>2, <2>1, AnswerTypes, OptionsAssumption DEF Shape, FrameOK, Working, Replies
  <1>4. Frame(c)' = Frame(c)
    BY <1>2 DEF Frame
  <1>5. /\ thread'[c] = "apply" => /\ reply'[c].kind = "epoch_ack" /\ reply'[c].code = "ok"
                                   /\ reply'[c].previous <= fabricEpoch'
        /\ thread'[c] = "reread" => /\ reply'[c].kind = "epoch_ack"
                                    /\ Ordered(reply'[c], Frame(c).epoch, fabricEpoch')
        /\ thread'[c] = "send" => /\ reply'[c].kind = "epoch_ack"
                                  /\ Ordered(reply'[c], Frame(c).epoch, reply'[c].epoch)
    <2>1. CASE ReadEpoch(c)
      <3> DEFINE r == [Answer("epoch_ack", "ok") EXCEPT !.previous = fabricEpoch]
      <3>1. r.kind = "epoch_ack" /\ r.code = "ok" /\ r.previous = fabricEpoch
        BY DEF Answer, NoReply
      <3>2. thread'[c] = "apply" /\ reply'[c] = r /\ fabricEpoch' = fabricEpoch
        BY <2>1 DEF ReadEpoch, Goes, Shape, LinkShape
      <3> HIDE DEF r
      <3> QED
        BY <1>3, <3>1, <3>2
    <2>2. CASE SetAuthority(c)
      <3> DEFINE code == IF Superseded(Frame(c).epoch) THEN "stale_fabric_epoch" ELSE "ok"
                 r == [reply[c] EXCEPT !.code = code]
      <3>1. r.kind = reply[c].kind /\ r.code = code /\ r.previous = reply[c].previous
        <4> HIDE DEF code
        <4> QED
          BY <1>3 DEF Replies
      <3>2. /\ thread'[c] = "reread" /\ reply'[c] = r
            /\ fabricEpoch' = IF Superseded(Frame(c).epoch) THEN fabricEpoch ELSE Frame(c).epoch
        BY <2>2 DEF SetAuthority, Goes, Shape, LinkShape
      <3>3. reply[c].kind = "epoch_ack" /\ reply[c].previous <= fabricEpoch
        BY <1>1, <2>2 DEF EpochAt, SetAuthority
      <3> HIDE DEF r
      <3> QED
        BY <1>3, <3>1, <3>2, <3>3 DEF Ordered, Superseded
    <2>3. CASE RereadEpoch(c)
      <3> DEFINE r == [reply[c] EXCEPT !.epoch = fabricEpoch]
      <3>1. /\ r.kind = reply[c].kind /\ r.code = reply[c].code /\ r.previous = reply[c].previous
            /\ r.epoch = fabricEpoch
        BY <1>3 DEF Replies
      <3>2. thread'[c] = "send" /\ reply'[c] = r
        BY <2>3 DEF RereadEpoch, Goes, Shape, LinkShape
      <3>3. reply[c].kind = "epoch_ack" /\ Ordered(reply[c], Frame(c).epoch, fabricEpoch)
        BY <1>1, <2>3 DEF EpochAt, RereadEpoch
      <3> HIDE DEF r
      <3> QED
        BY <3>1, <3>2, <3>3 DEF Ordered
    <2> QED
      BY <2>1, <2>2, <2>3
  <1>6. BoundAt(c)'
    BY <1>1, <1>2, <1>5 DEF BoundAt, Placing, Setting
  <1>7. AlignedAt(c)'
    BY <1>1, <1>2 DEF AlignedAt, Serving, Gone, Working, Placing, Setting
  <1>8. EpochAt(c)'
    BY <1>1, <1>2, <1>3, <1>4, <1>5 DEF EpochAt
  <1> QED
    BY <1>6, <1>7, <1>8

LEMMA SendAnswers ==
    ASSUME Shape, AnswersOK, NEW c \in Conns, Send(c)
    PROVE  BoundAt(c)' /\ AlignedAt(c)' /\ EpochAt(c)'
  <1>1. BoundAt(c) /\ AlignedAt(c) /\ EpochAt(c) /\ ClosedOK
    BY DEF AnswersOK
  <1>2. PICK ok \in BOOLEAN :
            /\ IF ok THEN Sends(c) ELSE CannotSend(c)
            /\ thread' = [thread EXCEPT ![c] = AfterSend(reply[c], ok)]
            /\ replies' = IF ok /\ peer[c] = "open"
                          THEN [replies EXCEPT ![c] = Append(replies[c], reply[c])] ELSE replies
    BY DEF Send, Shape, LinkShape
  <1>3. /\ thread[c] = "send" /\ reply'[c] = NoReply /\ UNCHANGED <<handled, peer, bound, stop, link>>
        /\ thread'[c] = AfterSend(reply[c], ok)
        /\ thread'[c] \in {"return", "top", "stop", "limit"}
    BY <1>2 DEF Send, AfterSend, Shape, LinkShape
  <1>4. c \in Serving
    BY <1>3 DEF Serving, Gone
  <1>5. thread'[c] \in {"top", "limit"} =>
            \/ ok
            \/ reply[c].kind = "error" /\ reply[c].code # "wire_malformed"
    BY <1>3 DEF AfterSend
  <1>6. ok => MinBound <= bound[c]
    BY <1>2 DEF Sends, Fits
  <1>7. thread'[c] \in {"top", "limit"} => MinBound <= bound[c]
    BY <1>1, <1>3, <1>5, <1>6 DEF BoundAt
  <1>8. thread'[c] \in {"top", "limit"} /\ ~ok /\ peer[c] = "open" => thread'[c] = "top" /\ stop
    <2> SUFFICES ASSUME thread'[c] \in {"top", "limit"}, ~ok, peer[c] = "open"
                 PROVE  thread'[c] = "top" /\ stop
      OBVIOUS
    <2>1. reply[c].kind = "error" /\ MinBound <= bound[c]
      BY <1>5, <1>7
    <2>2. Fits(c)
      BY <2>1, AnswerTypes, ErrorAssumption, OptionsAssumption DEF Fits
    <2>3. link[c] = "closed"
      BY <1>2, <2>2 DEF CannotSend
    <2>4. stop
      BY <1>1, <1>4, <2>3 DEF ClosedOK
    <2> QED
      BY <1>3, <2>1, <2>4 DEF AfterSend
  <1>9. CASE ok /\ peer[c] = "open"
    <2>1. replies'[c] = Append(replies[c], reply[c])
      BY <1>2, <1>9 DEF Shape, LinkShape
    <2>2. /\ Len(replies[c]) \in Nat /\ Len(handled[c]) \in Nat
          /\ Len(replies'[c]) = Len(replies[c]) + 1
          /\ DOMAIN replies'[c] = 1 .. Len(replies[c]) + 1
          /\ DOMAIN replies[c] = 1 .. Len(replies[c])
          /\ replies'[c][Len(replies[c]) + 1] = reply[c]
          /\ \A i \in 1 .. Len(replies[c]) : replies'[c][i] = replies[c][i]
      BY <2>1, AnswerTypes, AppendProperties
    <2>3. Len(handled[c]) = Len(replies[c]) + 1
      BY <1>1, <1>3, <1>9 DEF AlignedAt
    <2>4. BoundAt(c)'
      BY <1>3, <1>7 DEF BoundAt, Placing, Setting
    <2>5. AlignedAt(c)'
      BY <1>3, <2>2, <2>3 DEF AlignedAt, Working, Placing, Setting
    <2>6. EpochAt(c)'
      <3>1. ASSUME NEW i \in DOMAIN replies'[c], replies'[c][i].kind = "epoch_ack"
            PROVE  /\ i <= Len(handled[c])
                   /\ Ordered(replies'[c][i], handled[c][i].epoch, replies'[c][i].epoch)
        <4>1. CASE i = Len(replies[c]) + 1
          <5>1. reply[c].kind = "epoch_ack" /\ replies'[c][i] = reply[c]
            BY <2>2, <3>1, <4>1
          <5>2. Ordered(reply[c], Frame(c).epoch, reply[c].epoch)
            BY <1>1, <1>3, <5>1 DEF EpochAt
          <5> QED
            BY <2>2, <2>3, <4>1, <5>1, <5>2 DEF Frame
        <4>2. CASE i \in 1 .. Len(replies[c])
          <5>1. replies'[c][i] = replies[c][i] /\ i \in DOMAIN replies[c]
            BY <2>2, <4>2
          <5> QED
            BY <1>1, <3>1, <5>1 DEF EpochAt
        <4> QED
          BY <2>2, <4>1, <4>2
      <3> QED
        BY <1>3, <3>1 DEF EpochAt
    <2> QED
      BY <2>4, <2>5, <2>6
  <1>10. CASE ~(ok /\ peer[c] = "open")
    <2>1. replies' = replies
      BY <1>2, <1>10
    <2>2. Len(replies[c]) <= Len(handled[c])
      BY <1>1, <1>4 DEF AlignedAt
    <2>3. BoundAt(c)'
      BY <1>3, <1>7 DEF BoundAt, Placing, Setting
    <2>4. AlignedAt(c)'
      BY <1>3, <1>8, <1>10, <2>1, <2>2 DEF AlignedAt, Working, Placing, Setting
    <2>5. EpochAt(c)'
      BY <1>1, <1>3, <2>1 DEF EpochAt
    <2> QED
      BY <2>3, <2>4, <2>5
  <1> QED
    BY <1>9, <1>10

LEMMA ServeAnswers ==
    ASSUME Shape, AnswersOK, NEW c \in Conns, Serve(c)
    PROVE  AnswersOK'
  <1>1. /\ \A d \in Conns \ {c} : Stays(d)
        /\ UNCHANGED <<link, peer, main>> /\ (stop => stop')
        /\ fabricEpoch' \in Nat /\ fabricEpoch <= fabricEpoch'
    BY ServeOthers
  <1>2. ClosedOK'
    <2>1. thread[c] \notin Gone \cup {"left"} \/ thread'[c] = "done"
      BY DEF Serve, Receive, ReceiveFails, TakeFrame, Receiving, Greet, LoopTop, Fence, Register,
             CommitPlacement, Tally, ReadEpoch, SetAuthority, RereadEpoch, Send, Limit, RequestStop,
             Return, Done, Goes, Gone, Shape, LinkShape
    <2>2. Serving' \subseteq Serving
      BY <1>1, <2>1 DEF Serving, Gone, Stays
    <2> QED
      BY <1>1, <2>2 DEF AnswersOK, ClosedOK
  <1>3. ASSUME NEW d \in Conns, d # c PROVE BoundAt(d)' /\ AlignedAt(d)' /\ EpochAt(d)'
    BY <1>1, <1>3, BoundStay, AlignedStay, EpochStay DEF AnswersOK
  <1>4. ASSUME NEW k \in 1 .. Len(wire[c]), Receive(c, k) PROVE BoundAt(c)' /\ AlignedAt(c)' /\ EpochAt(c)'
    <2>1. Stays(c)
      BY <1>4 DEF Receive, Stays
    <2> QED
      BY <1>1, <2>1, BoundStay, AlignedStay, EpochStay DEF AnswersOK
  <1>5. BoundAt(c)' /\ AlignedAt(c)' /\ EpochAt(c)'
    BY <1>4, WaitAnswers, TakeAnswers, WorkAnswers, EpochAnswers, SendAnswers DEF Serve
  <1> QED
    BY <1>2, <1>3, <1>5 DEF AnswersOK

LEMMA MainAnswers ==
    ASSUME Shape, AnswersOK, Main
    PROVE  AnswersOK'
  <1> USE DEF Shape, LinkShape
  <1>1. fabricEpoch \in Nat /\ fabricEpoch' = fabricEpoch /\ fabricEpoch <= fabricEpoch'
    BY OptionsAssumption
    DEF CoreShape, Main, ReapConnections, LeaveLoop, AllClosed, Finish, Accept, CloseConnection
  <1>2. UNCHANGED <<peer, handled, reply, bound>> /\ (stop => stop')
    BY DEF Main, ReapConnections, LeaveLoop, AllClosed, Finish, Accept, CloseConnection
  <1>3. ASSUME NEW d \in Conns, Stays(d) PROVE BoundAt(d)' /\ AlignedAt(d)' /\ EpochAt(d)'
    BY <1>1, <1>2, <1>3, BoundStay, AlignedStay, EpochStay DEF AnswersOK
  <1>4. ASSUME NEW d \in Conns, thread'[d] \in {"reaped", "hello"}, replies'[d] = replies[d],
               Len(replies[d]) = Len(handled[d]) \/ thread'[d] = "reaped"
        PROVE  BoundAt(d)' /\ AlignedAt(d)' /\ EpochAt(d)'
    <2>1. BoundAt(d) /\ AlignedAt(d) /\ EpochAt(d) /\ Len(handled[d]) \in Nat
      BY AnswerTypes DEF AnswersOK
    <2>2. BoundAt(d)' /\ EpochAt(d)'
      BY <1>2, <1>4, <2>1 DEF BoundAt, EpochAt, Placing, Setting
    <2>3. AlignedAt(d)'
      BY <1>2, <1>4, <2>1 DEF AlignedAt, Serving, Gone, Working, Placing, Setting
    <2> QED
      BY <2>2, <2>3
  <1>5. CASE ReapConnections
    <2>1. \A d \in Conns : Stays(d) \/ (thread'[d] = "reaped" /\ replies'[d] = replies[d])
      BY <1>2, <1>5 DEF ReapConnections, Stays
    <2>2. ClosedOK'
      BY <1>5 DEF ReapConnections, AnswersOK, ClosedOK, Serving, Gone
    <2> QED
      BY <1>3, <1>4, <2>1, <2>2 DEF AnswersOK
  <1>6. CASE LeaveLoop \/ AllClosed
    <2>1. \A d \in Conns : Stays(d)
      BY <1>6 DEF LeaveLoop, AllClosed, Stays
    <2>2. ClosedOK'
      BY <1>6 DEF LeaveLoop, AllClosed, AnswersOK, ClosedOK, Serving
    <2> QED
      BY <1>3, <2>1, <2>2 DEF AnswersOK
  <1>7. CASE Finish
    <2>1. \A d \in Conns : Stays(d)
      BY <1>7 DEF Finish, Stays
    <2>2. ClosedOK'
      BY <1>7 DEF Finish, Joined, AnswersOK, ClosedOK, Serving
    <2> QED
      BY <1>3, <2>1, <2>2 DEF AnswersOK
  <1>8. ASSUME NEW c \in Conns, CloseConnection(c) PROVE AnswersOK'
    <2>1. \A d \in Conns : Stays(d)
      BY <1>8 DEF CloseConnection, Stays
    <2>2. ClosedOK'
      BY <1>8 DEF CloseConnection, AnswersOK, ClosedOK, Serving
    <2> QED
      BY <1>3, <2>1, <2>2 DEF AnswersOK
  <1>9. ASSUME NEW c \in Conns, Accept(c) PROVE AnswersOK'
    <2>1. thread[c] = "none" /\ handled[c] = <<>> /\ replies[c] = <<>>
      BY <1>9 DEF Accept, FreshOK
    <2>2. \A d \in Conns \ {c} : Stays(d)
      BY <1>9 DEF Accept, Stays
    <2>3. CASE AtLimit
      <3>1. thread' = thread /\ replies'[c] = Append(replies[c], Answer("error", "worker_limit_exceeded"))
        BY <1>9, <2>3 DEF Accept
      <3>2. replies'[c] = <<Answer("error", "worker_limit_exceeded")>>
        BY <2>1, <3>1
      <3>3. BoundAt(c)' /\ AlignedAt(c)'
        BY <2>1, <3>1 DEF BoundAt, AlignedAt, Serving, Gone, Working, Placing, Setting
      <3>4. EpochAt(c)'
        <4>1. Answer("error", "worker_limit_exceeded").kind = "error"
          BY DEF Answer, NoReply
        <4>2. \A i \in DOMAIN replies'[c] : replies'[c][i].kind = "error"
          BY <3>2, <4>1
        <4> QED
          BY <2>1, <3>1, <4>2 DEF EpochAt
      <3>5. ClosedOK'
        BY <1>9, <2>1, <2>3, <3>1 DEF Accept, AnswersOK, ClosedOK, Serving, Gone
      <3> QED
        BY <1>3, <2>2, <3>3, <3>4, <3>5 DEF AnswersOK
    <2>4. CASE ~AtLimit
      <3>1. thread'[c] = "hello" /\ replies' = replies /\ link'[c] = "open"
        BY <1>9, <2>4 DEF Accept
      <3>2. Len(replies[c]) = Len(handled[c])
        BY <2>1
      <3>3. BoundAt(c)' /\ AlignedAt(c)' /\ EpochAt(c)'
        BY <1>4, <3>1, <3>2
      <3>4. ClosedOK'
        BY <1>9, <2>1, <2>2, <2>4, <3>1 DEF Accept, AnswersOK, ClosedOK, Serving, Gone, Stays
      <3> QED
        BY <1>3, <2>2, <3>3, <3>4 DEF AnswersOK
    <2> QED
      BY <2>3, <2>4
  <1> QED
    BY <1>5, <1>6, <1>7, <1>8, <1>9 DEF Main

LEMMA AnswersNext == Shape /\ AnswersOK /\ [Next]_vars => AnswersOK'
  <1> SUFFICES ASSUME Shape, AnswersOK, [Next]_vars PROVE AnswersOK'
    OBVIOUS
  <1>1. ASSUME NEW c \in Conns, Peer(c) PROVE AnswersOK'
    <2>1. UNCHANGED <<handled, thread, reply, replies, bound, fabricEpoch, stop, main>>
      BY <1>1 DEF Peer, Connect, PeerSend, PeerRead, PeerGone
    <2>2. \A d \in Conns : thread[d] # "none" /\ peer'[d] = "open" => peer[d] = "open"
      <3>1. CASE Connect(c)
        BY <3>1 DEF Connect, Shape, PeerShape, LinkShape, FreshOK
      <3>2. CASE PeerSend(c) \/ PeerRead(c)
        BY <3>2 DEF PeerSend, PeerRead
      <3>3. ASSUME NEW k \in 0 .. Len(wire[c]), PeerGone(c, k)
            PROVE  \A d \in Conns : thread[d] # "none" /\ peer'[d] = "open" => peer[d] = "open"
        BY <3>3 DEF PeerGone, Shape, PeerShape
      <3> QED
        BY <1>1, <3>1, <3>2, <3>3 DEF Peer
    <2>3. ClosedOK'
      <3>1. \A d \in Conns : link'[d] = "closed" => link[d] = "closed"
        BY <1>1 DEF Peer, Connect, PeerSend, PeerRead, PeerGone, Shape, LinkShape
      <3> QED
        BY <2>1, <3>1 DEF AnswersOK, ClosedOK, Serving
    <2>4. \A d \in Conns : Stays(d)
      BY <2>1 DEF Stays
    <2>5. fabricEpoch' \in Nat /\ fabricEpoch <= fabricEpoch'
      BY <2>1, OptionsAssumption DEF Shape, CoreShape
    <2> QED
      BY <2>1, <2>2, <2>3, <2>4, <2>5, BoundStay, AlignedStay, EpochStay DEF AnswersOK
  <1>2. ASSUME NEW e \in 1 .. MaxEpoch, Crash(e) PROVE AnswersOK'
    <2>1. /\ \A c \in Conns : thread'[c] \in {"none", "reaped"}
          /\ UNCHANGED <<handled, replies>> /\ main' = "wait"
      BY <1>2 DEF Crash, FreshContext
    <2>2. Serving' = {}
      BY <2>1 DEF Serving, Gone
    <2>3. ClosedOK'
      BY <2>1, <2>2 DEF ClosedOK
    <2>4. ASSUME NEW c \in Conns PROVE BoundAt(c)' /\ AlignedAt(c)' /\ EpochAt(c)'
      <3>1. EpochAt(c)
        BY DEF AnswersOK
      <3> QED
        BY <2>1, <2>2, <3>1 DEF BoundAt, AlignedAt, EpochAt, Working, Placing, Setting
    <2> QED
      BY <2>3, <2>4 DEF AnswersOK
  <1>3. CASE UNCHANGED vars
    BY <1>3 DEF vars, AnswersOK, ClosedOK, BoundAt, AlignedAt, EpochAt, Serving, Frame
  <1> QED
    BY <1>1, <1>2, <1>3, ServeAnswers, MainAnswers DEF Next

\* Although kSetEpoch reads, changes and rereads the epoch in three calls between
\* which other threads may change it, its acknowledgement is in order: an accepted
\* epoch lies between the two it reports, a refused one below the current one.
THEOREM EpochAcksStayOrdered == Spec => []EpochAcksAreOrdered
  <1>1. Init => Shape /\ AnswersOK
    BY ShapeInit, AnswersInit
  <1>2. Shape /\ AnswersOK /\ [Next]_vars => Shape' /\ AnswersOK'
    BY ShapeNext, AnswersNext
  <1>3. AnswersOK => EpochAcksAreOrdered
    BY DEF AnswersOK, EpochAt, EpochAcksAreOrdered, Ordered
  <1> QED
    BY <1>1, <1>2, <1>3, PTL DEF Spec

-----------------------------------------------------------------------------
(* The results.                                                             *)

\* The sequence new begins like old.
Longer(new, old) == \A n \in DOMAIN old : n \in DOMAIN new /\ new[n] = old[n]

LEMMA TruthStays ==
    ASSUME NEW code, NEW f, NEW recs, NEW refused, NEW recs2, NEW refused2,
           Truth(code, f, recs, refused), Longer(recs2, recs), refused \subseteq refused2
    PROVE  Truth(code, f, recs2, refused2)
  BY DEF Truth, Longer

\* No claim of c is new.
Inherits(c) ==
    \A i \in 1 .. Len(handled'[c]) :
        Claim(c, i)' => i \in 1 .. Len(handled[c]) /\ Claim(c, i) /\ handled'[c][i] = handled[c][i]

LEMMA OnceStays ==
    ASSUME OnceOK, \A c \in Conns : Inherits(c)
    PROVE  OnceOK'
  <1> SUFFICES ASSUME NEW c \in Conns, NEW d \in Conns,
                      NEW i \in 1 .. Len(handled'[c]), NEW j \in 1 .. Len(handled'[d]),
                      Claim(c, i)', Claim(d, j)', handled'[c][i].attempt = handled'[d][j].attempt
               PROVE  c = d /\ i = j
    BY DEF OnceOK
  <1>1. i \in 1 .. Len(handled[c]) /\ Claim(c, i) /\ handled'[c][i] = handled[c][i]
    BY DEF Inherits
  <1>2. j \in 1 .. Len(handled[d]) /\ Claim(d, j) /\ handled'[d][j] = handled[d][j]
    BY DEF Inherits
  <1> QED
    BY <1>1, <1>2 DEF OnceOK

\* An attempt with a result is one the coordinator knows.
LEMMA ClaimIsKnown ==
    ASSUME Shape, LedgerOK, NEW c \in Conns, DecisionAt(c), NEW i \in 1 .. Len(handled[c]), Claim(c, i)
    PROVE  handled[c][i].attempt \in known
  <1>1. ASSUME NEW code, NEW f, Truth(code, f, records, ended) PROVE f.attempt \in known
    BY <1>1 DEF Truth, LedgerOK, Shape, CoreShape
  <1>2. CASE i \in DOMAIN replies[c] /\ replies[c][i].kind = "place_result"
    BY <1>1, <1>2 DEF DecisionAt
  <1>3. CASE i = Len(handled[c]) /\ Deciding(c)
    <2>1. handled[c][i] = Frame(c)
      BY <1>3 DEF Frame
    <2>2. CASE thread[c] = "commit"
      BY <2>1, <2>2 DEF Shape, FrameOK
    <2>3. CASE thread[c] # "commit"
      BY <1>1, <1>3, <2>1, <2>3 DEF Deciding, DecisionAt
    <2> QED
      BY <2>2, <2>3
  <1> QED
    BY <1>2, <1>3 DEF Claim

\* A connection that takes no part in the step.
LEMMA ResultsStay ==
    ASSUME NEW d \in Conns, Stays(d), DecisionAt(d), Longer(records', records), ended \subseteq ended',
           thread[d] = "commit" => Frame(d).attempt \notin ended' /\ ~InLedger(Frame(d).attempt, records')
    PROVE  DecisionAt(d)' /\ Inherits(d)
  <1>1. Frame(d)' = Frame(d)
    BY DEF Stays, Frame
  <1>2. Inherits(d)
    BY DEF Stays, Inherits, Claim, Deciding
  <1>3. \A i \in DOMAIN replies[d] : replies[d][i].kind = "place_result" =>
            i <= Len(handled[d]) /\ Truth(replies[d][i].code, handled[d][i], records', ended')
    BY TruthStays DEF DecisionAt
  <1>4. thread[d] = "tally" => Truth(reply[d].code, Frame(d), records', ended')
    BY TruthStays DEF DecisionAt
  <1>5. thread[d] = "send" /\ reply[d].kind = "place_result"
            => Len(handled[d]) > 0 /\ Truth(reply[d].code, Frame(d), records', ended')
    BY TruthStays DEF DecisionAt
  <1>6. DecisionAt(d)'
    BY <1>1, <1>3, <1>4, <1>5 DEF Stays, DecisionAt
  <1> QED
    BY <1>2, <1>6

\* A connection that goes where it has no result in its hands.
LEMMA ResultsIdle ==
    ASSUME Shape, NEW c \in Conns, DecisionAt(c), thread'[c] \notin {"commit", "tally"},
           thread'[c] = "send" => reply'[c].kind # "place_result",
           replies'[c] = replies[c], Longer(handled'[c], handled[c]),
           Len(handled[c]) <= Len(handled'[c]), Len(handled'[c]) \in Nat,
           Longer(records', records), ended \subseteq ended'
    PROVE  DecisionAt(c)' /\ Inherits(c)
  <1>1. ASSUME NEW i \in DOMAIN replies[c], replies[c][i].kind = "place_result"
        PROVE  /\ i \in 1 .. Len(handled[c]) /\ handled'[c][i] = handled[c][i] /\ i <= Len(handled'[c])
               /\ Truth(replies[c][i].code, handled'[c][i], records', ended')
    <2>1. /\ i <= Len(handled[c]) /\ Truth(replies[c][i].code, handled[c][i], records, ended)
          /\ i \in Nat \ {0} /\ Len(handled[c]) \in Nat /\ DOMAIN handled[c] = 1 .. Len(handled[c])
      BY <1>1, AnswerTypes DEF DecisionAt
    <2>2. i \in 1 .. Len(handled[c]) /\ i <= Len(handled'[c])
      BY <2>1
    <2>3. handled'[c][i] = handled[c][i]
      BY <2>1, <2>2 DEF Longer
    <2> QED
      BY <2>1, <2>2, <2>3, TruthStays
  <1>2. DecisionAt(c)'
    BY <1>1 DEF DecisionAt
  <1>3. Inherits(c)
    BY <1>1 DEF Inherits, Claim, Deciding
  <1> QED
    BY <1>2, <1>3

\* A step that decides nothing: the ledger stays, nothing is claimed that was not.
LEMMA ResultsSteady ==
    ASSUME ResultsOK, UNCHANGED <<records, ended>>,
           \A n \in DOMAIN records : records[n].attempt \in known',
           \A d \in Conns : Stays(d) \/ (DecisionAt(d)' /\ Inherits(d))
    PROVE  ResultsOK'
  <1>1. LedgerOK'
    BY DEF ResultsOK, LedgerOK
  <1>2. Longer(records', records) /\ ended \subseteq ended'
    BY DEF Longer
  <1>3. ASSUME NEW d \in Conns PROVE DecisionAt(d)' /\ Inherits(d)
    <2>1. CASE Stays(d)
      <3>1. DecisionAt(d)
        BY DEF ResultsOK
      <3>2. thread[d] = "commit" => Frame(d).attempt \notin ended' /\ ~InLedger(Frame(d).attempt, records')
        BY <3>1 DEF DecisionAt
      <3> QED
        BY <1>2, <2>1, <3>1, <3>2, ResultsStay
    <2> QED
      BY <2>1
  <1>4. OnceOK'
    BY <1>3, OnceStays DEF ResultsOK
  <1> QED
    BY <1>1, <1>3, <1>4 DEF ResultsOK

\* The same, for a step of the thread of c.
LEMMA ResultsSteadyServe ==
    ASSUME Shape, ResultsOK, NEW c \in Conns, Serve(c), UNCHANGED <<records, ended>>,
           known \subseteq known', DecisionAt(c)' /\ Inherits(c)
    PROVE  ResultsOK'
  <1>1. \A d \in Conns : Stays(d) \/ (DecisionAt(d)' /\ Inherits(d))
    BY ServeOthers
  <1>2. \A n \in DOMAIN records : records[n].attempt \in known'
    BY DEF ResultsOK, LedgerOK
  <1> QED
    BY <1>1, <1>2, ResultsSteady

\* The steps of a thread that has no result in its hands after them.
LEMMA IdleResults ==
    ASSUME Shape, AnswersOK, ResultsOK, NEW c \in Conns, Serve(c),
           \/ \E k \in 1 .. Len(wire[c]) : Receive(c, k)
           \/ ReceiveFails(c) \/ TakeFrame(c) \/ Greet(c) \/ LoopTop(c) \/ Fence(c) \/ ReadEpoch(c)
           \/ SetAuthority(c) \/ RereadEpoch(c) \/ Limit(c) \/ RequestStop(c) \/ Return(c) \/ Done(c)
    PROVE  ResultsOK'
  <1>1. UNCHANGED <<records, ended, known, replies>>
    BY DEF Receive, ReceiveFails, TakeFrame, Greet, LoopTop, Fence, ReadEpoch, SetAuthority,
           RereadEpoch, Limit, RequestStop, Return, Done, Goes
  <1>2. Longer(records', records) /\ ended \subseteq ended'
    BY <1>1 DEF Longer
  <1>3. ASSUME NEW k \in 1 .. Len(wire[c]), Receive(c, k) PROVE ResultsOK'
    <2>1. Stays(c) /\ \A d \in Conns \ {c} : Stays(d)
      BY <1>3, ServeOthers DEF Receive, Stays
    <2> QED
      BY <1>1, <2>1, ResultsSteady DEF ResultsOK, LedgerOK
  <1>4. ASSUME thread'[c] \notin {"commit", "tally"},
               thread'[c] = "send" => reply'[c].kind # "place_result",
               Longer(handled'[c], handled[c]), Len(handled[c]) <= Len(handled'[c]),
               Len(handled'[c]) \in Nat
        PROVE  ResultsOK'
    <2>1. DecisionAt(c)
      BY DEF ResultsOK
    <2>2. DecisionAt(c)' /\ Inherits(c)
      BY <1>1, <1>2, <1>4, <2>1, ResultsIdle
    <2> QED
      BY <1>1, <2>2, ResultsSteadyServe
  <1>5. ASSUME handled'[c] = handled[c], thread'[c] \notin {"commit", "tally"},
               thread'[c] = "send" => reply'[c].kind # "place_result"
        PROVE  ResultsOK'
    <2>1. /\ Longer(handled'[c], handled[c]) /\ Len(handled[c]) <= Len(handled'[c])
          /\ Len(handled'[c]) \in Nat
      BY <1>5, AnswerTypes DEF Longer
    <2> QED
      BY <1>4, <1>5, <2>1
  <1>6. CASE ReceiveFails(c) \/ LoopTop(c) \/ Limit(c) \/ RequestStop(c) \/ Return(c) \/ Done(c)
    <2>1. /\ handled' = handled
          /\ thread'[c] \in {"return", "recv", "stop", "top", "left", "done"}
      BY <1>6 DEF ReceiveFails, LoopTop, Limit, RequestStop, Return, Done, Goes, Shape, LinkShape
    <2> QED
      BY <1>5, <2>1
  <1>7. CASE TakeFrame(c)
    <2> DEFINE f == NextFrame(buffer[c])
               h == Handler(thread[c], f)
    <2>1. f \in Frames /\ thread[c] \in {"hello", "recv"}
      BY <1>7, NextNeedsFrame DEF TakeFrame, Shape, LinkShape, Receiving
    <2>2. /\ h.pc \in {"greet", "fence", "epoch", "send"}
          /\ h.pc = "send" => h.reply.kind # "place_result"
      BY <2>1, HandlerGoes, HandlerAnswers
    <2>3. handled'[c] = Append(handled[c], f) /\ thread'[c] = h.pc /\ reply'[c] = h.reply
      BY <1>7 DEF TakeFrame, Shape, LinkShape
    <2> HIDE DEF f, h
    <2>4. /\ Len(handled[c]) \in Nat /\ Len(handled'[c]) = Len(handled[c]) + 1
          /\ \A i \in 1 .. Len(handled[c]) : handled'[c][i] = handled[c][i]
          /\ DOMAIN handled[c] = 1 .. Len(handled[c])
          /\ DOMAIN handled'[c] = 1 .. Len(handled[c]) + 1
      BY <2>1, <2>3, AnswerTypes, AppendProperties
    <2>5. /\ Longer(handled'[c], handled[c]) /\ Len(handled[c]) <= Len(handled'[c])
          /\ Len(handled'[c]) \in Nat
      BY <2>4 DEF Longer
    <2> QED
      BY <1>4, <2>2, <2>3, <2>5
  <1>8. CASE Greet(c)
    <2>1. handled' = handled /\ thread'[c] = "send" /\ reply'[c].kind = "hello_ack"
      BY <1>8 DEF Greet, Answer, NoReply, Shape, LinkShape
    <2> QED
      BY <1>5, <2>1
  <1>9. CASE Fence(c)
    <2>1. /\ handled' = handled /\ thread'[c] \in {"send", "place"}
          /\ reply'[c] \in {NoReply, Answer("error", "fenced_stale_epoch")}
      BY <1>9 DEF Fence, Goes, Shape, LinkShape
    <2>2. NoReply.kind = "none" /\ Answer("error", "fenced_stale_epoch").kind = "error"
      BY DEF NoReply, Answer
    <2> QED
      BY <1>5, <2>1, <2>2
  <1>10. CASE ReadEpoch(c) \/ SetAuthority(c)
    <2>1. handled' = handled /\ thread'[c] \in {"apply", "reread"}
      BY <1>10 DEF ReadEpoch, SetAuthority, Goes, Shape, LinkShape
    <2> QED
      BY <1>5, <2>1
  <1>11. CASE RereadEpoch(c)
    <2>1. /\ handled' = handled /\ thread'[c] = "send"
          /\ reply'[c] = [reply[c] EXCEPT !.epoch = fabricEpoch]
      BY <1>11 DEF RereadEpoch, Goes, Shape, LinkShape
    <2>2. reply[c].kind = "epoch_ack" /\ reply[c] \in Replies
      BY <1>11, AnswerTypes DEF RereadEpoch, AnswersOK, EpochAt
    <2>3. reply'[c].kind = "epoch_ack"
      BY <2>1, <2>2 DEF Replies
    <2> QED
      BY <1>5, <2>1, <2>3
  <1> QED
    BY <1>3, <1>6, <1>7, <1>8, <1>9, <1>10, <1>11

\* The registration in PlaceNow: the one step that claims an attempt.
LEMMA RegisterResults ==
    ASSUME Shape, ResultsOK, NEW c \in Conns, Register(c)
    PROVE  ResultsOK'
  <1>0. Serve(c)
    BY DEF Serve
  <1>1. DecisionAt(c) /\ UNCHANGED <<records, ended, replies, handled>> /\ known \subseteq known'
    BY DEF ResultsOK, Register, Goes
  <1>2. ASSUME NEW code, Goes(c, "send", Answer("error", code)) PROVE ResultsOK'
    <2>1. thread'[c] = "send" /\ reply'[c] = Answer("error", code)
      BY <1>2 DEF Goes, Shape, LinkShape
    <2>2. reply'[c].kind = "error"
      BY <2>1 DEF Answer, NoReply
    <2>3. /\ Longer(handled'[c], handled[c]) /\ Len(handled[c]) <= Len(handled'[c])
          /\ Len(handled'[c]) \in Nat /\ Longer(records', records)
      BY <1>1, AnswerTypes DEF Longer
    <2>4. DecisionAt(c)' /\ Inherits(c)
      BY <1>1, <2>1, <2>2, <2>3, ResultsIdle
    <2> QED
      BY <1>0, <1>1, <2>4, ResultsSteadyServe
  <1>3. ASSUME Registration(Frame(c)) = "ok", Goes(c, "commit", NoReply) PROVE ResultsOK'
    <2>1. thread'[c] = "commit" /\ thread[c] = "place" /\ Frame(c)' = Frame(c)
      BY <1>1, <1>3 DEF Goes, Register, Frame, Shape, LinkShape
    <2>2. Frame(c).attempt \notin known
      BY <1>3 DEF Registration
    <2>3. LedgerOK /\ ended \subseteq known
      BY DEF ResultsOK, Shape, CoreShape
    <2>4. Frame(c).attempt \notin ended /\ ~InLedger(Frame(c).attempt, records)
      BY <2>2, <2>3 DEF LedgerOK, InLedger
    <2>5. DecisionAt(c)'
      BY <1>1, <2>1, <2>4 DEF DecisionAt
    <2>6. LedgerOK'
      BY <1>1, <2>3 DEF LedgerOK
    <2>7. ASSUME NEW d \in Conns, d # c PROVE DecisionAt(d)' /\ Inherits(d)
      <3>1. Stays(d)
        BY <1>0, <2>7, ServeOthers
      <3>2. Longer(records', records) /\ ended \subseteq ended' /\ DecisionAt(d)
        BY <1>1 DEF Longer, ResultsOK
      <3>3. thread[d] = "commit" => Frame(d).attempt \notin ended' /\ ~InLedger(Frame(d).attempt, records')
        BY <1>1, <3>2 DEF DecisionAt
      <3> QED
        BY <3>1, <3>2, <3>3, ResultsStay
    <2>8. \A d \in Conns : \A i \in 1 .. Len(handled[d]) :
              Claim(d, i) => handled[d][i].attempt \in known
      BY <2>3, ClaimIsKnown DEF ResultsOK
    <2>9. ASSUME NEW d \in Conns, NEW i \in 1 .. Len(handled[d]), Claim(d, i)'
          PROVE  \/ Claim(d, i)
                 \/ d = c /\ i = Len(handled[c]) /\ handled[d][i].attempt \notin known
      <3>1. CASE d # c
        BY <1>1, <2>7, <2>9, <3>1 DEF Inherits
      <3>2. CASE d = c
        BY <1>1, <2>2, <2>9, <3>2 DEF Claim, Frame
      <3> QED
        BY <3>1, <3>2
    <2>10. OnceOK'
      <3> SUFFICES ASSUME NEW d \in Conns, NEW e \in Conns,
                          NEW i \in 1 .. Len(handled[d]), NEW j \in 1 .. Len(handled[e]),
                          Claim(d, i)', Claim(e, j)', handled[d][i].attempt = handled[e][j].attempt
                   PROVE  d = e /\ i = j
        BY <1>1 DEF OnceOK
      <3> QED
        BY <2>8, <2>9 DEF ResultsOK, OnceOK
    <2> QED
      BY <2>5, <2>6, <2>7, <2>10 DEF ResultsOK
  <1> QED
    BY <1>2, <1>3 DEF Register

\* The commit in PlaceNow: a record or a refusal, of an attempt no other thread holds.
LEMMA CommitResults ==
    ASSUME Shape, ResultsOK, NEW c \in Conns, CommitPlacement(c)
    PROVE  ResultsOK'
  <1>0. Serve(c)
    BY DEF Serve
  <1> DEFINE a == Frame(c).attempt
  <1>1. /\ thread[c] = "commit" /\ UNCHANGED <<known, handled, replies>> /\ thread'[c] = "tally"
        /\ Frame(c)' = Frame(c)
    BY DEF CommitPlacement, Goes, Frame, Shape, LinkShape
  <1>2. /\ LedgerOK /\ DecisionAt(c) /\ OnceOK /\ a \in known /\ a \notin ended /\ ~InLedger(a, records)
        /\ Len(handled[c]) \in 1 .. Len(handled[c])
    <2>1. Len(handled[c]) > 0 /\ a \in known
      BY <1>1 DEF Shape, FrameOK, Working, Placing
    <2>2. Len(handled[c]) \in Nat
      BY AnswerTypes
    <2>3. DecisionAt(c)
      BY DEF ResultsOK
    <2>4. a \notin ended /\ ~InLedger(a, records)
      BY <1>1, <2>3 DEF DecisionAt
    <2> QED
      BY <2>1, <2>2, <2>3, <2>4 DEF ResultsOK
  <1>3. ASSUME NEW d \in Conns, d # c, thread[d] = "commit" PROVE Frame(d).attempt # a
    <2>1. Len(handled[d]) > 0 /\ Len(handled[d]) \in Nat
      BY <1>3, AnswerTypes DEF Shape, FrameOK, Working, Placing
    <2>2. Claim(c, Len(handled[c])) /\ Claim(d, Len(handled[d]))
      BY <1>1, <1>3 DEF Claim, Deciding
    <2> QED
      BY <1>2, <1>3, <2>1, <2>2 DEF OnceOK, Frame
  <1> HIDE DEF a
  \* What both outcomes share.
  <1>4. ASSUME LedgerOK', Longer(records', records), ended \subseteq ended',
               Truth(reply'[c].code, Frame(c), records', ended'),
               \A x : x # a /\ x \notin ended /\ ~InLedger(x, records) =>
                          x \notin ended' /\ ~InLedger(x, records')
        PROVE  ResultsOK'
    <2>1. ASSUME NEW i \in DOMAIN replies[c], replies[c][i].kind = "place_result"
          PROVE  i <= Len(handled[c]) /\ Truth(replies[c][i].code, handled[c][i], records', ended')
      BY <1>2, <1>4, <2>1, TruthStays DEF DecisionAt
    <2>2. DecisionAt(c)'
      BY <1>1, <1>4, <2>1 DEF DecisionAt
    <2>3. Inherits(c)
      BY <1>1, <1>2 DEF Inherits, Claim, Deciding
    <2>4. ASSUME NEW d \in Conns, d # c PROVE DecisionAt(d)' /\ Inherits(d)
      <3>1. Stays(d)
        BY <1>0, <2>4, ServeOthers
      <3>2. DecisionAt(d)
        BY DEF ResultsOK
      <3>3. thread[d] = "commit" => Frame(d).attempt \notin ended' /\ ~InLedger(Frame(d).attempt, records')
        BY <1>3, <1>4, <2>4, <3>2 DEF DecisionAt
      <3> QED
        BY <1>4, <3>1, <3>2, <3>3, ResultsStay
    <2>5. OnceOK'
      BY <1>2, <2>3, <2>4, OnceStays
    <2> QED
      BY <1>4, <2>2, <2>4, <2>5 DEF ResultsOK
  <1>5. CASE /\ Current(Frame(c)) /\ Ledger!Record(Frame(c).attempt) /\ UNCHANGED ended
             /\ Goes(c, "tally", Answer("place_result", "committed"))
    <2> DEFINE e == [attempt |-> a, epoch |-> Frame(c).expected]
    <2>1. records' = Append(records, e)
      BY <1>5 DEF Ledger!Record, Current, a
    <2>2. records \in Seq(Entries) /\ e.attempt = a
      BY DEF Shape, CoreShape
    <2> HIDE DEF e
    <2>3. /\ DOMAIN records = 1 .. Len(records) /\ DOMAIN records' = 1 .. Len(records) + 1
          /\ Len(records) \in Nat /\ records'[Len(records) + 1] = e
          /\ \A n \in 1 .. Len(records) : records'[n] = records[n]
      BY <2>1, <2>2
    <2>4. Longer(records', records)
      BY <2>3 DEF Longer
    <2>5. \A x : x # a /\ ~InLedger(x, records) => ~InLedger(x, records')
      <3> SUFFICES ASSUME NEW x, x # a, ~InLedger(x, records), InLedger(x, records') PROVE FALSE
        OBVIOUS
      <3>1. PICK n \in DOMAIN records' : records'[n].attempt = x
        BY DEF InLedger
      <3>2. n # Len(records) + 1
        BY <2>2, <2>3, <3>1
      <3>3. n \in DOMAIN records /\ records[n].attempt = x
        BY <2>3, <3>1, <3>2
      <3> QED
        BY <3>3 DEF InLedger
    <2>6. LedgerOK'
      <3>1. ASSUME NEW n \in DOMAIN records' PROVE records'[n].attempt \in known
        <4>1. CASE n = Len(records) + 1
          BY <1>2, <2>2, <2>3, <4>1
        <4>2. CASE n # Len(records) + 1
          BY <1>2, <2>3, <4>2 DEF LedgerOK
        <4> QED
          BY <4>1, <4>2
      <3>2. \A x \in ended : ~InLedger(x, records')
        BY <1>2, <2>5 DEF LedgerOK
      <3> QED
        BY <1>1, <1>5, <3>1, <3>2 DEF LedgerOK
    <2>7. reply'[c].code = "committed"
      BY <1>5 DEF Goes, Answer, NoReply, Shape, LinkShape
    <2>8. Truth(reply'[c].code, Frame(c), records', ended')
      <3>1. Len(records) + 1 \in DOMAIN records' /\ records'[Len(records) + 1] = e
        BY <2>3
      <3> QED
        BY <2>7, <3>1 DEF Truth, e, a
    <2> QED
      BY <1>4, <1>5, <2>4, <2>5, <2>6, <2>8
  <1>6. ASSUME NEW code \in {"rejected", "fenced"}, Goes(c, "tally", Answer("place_result", code)),
               ended' = ended \cup {a}, UNCHANGED records
        PROVE  ResultsOK'
    <2>1. reply'[c].code = code
      BY <1>6 DEF Goes, Answer, NoReply, Shape, LinkShape
    <2>2. Truth(reply'[c].code, Frame(c), records', ended')
      BY <1>6, <2>1 DEF Truth, a
    <2>3. LedgerOK'
      BY <1>1, <1>2, <1>6 DEF LedgerOK
    <2>4. Longer(records', records)
      BY <1>6 DEF Longer
    <2> QED
      BY <1>4, <1>6, <2>2, <2>3, <2>4
  <1> QED
    BY <1>5, <1>6 DEF CommitPlacement, a

LEMMA TallyResults ==
    ASSUME Shape, ResultsOK, AnswersOK, NEW c \in Conns, Tally(c)
    PROVE  ResultsOK'
  <1>0. Serve(c)
    BY DEF Serve
  <1>1. /\ thread[c] = "tally" /\ thread'[c] = "send" /\ reply'[c] = reply[c]
        /\ UNCHANGED <<records, ended, known, handled, replies>> /\ Frame(c)' = Frame(c)
    BY DEF Tally, Goes, Frame, Shape, LinkShape
  <1>2. DecisionAt(c) /\ Len(handled[c]) > 0
    BY <1>1 DEF ResultsOK, Shape, FrameOK, Working, Placing
  <1>3. DecisionAt(c)'
    BY <1>1, <1>2 DEF DecisionAt
  <1>4. Inherits(c)
    BY <1>1 DEF Inherits, Claim, Deciding
  <1> QED
    BY <1>0, <1>1, <1>3, <1>4, ResultsSteadyServe

LEMMA SendResults ==
    ASSUME Shape, ResultsOK, AnswersOK, NEW c \in Conns, Send(c)
    PROVE  ResultsOK'
  <1>0. Serve(c)
    BY DEF Serve
  <1>1. PICK ok \in BOOLEAN :
            /\ thread' = [thread EXCEPT ![c] = AfterSend(reply[c], ok)]
            /\ replies' = IF ok /\ peer[c] = "open"
                          THEN [replies EXCEPT ![c] = Append(replies[c], reply[c])] ELSE replies
    BY DEF Send, Shape, LinkShape
  <1>2. /\ thread[c] = "send" /\ UNCHANGED <<records, ended, known, handled>>
        /\ thread'[c] \in {"return", "top", "stop", "limit"}
    BY <1>1 DEF Send, AfterSend, Shape, LinkShape
  <1>3. DecisionAt(c)
    BY DEF ResultsOK
  <1>4. CASE ok /\ peer[c] = "open"
    <2>1. replies'[c] = Append(replies[c], reply[c])
      BY <1>1, <1>4 DEF Shape, LinkShape
    <2>2. /\ Len(replies[c]) \in Nat /\ Len(handled[c]) \in Nat
          /\ DOMAIN replies'[c] = 1 .. Len(replies[c]) + 1
          /\ DOMAIN replies[c] = 1 .. Len(replies[c])
          /\ replies'[c][Len(replies[c]) + 1] = reply[c]
          /\ \A i \in 1 .. Len(replies[c]) : replies'[c][i] = replies[c][i]
      BY <2>1, AnswerTypes, AppendProperties
    <2>3. Len(handled[c]) = Len(replies[c]) + 1
      BY <1>2, <1>4 DEF AnswersOK, AlignedAt
    <2>4. ASSUME NEW i \in DOMAIN replies'[c], replies'[c][i].kind = "place_result"
          PROVE  /\ Claim(c, i) /\ i \in 1 .. Len(handled[c])
                 /\ Truth(replies'[c][i].code, handled[c][i], records, ended)
      <3>1. CASE i = Len(replies[c]) + 1
        <4>1. reply[c].kind = "place_result" /\ replies'[c][i] = reply[c]
          BY <2>2, <2>4, <3>1
        <4>2. Truth(reply[c].code, Frame(c), records, ended)
          BY <1>2, <1>3, <4>1 DEF DecisionAt
        <4>3. Claim(c, i) /\ i \in 1 .. Len(handled[c]) /\ handled[c][i] = Frame(c)
          BY <1>2, <2>2, <2>3, <3>1, <4>1 DEF Claim, Deciding, Frame
        <4> QED
          BY <4>1, <4>2, <4>3
      <3>2. CASE i # Len(replies[c]) + 1
        <4>1. i \in 1 .. Len(replies[c]) /\ i \in DOMAIN replies[c] /\ replies'[c][i] = replies[c][i]
          BY <2>2, <3>2
        <4>2. i \in 1 .. Len(handled[c]) /\ Claim(c, i)
          BY <2>2, <2>3, <2>4, <4>1 DEF Claim
        <4> QED
          BY <1>3, <2>4, <4>1, <4>2 DEF DecisionAt
      <3> QED
        BY <3>1, <3>2
    <2>5. DecisionAt(c)'
      <3>1. \A i \in 1 .. Len(handled[c]) : i <= Len(handled[c])
        BY <2>2
      <3> QED
        BY <1>2, <2>4, <3>1 DEF DecisionAt
    <2>6. Inherits(c)
      BY <1>2, <2>4 DEF Inherits, Claim, Deciding
    <2> QED
      BY <1>0, <1>2, <2>5, <2>6, ResultsSteadyServe
  <1>5. CASE ~(ok /\ peer[c] = "open")
    <2>1. replies' = replies
      BY <1>1, <1>5
    <2>2. /\ Longer(handled'[c], handled[c]) /\ Len(handled[c]) <= Len(handled'[c])
          /\ Len(handled'[c]) \in Nat /\ Longer(records', records) /\ ended \subseteq ended'
      BY <1>2, AnswerTypes DEF Longer
    <2>3. DecisionAt(c)' /\ Inherits(c)
      BY <1>2, <1>3, <2>1, <2>2, ResultsIdle
    <2> QED
      BY <1>0, <1>2, <2>3, ResultsSteadyServe
  <1> QED
    BY <1>4, <1>5

LEMMA ResultsInit == Init => ResultsOK
  <1> SUFFICES ASSUME Init PROVE ResultsOK
    OBVIOUS
  <1>1. records = <<>> /\ ended = {}
    BY DEF Init, Ledger!Init
  <1>2. \A c \in Conns : thread[c] = "none" /\ replies[c] = <<>>
    BY DEF Init
  <1>3. LedgerOK
    BY <1>1 DEF LedgerOK
  <1>4. \A c \in Conns : DecisionAt(c)
    BY <1>2 DEF DecisionAt
  <1>5. OnceOK
    BY <1>2 DEF OnceOK, Claim, Deciding
  <1> QED
    BY <1>3, <1>4, <1>5 DEF ResultsOK

LEMMA MainResults ==
    ASSUME Shape, ResultsOK, Main
    PROVE  ResultsOK'
  <1> USE DEF Shape, LinkShape
  <1>1. UNCHANGED <<records, ended, known, handled>>
    BY DEF Main, ReapConnections, LeaveLoop, AllClosed, Finish, Accept, CloseConnection
  <1>2. \A n \in DOMAIN records : records[n].attempt \in known'
    BY <1>1 DEF ResultsOK, LedgerOK
  <1>3. ASSUME NEW d \in Conns, thread'[d] \in {"reaped", "hello"}, replies'[d] = replies[d]
        PROVE  DecisionAt(d)' /\ Inherits(d)
    <2>1. /\ Longer(handled'[d], handled[d]) /\ Len(handled[d]) <= Len(handled'[d])
          /\ Len(handled'[d]) \in Nat /\ Longer(records', records) /\ ended \subseteq ended'
      BY <1>1, AnswerTypes DEF Longer
    <2>2. DecisionAt(d)
      BY DEF ResultsOK
    <2> QED
      BY <1>3, <2>1, <2>2, ResultsIdle
  <1>4. ASSUME \A d \in Conns : Stays(d) \/ (DecisionAt(d)' /\ Inherits(d)) PROVE ResultsOK'
    BY <1>1, <1>2, <1>4, ResultsSteady
  <1>5. CASE ReapConnections
    <2>1. \A d \in Conns : Stays(d) \/ (thread'[d] = "reaped" /\ replies'[d] = replies[d])
      BY <1>1, <1>5 DEF ReapConnections, Stays
    <2> QED
      BY <1>3, <1>4, <2>1
  <1>6. CASE LeaveLoop \/ AllClosed \/ Finish \/ \E c \in Conns : CloseConnection(c)
    <2>1. \A d \in Conns : Stays(d)
      BY <1>6 DEF LeaveLoop, AllClosed, Finish, CloseConnection, Stays
    <2> QED
      BY <1>4, <2>1
  <1>7. ASSUME NEW c \in Conns, Accept(c) PROVE ResultsOK'
    <2>1. thread[c] = "none" /\ handled[c] = <<>> /\ replies[c] = <<>>
      BY <1>7 DEF Accept, FreshOK
    <2>2. \A d \in Conns \ {c} : Stays(d)
      BY <1>7 DEF Accept, Stays
    <2>3. CASE AtLimit
      <3>1. thread' = thread /\ replies'[c] = Append(replies[c], Answer("error", "worker_limit_exceeded"))
        BY <1>7, <2>3 DEF Accept
      <3>2. replies'[c] = <<Answer("error", "worker_limit_exceeded")>>
        BY <2>1, <3>1
      <3>3. Answer("error", "worker_limit_exceeded").kind = "error"
        BY DEF Answer, NoReply
      <3>4. \A i \in DOMAIN replies'[c] : replies'[c][i].kind = "error"
        BY <3>2, <3>3
      <3>5. DecisionAt(c)'
        BY <2>1, <3>1, <3>4 DEF DecisionAt
      <3>6. Inherits(c)
        BY <2>1, <3>1, <3>4 DEF Inherits, Claim, Deciding
      <3> QED
        BY <1>4, <2>2, <3>5, <3>6
    <2>4. CASE ~AtLimit
      <3>1. thread'[c] = "hello" /\ replies' = replies
        BY <1>7, <2>4 DEF Accept
      <3> QED
        BY <1>3, <1>4, <2>2, <3>1
    <2> QED
      BY <2>3, <2>4
  <1> QED
    BY <1>5, <1>6, <1>7 DEF Main

LEMMA ResultsNext == Shape /\ AnswersOK /\ ResultsOK /\ [Next]_vars => ResultsOK'
  <1> SUFFICES ASSUME Shape, AnswersOK, ResultsOK, [Next]_vars PROVE ResultsOK'
    OBVIOUS
  <1>1. ASSUME UNCHANGED <<records, ended, known, handled, thread, reply, replies, bound>>
        PROVE  ResultsOK'
    <2>1. \A d \in Conns : Stays(d)
      BY <1>1 DEF Stays
    <2> QED
      BY <1>1, <2>1, ResultsSteady DEF ResultsOK, LedgerOK
  <1>2. ASSUME NEW c \in Conns, Peer(c) PROVE ResultsOK'
    BY <1>1, <1>2 DEF Peer, Connect, PeerSend, PeerRead, PeerGone
  <1>3. CASE UNCHANGED vars
    BY <1>1, <1>3 DEF vars
  <1>4. ASSUME NEW c \in Conns, Serve(c) PROVE ResultsOK'
    <2>1. ASSUME \/ \E k \in 1 .. Len(wire[c]) : Receive(c, k)
                 \/ ReceiveFails(c) \/ TakeFrame(c) \/ Greet(c) \/ LoopTop(c) \/ Fence(c)
                 \/ ReadEpoch(c) \/ SetAuthority(c) \/ RereadEpoch(c) \/ Limit(c)
                 \/ RequestStop(c) \/ Return(c) \/ Done(c)
          PROVE  ResultsOK'
      BY <1>4, <2>1, IdleResults
    <2> QED
      BY <1>4, <2>1, RegisterResults, CommitResults, TallyResults, SendResults DEF Serve
  <1>5. ASSUME NEW e \in 1 .. MaxEpoch, Crash(e) PROVE ResultsOK'
    <2>1. /\ \A c \in Conns : thread'[c] \in {"none", "reaped"}
          /\ UNCHANGED <<records, ended, handled, replies>>
          /\ known' = ended \cup {records[i].attempt : i \in DOMAIN records}
      BY <1>5 DEF Crash, Ledger!Restart
    <2>2. \A n \in DOMAIN records : records[n].attempt \in known'
      BY <2>1
    <2>3. ASSUME NEW d \in Conns PROVE DecisionAt(d)' /\ Inherits(d)
      <3>1. /\ Longer(handled'[d], handled[d]) /\ Len(handled[d]) <= Len(handled'[d])
            /\ Len(handled'[d]) \in Nat /\ Longer(records', records) /\ ended \subseteq ended'
        BY <2>1, AnswerTypes DEF Longer
      <3>2. DecisionAt(d)
        BY DEF ResultsOK
      <3> QED
        BY <2>1, <3>1, <3>2, ResultsIdle
    <2> QED
      BY <2>1, <2>2, <2>3, ResultsSteady
  <1> QED
    BY <1>2, <1>3, <1>4, <1>5, MainResults DEF Next

\* Whatever epoch changes, retries on other connections, lost connections and
\* crashes come between, a committed result means one durable record under the
\* epoch the request expected and no other request is told so; a request that was
\* told it was fenced or rejected never has a record.
THEOREM ResultsStayTrue == Spec => []ResultsAreTrue
  <1>1. Init => Shape /\ AnswersOK /\ ResultsOK
    BY ShapeInit, AnswersInit, ResultsInit
  <1>2. Shape /\ AnswersOK /\ ResultsOK /\ [Next]_vars => Shape' /\ AnswersOK' /\ ResultsOK'
    BY ShapeNext, AnswersNext, ResultsNext
  <1>3. Shape /\ ResultsOK => ResultsAreTrue
    <2> SUFFICES ASSUME Shape, ResultsOK, NEW c \in Conns, NEW i \in DOMAIN replies[c]
                 PROVE  /\ IsResult(c, i, "committed") =>
                              /\ \E n \in DOMAIN records :
                                    records[n] = [attempt |-> handled[c][i].attempt,
                                                  epoch |-> handled[c][i].expected]
                              /\ \A d \in Conns : \A j \in DOMAIN replies[d] :
                                    IsResult(d, j, "committed")
                                    /\ handled[d][j].attempt = handled[c][i].attempt
                                        => d = c /\ j = i
                        /\ IsResult(c, i, "fenced") \/ IsResult(c, i, "rejected") =>
                              ~Ledger!Recorded(handled[c][i].attempt)
      BY DEF ResultsAreTrue
    <2>1. ASSUME NEW d \in Conns, NEW j \in DOMAIN replies[d], replies[d][j].kind = "place_result"
          PROVE  /\ j \in 1 .. Len(handled[d]) /\ Claim(d, j)
                 /\ Truth(replies[d][j].code, handled[d][j], records, ended)
      <3>1. DecisionAt(d)
        BY DEF ResultsOK
      <3>2. j \in Nat \ {0} /\ Len(handled[d]) \in Nat
        BY AnswerTypes
      <3> QED
        BY <2>1, <3>1, <3>2 DEF DecisionAt, Claim
    <2>2. ASSUME IsResult(c, i, "committed")
          PROVE  /\ \E n \in DOMAIN records :
                        records[n] = [attempt |-> handled[c][i].attempt,
                                      epoch |-> handled[c][i].expected]
                 /\ \A d \in Conns : \A j \in DOMAIN replies[d] :
                        IsResult(d, j, "committed") /\ handled[d][j].attempt = handled[c][i].attempt
                            => d = c /\ j = i
      <3>1. Truth("committed", handled[c][i], records, ended) /\ Claim(c, i) /\ i \in 1 .. Len(handled[c])
        BY <2>1, <2>2 DEF IsResult
      <3>2. \E n \in DOMAIN records : records[n] = [attempt |-> handled[c][i].attempt,
                                                    epoch |-> handled[c][i].expected]
        BY <3>1 DEF Truth
      <3>3. ASSUME NEW d \in Conns, NEW j \in DOMAIN replies[d], IsResult(d, j, "committed"),
                   handled[d][j].attempt = handled[c][i].attempt
            PROVE  d = c /\ j = i
        BY <2>1, <3>1, <3>3 DEF IsResult, ResultsOK, OnceOK
      <3> QED
        BY <3>2, <3>3
    <2>3. ASSUME IsResult(c, i, "fenced") \/ IsResult(c, i, "rejected")
          PROVE  ~Ledger!Recorded(handled[c][i].attempt)
      <3>1. handled[c][i].attempt \in ended
        BY <2>1, <2>3 DEF IsResult, Truth
      <3> QED
        BY <3>1 DEF ResultsOK, LedgerOK, InLedger, Ledger!Recorded
    <2> QED
      BY <2>2, <2>3
  <1> QED
    BY <1>1, <1>2, <1>3, PTL DEF Spec

=============================================================================
