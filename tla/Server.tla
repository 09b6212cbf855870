------------------------------- MODULE Server -------------------------------
(***************************************************************************)
(* The coordinator process as its workers see it: src/src/server.cpp over    *)
(* src/src/transport.cpp and src/src/wire.cpp.  One thread accepts and reaps, *)
(* one thread serves each connection, peers send frames whose bytes arrive in *)
(* any chunks.  The coordinator behind it is what Ledger.tla promises (and    *)
(* Coordinator.tla implements), with a store no write of which fails and no   *)
(* recovery of which forgets an attempt; a crash kills the process between    *)
(* any two steps and a new one is started on the same store.                  *)
(***************************************************************************)
EXTENDS Wire, Integers, FiniteSets

CONSTANTS
    Conns,            \* connections the peers may ever open
    Attempts,
    Casts,            \* what the peers want to send: sets of scripts, one for each connection
    MaxConnections, MaxRequests,    \* ServerOptions; MaxRequests = 0: unbounded
    MinBound, DefaultBound,         \* kMinMaxFrameBytes, kDefaultMaxFrameBytes
    OptionBound,      \* options.max_frame_bytes
    ReplySize(_),     \* body size of the server's frames, by kind
    Window,           \* replies a socket takes before send blocks (bound)
    MaxEpoch, MaxCrashes,           \* bounds
    CrashCasts        \* the casts in which the process may die

ASSUME OptionsAssumption ==
    /\ CrashCasts \subseteq Casts
    /\ MaxConnections \in Nat \ {0} /\ MaxRequests \in Nat
    /\ MinBound \in Nat /\ DefaultBound \in Nat /\ MinBound <= DefaultBound
    /\ OptionBound \in 0 .. DefaultBound
    /\ MaxEpoch \in Nat \ {0} /\ MaxCrashes \in Nat

\* The message of an error frame is one of the short literals of server.cpp,
\* runtime.cpp and wire.cpp: an error fits every bound EncodeFrame accepts.
ASSUME ErrorAssumption == ReplySize("error") \in Nat /\ ReplySize("error") <= MinBound

\* What a peer may send: a place request names an attempt, a set_epoch an epoch.
Frames ==
    {f \in [kind : STRING, size : Nat, intact : BOOLEAN, decodes : BOOLEAN, version : BOOLEAN,
            attempt : Attempts \cup {0}, epoch : Nat, expected : Nat, bound : Nat] :
        /\ f.kind = "place_request" => f.attempt \in Attempts
        /\ f.kind = "set_epoch" => f.epoch \in 1 .. MaxEpoch}

ASSUME CastAssumption ==
    \A cast \in Casts :
        cast \in [Conns -> [comes : BOOLEAN, leaves : BOOLEAN, eager : BOOLEAN,
                          frames : Seq(Frames)]]

VARIABLES
    incarnation, fabricEpoch, records,   \* Ledger
    known,       \* attempts the coordinator has a slot or a start record for
    ended,       \* attempts whose refusal is journalled
    main, stop, live, served, committed, \* RunServer and the ServerContext counters
    inherited,   \* placements found at start
    script, peer, sent, got, wire,       \* the peers and the bytes on their way
    link, bound, buffer, thread, handled, reply, replies

coordinator == <<incarnation, fabricEpoch, records, known, ended>>
context == <<main, stop, live, served, committed, inherited>>
peers == <<script, peer, sent, got, wire>>
connections == <<link, bound, buffer, thread, handled, reply, replies>>
vars == <<coordinator, context, peers, connections>>

\* Assumed of the store: compaction has not aged an attempt out, and no write failed.
Ledger == INSTANCE Ledger WITH forgotten <- {}, faulty <- FALSE

Gone == {"none", "done", "reaped"}       \* a connection with no running thread
Frame(c) == handled[c][Len(handled[c])]  \* what the thread is working on

NoReply == [kind |-> "none", code |-> "ok", epoch |-> 0, previous |-> 0]
Answer(kind, code) == [NoReply EXCEPT !.kind = kind, !.code = code]

-----------------------------------------------------------------------------
(* Start and crash.                                                         *)

\* RunServer up to its loop: a fresh ServerContext and an open listener.
FreshContext ==
    [main |-> "wait", stop |-> FALSE, live |-> 0, served |-> 0, committed |-> 0]

Init ==
    /\ Ledger!Init
    /\ known = {} /\ ended = {} /\ inherited = 0
    /\ main = FreshContext.main /\ stop = FreshContext.stop /\ live = FreshContext.live
    /\ served = FreshContext.served /\ committed = FreshContext.committed
    /\ script \in Casts
    /\ peer = [c \in Conns |-> "away"] /\ sent = [c \in Conns |-> 0]
    /\ got = [c \in Conns |-> 0] /\ wire = [c \in Conns |-> <<>>]
    /\ link = [c \in Conns |-> "none"] /\ bound = [c \in Conns |-> DefaultBound]
    /\ buffer = [c \in Conns |-> <<>>] /\ thread = [c \in Conns |-> "none"]
    /\ handled = [c \in Conns |-> <<>>] /\ reply = [c \in Conns |-> NoReply]
    /\ replies = [c \in Conns |-> <<>>]

\* The process dies and is started again with some options.epoch.  Every open
\* connection breaks; what is durable is what the store holds, and under the
\* assumption on Ledger the recovered store knows every attempt that ended.
Crash(e) ==
    /\ incarnation < MaxCrashes /\ script \in CrashCasts /\ main # "finished"
    /\ fabricEpoch' = e /\ Ledger!Restart
    /\ known' = ended \cup {records[i].attempt : i \in DOMAIN records}
    /\ inherited' = Len(records)
    /\ main' = FreshContext.main /\ stop' = FreshContext.stop /\ live' = FreshContext.live
    /\ served' = FreshContext.served /\ committed' = FreshContext.committed
    /\ peer' = [c \in Conns |-> IF link[c] = "none" THEN peer[c] ELSE "gone"]
    /\ link' = [c \in Conns |-> IF link[c] = "none" THEN "none" ELSE "closed"]
    /\ wire' = [c \in Conns |-> <<>>] /\ buffer' = [c \in Conns |-> <<>>]
    /\ thread' = [c \in Conns |-> IF link[c] = "none" THEN "none" ELSE "reaped"]
    /\ reply' = [c \in Conns |-> NoReply]
    /\ UNCHANGED <<ended, script, sent, got, bound, handled, replies>>

-----------------------------------------------------------------------------
(* Peers: ConnectWorker, RunWorker and less patient programs.               *)

\* TcpConnection::Connect, retried until the listener is there.
Connect(c) ==
    /\ peer[c] = "away" /\ main # "finished" /\ script[c].comes
    /\ peer' = [peer EXCEPT ![c] = "open"]
    /\ link' = [link EXCEPT ![c] = "backlog"]
    /\ UNCHANGED <<coordinator, context, script, sent, got, wire,
                   bound, buffer, thread, handled, reply, replies>>

\* A worker sends its next frame when it has the reply to the last one, and only
\* after an accepted handshake; an eager peer sends everything at once.
MaySend(c) ==
    \/ script[c].eager
    \/ /\ got[c] = sent[c]
       /\ got[c] > 0 => replies[c][1].kind = "hello_ack" /\ replies[c][1].code = "ok"

PeerSend(c) ==
    /\ peer[c] = "open" /\ sent[c] < Len(script[c].frames) /\ MaySend(c)
    /\ sent' = [sent EXCEPT ![c] = @ + 1]
    /\ wire' = [wire EXCEPT ![c] = @ \o EncodeFrame(script[c].frames[sent[c] + 1])]
    /\ UNCHANGED <<coordinator, context, script, peer, got, connections>>

PeerRead(c) ==
    /\ peer[c] = "open" /\ got[c] < Len(replies[c])
    /\ got' = [got EXCEPT ![c] = @ + 1]
    /\ UNCHANGED <<coordinator, context, script, peer, sent, wire, connections>>

\* The peer closes or dies; some of its last bytes may never arrive.
PeerGone(c, k) ==
    /\ peer[c] = "open" /\ script[c].leaves
    /\ peer' = [peer EXCEPT ![c] = "gone"]
    /\ wire' = [wire EXCEPT ![c] = SubSeq(@, 1, k)]
    /\ UNCHANGED <<coordinator, context, script, sent, got, connections>>

-----------------------------------------------------------------------------
(* ReceiveFrame.                                                            *)

Receiving(c) == thread[c] \in {"hello", "recv"}

\* recv returns some of the bytes that have arrived.
Receive(c, k) ==
    /\ Receiving(c) /\ link[c] = "open" /\ NextStatus(buffer[c], bound[c]) = "none"
    /\ buffer' = [buffer EXCEPT ![c] = @ \o SubSeq(wire[c], 1, k)]
    /\ wire' = [wire EXCEPT ![c] = SubSeq(@, k + 1, Len(@))]
    /\ UNCHANGED <<coordinator, context, script, peer, sent, got,
                   link, bound, thread, handled, reply, replies>>

\* The socket is closed, the peer is gone, or the stream holds no valid frame.
ReceiveFails(c) ==
    /\ Receiving(c)
    /\ \/ link[c] = "closed"
       \/ NextStatus(buffer[c], bound[c]) \notin {"none", "frame"}
       \/ NextStatus(buffer[c], bound[c]) = "none" /\ peer[c] = "gone" /\ wire[c] = <<>>
    /\ thread' = [thread EXCEPT ![c] = "return"]
    /\ UNCHANGED <<coordinator, context, peers, link, bound, buffer, handled, reply, replies>>

\* Where the decoded frame is handled and the reply that needs no shared state.
Handler(pc, f) ==
    IF pc = "hello" THEN
        IF f.kind = "hello" /\ f.decodes /\ f.bound >= MinBound THEN [pc |-> "greet", reply |-> NoReply]
        ELSE [pc |-> "send", reply |-> Answer("error", "wire_malformed")]
    ELSE IF f.kind = "place_request" /\ f.decodes THEN [pc |-> "fence", reply |-> NoReply]
    ELSE IF f.kind = "set_epoch" /\ f.decodes THEN [pc |-> "epoch", reply |-> NoReply]
    ELSE IF f.kind = "recovery_query"
         THEN [pc |-> "send", reply |-> Answer("recovery_report", "ok")]
    ELSE IF f.kind = "stats_query" THEN [pc |-> "send", reply |-> Answer("stats_report", "ok")]
    ELSE IF f.kind = "shutdown" THEN [pc |-> "send", reply |-> Answer("shutdown_ack", "ok")]
    ELSE [pc |-> "send", reply |-> Answer("error", "wire_malformed")]

TakeFrame(c) ==
    /\ Receiving(c) /\ NextStatus(buffer[c], bound[c]) = "frame"
    /\ LET f == NextFrame(buffer[c]) IN
       /\ handled' = [handled EXCEPT ![c] = Append(@, f)]
       /\ thread' = [thread EXCEPT ![c] = Handler(@, f).pc]
       /\ reply' = [reply EXCEPT ![c] = Handler(thread[c], f).reply]
    /\ buffer' = [buffer EXCEPT ![c] = Rest(@)]
    /\ UNCHANGED <<coordinator, context, peers, link, bound, replies>>

-----------------------------------------------------------------------------
(* ServeConnection.                                                         *)

Goes(c, pc, r) ==
    /\ thread' = [thread EXCEPT ![c] = pc]
    /\ reply' = [reply EXCEPT ![c] = r]
    /\ UNCHANGED <<peers, link, bound, buffer, handled, replies>>

\* The handshake: frame bound, protocol version and epoch.
Negotiated(f) == IF f.bound < OptionBound THEN f.bound ELSE OptionBound
Greet(c) ==
    /\ thread[c] = "greet"
    /\ bound' = [bound EXCEPT ![c] = Negotiated(Frame(c))]
    /\ thread' = [thread EXCEPT ![c] = "send"]
    /\ reply' = [reply EXCEPT ![c] =
          [Answer("hello_ack",
                  IF ~Frame(c).version THEN "protocol_mismatch"
                  ELSE IF Frame(c).epoch # fabricEpoch THEN "stale_fabric_epoch" ELSE "ok")
           EXCEPT !.epoch = fabricEpoch]]
    /\ UNCHANGED <<coordinator, context, peers, link, buffer, handled, replies>>

\* The condition of the loop.
LoopTop(c) ==
    /\ thread[c] = "top"
    /\ Goes(c, IF stop THEN "return" ELSE "recv", NoReply)
    /\ UNCHANGED <<coordinator, context>>

\* kPlaceRequest: the epoch is read before PlaceNow and may be another one in it.
Fence(c) ==
    /\ thread[c] = "fence"
    /\ IF Frame(c).epoch # fabricEpoch
       THEN Goes(c, "send", Answer("error", "fenced_stale_epoch"))
       ELSE Goes(c, "place", NoReply)
    /\ UNCHANGED <<coordinator, context>>

\* PlaceNow, its registration: a stale or a known attempt is an error.  (So is an
\* invalid request: one more error that changes no state.)
Registration(f) ==
    IF f.expected # fabricEpoch THEN "stale_fabric_epoch"
    ELSE IF f.attempt \in known THEN "already_exists" ELSE "ok"
Register(c) ==
    /\ thread[c] = "place"
    /\ LET code == Registration(Frame(c)) IN
       IF code = "ok"
       THEN Goes(c, "commit", NoReply) /\ known' = known \cup {Frame(c).attempt}
       ELSE Goes(c, "send", Answer("error", code)) /\ UNCHANGED known
    /\ UNCHANGED <<incarnation, fabricEpoch, records, ended, context>>

\* PlaceNow, its commit: the engine may have found nothing, the epoch may have
\* moved, or the placement becomes durable.
AnyEpoch(f) == TRUE
Current(f) == f.expected = fabricEpoch
CommitPlacement(c) ==
    /\ thread[c] = "commit"
    /\ \/ /\ Current(Frame(c))
          /\ Ledger!Record(Frame(c).attempt)
          /\ Goes(c, "tally", Answer("place_result", "committed"))
          /\ UNCHANGED ended
       \/ /\ \E code \in IF Current(Frame(c)) THEN {"rejected"} ELSE {"rejected", "fenced"} :
                Goes(c, "tally", Answer("place_result", code))
          /\ ended' = ended \cup {Frame(c).attempt}
          /\ UNCHANGED <<incarnation, fabricEpoch, records>>
    /\ UNCHANGED <<known, context>>
Tally(c) ==
    /\ thread[c] = "tally"
    /\ committed' = IF reply[c].code = "committed" THEN committed + 1 ELSE committed
    /\ Goes(c, "send", reply[c])
    /\ UNCHANGED <<coordinator, main, stop, live, served, inherited>>

\* kSetEpoch: three calls of the coordinator, each of them atomic.
ReadEpoch(c) ==
    /\ thread[c] = "epoch"
    /\ Goes(c, "apply", [Answer("epoch_ack", "ok") EXCEPT !.previous = fabricEpoch])
    /\ UNCHANGED <<coordinator, context>>
NeverSuperseded(e) == FALSE
Superseded(e) == e < fabricEpoch
SetAuthority(c) ==
    /\ thread[c] = "apply"
    /\ LET e == Frame(c).epoch IN
       /\ fabricEpoch' = IF Superseded(e) THEN fabricEpoch ELSE e
       /\ Goes(c, "reread", [reply[c] EXCEPT
                !.code = IF Superseded(e) THEN "stale_fabric_epoch" ELSE "ok"])
    /\ UNCHANGED <<incarnation, records, known, ended, context>>
RereadEpoch(c) ==
    /\ thread[c] = "reread"
    /\ Goes(c, "send", [reply[c] EXCEPT !.epoch = fabricEpoch])
    /\ UNCHANGED <<coordinator, context>>

\* SendFrame.  A send to a peer that is gone may still succeed; a full socket
\* blocks it until the peer reads or the connection is closed.
Fits(c) == MinBound <= bound[c] /\ ReplySize(reply[c].kind) <= bound[c]
Sends(c) ==
    /\ link[c] = "open" /\ Fits(c)
    /\ peer[c] = "gone" \/ Len(replies[c]) - got[c] < Window
CannotSend(c) == link[c] = "closed" \/ ~Fits(c) \/ peer[c] = "gone"

\* What the handler does when its frame was sent (ok), or could not be.
AfterSend(r, ok) ==
    IF r.kind = "error"
    THEN IF r.code = "wire_malformed" THEN "return" ELSE "top"
    ELSE IF r.kind = "shutdown_ack" THEN "stop"
    ELSE IF ~ok THEN "return"
    ELSE IF r.kind = "place_result" THEN "limit"
    ELSE IF r.kind = "hello_ack" /\ r.code # "ok" THEN "return" ELSE "top"

Send(c) ==
    /\ thread[c] = "send"
    /\ \E ok \in BOOLEAN :
          /\ IF ok THEN Sends(c) ELSE CannotSend(c)
          /\ thread' = [thread EXCEPT ![c] = AfterSend(reply[c], ok)]
          /\ replies' = IF ok /\ peer[c] = "open"
                        THEN [replies EXCEPT ![c] = Append(@, reply[c])] ELSE replies
    /\ served' = IF reply[c].kind = "place_result" THEN served + 1 ELSE served
    /\ reply' = [reply EXCEPT ![c] = NoReply]
    /\ UNCHANGED <<coordinator, main, stop, live, committed, inherited, peers,
                   link, bound, buffer, handled>>

\* The request budget, and the shutdown frame.
Limit(c) ==
    /\ thread[c] = "limit"
    /\ Goes(c, IF MaxRequests # 0 /\ served >= MaxRequests THEN "stop" ELSE "top", NoReply)
    /\ UNCHANGED <<coordinator, context>>
RequestStop(c) ==
    /\ thread[c] = "stop"
    /\ stop' = TRUE
    /\ Goes(c, "return", NoReply)
    /\ UNCHANGED <<coordinator, main, live, served, committed, inherited>>

\* ~ConnectionGuard, then the flag that lets the entry be reaped.
ReturnTwice(c) ==
    /\ thread[c] = "return"
    /\ live' = live - 2
    /\ Goes(c, "left", NoReply)
    /\ UNCHANGED <<coordinator, main, stop, served, committed, inherited>>
Return(c) ==
    /\ thread[c] = "return"
    /\ live' = live - 1
    /\ Goes(c, "left", NoReply)
    /\ UNCHANGED <<coordinator, main, stop, served, committed, inherited>>
Done(c) ==
    /\ thread[c] = "left"
    /\ Goes(c, "done", NoReply)
    /\ UNCHANGED <<coordinator, context>>

-----------------------------------------------------------------------------
(* RunServer.                                                               *)

\* The accept loop is modelled at WaitReadable: a round that accepts nothing looks
\* at stop and reaps the finished connections, which closes their sockets.
ReapConnections ==
    /\ main = "wait" /\ ~stop /\ \E c \in Conns : thread[c] = "done"
    /\ thread' = [c \in Conns |-> IF thread[c] = "done" THEN "reaped" ELSE thread[c]]
    /\ link' = [c \in Conns |-> IF thread[c] = "done" THEN "closed" ELSE link[c]]
    /\ UNCHANGED <<coordinator, context, peers, bound, buffer, handled, reply, replies>>

\* Accept: over the limit the connection gets an error and is closed.  A
\* connection may still be accepted in the round in which stop is set.  The test of
\* the limit and the increment are one step: no other thread raises the counter.
OverLimit == live > MaxConnections
AtLimit == live >= MaxConnections
Accept(c) ==
    /\ main = "wait" /\ link[c] = "backlog"
    /\ main' = IF stop THEN "closing" ELSE "wait"
    /\ IF AtLimit
       THEN /\ replies' = [replies EXCEPT ![c] = Append(@, Answer("error", "worker_limit_exceeded"))]
            /\ link' = [link EXCEPT ![c] = "closed"]
            /\ UNCHANGED <<live, thread>>
       ELSE /\ live' = live + 1
            /\ link' = [link EXCEPT ![c] = "open"]
            /\ thread' = [thread EXCEPT ![c] = "hello"]
            /\ UNCHANGED replies
    /\ UNCHANGED <<coordinator, stop, served, committed, inherited, peers,
                   bound, buffer, handled, reply>>

\* stop was seen, or (at any time) select or accept failed.
LeaveLoop ==
    /\ main = "wait"
    /\ main' = "closing" /\ stop' = TRUE
    /\ UNCHANGED <<coordinator, live, served, committed, inherited, peers, connections>>

\* Every tracked connection is closed first, then every thread is joined.
NoneTracked == {}
Tracked == {c \in Conns : thread[c] \notin {"none", "reaped"}}
CloseConnection(c) ==
    /\ main = "closing" /\ c \in Tracked /\ link[c] = "open"
    /\ link' = [link EXCEPT ![c] = "closed"]
    /\ UNCHANGED <<coordinator, context, peers, bound, buffer, thread, handled, reply, replies>>
AllClosed ==
    /\ main = "closing" /\ \A c \in Tracked : link[c] = "closed"
    /\ main' = "joining"
    /\ UNCHANGED <<coordinator, stop, live, served, committed, inherited, peers, connections>>
JoinedNothing == TRUE
Joined == \A c \in Conns : thread[c] \in Gone
Finish ==
    /\ main = "joining" /\ Joined
    /\ main' = "finished"
    /\ link' = [c \in Conns |-> IF link[c] = "none" THEN "none" ELSE "closed"]
    /\ UNCHANGED <<coordinator, stop, live, served, committed, inherited, peers,
                   bound, buffer, thread, handled, reply, replies>>

-----------------------------------------------------------------------------
Serve(c) ==
    \/ \E k \in 1 .. Len(wire[c]) : Receive(c, k)
    \/ ReceiveFails(c) \/ TakeFrame(c) \/ Greet(c) \/ LoopTop(c)
    \/ Fence(c) \/ Register(c) \/ CommitPlacement(c) \/ Tally(c)
    \/ ReadEpoch(c) \/ SetAuthority(c) \/ RereadEpoch(c)
    \/ Send(c) \/ Limit(c) \/ RequestStop(c) \/ Return(c) \/ Done(c)

Main ==
    \/ ReapConnections \/ LeaveLoop \/ AllClosed \/ Finish
    \/ \E c \in Conns : Accept(c) \/ CloseConnection(c)

Peer(c) ==
    \/ Connect(c) \/ PeerSend(c) \/ PeerRead(c)
    \/ \E k \in 0 .. Len(wire[c]) : PeerGone(c, k)

Next ==
    \/ Main
    \/ \E c \in Conns : Serve(c) \/ Peer(c)
    \/ \E e \in 1 .. MaxEpoch : Crash(e)

\* The server's threads are operating system threads; nothing is assumed of the
\* peers, which may stay connected and silent, or never read a reply.
Spec == Init /\ [][Next]_vars /\ WF_vars(Main) /\ \A c \in Conns : WF_vars(Serve(c))

-----------------------------------------------------------------------------
(* Properties.                                                             *)

ThreadStates == Gone \cup {"hello", "greet", "top", "recv", "fence", "place", "commit", "tally",
                           "epoch", "apply", "reread", "send", "limit", "stop", "return", "left"}

\* The state has its shape: the counters never go below zero, whichever way a
\* connection ends, and every thread is at a step of ServeConnection.
TypeOK ==
    /\ incarnation \in 0 .. MaxCrashes /\ fabricEpoch \in 1 .. MaxEpoch
    /\ known \subseteq Attempts /\ ended \subseteq known
    /\ main \in {"wait", "closing", "joining", "finished"} /\ stop \in BOOLEAN
    /\ live \in Nat /\ served \in Nat /\ committed \in Nat
    /\ peer \in [Conns -> {"away", "open", "gone"}]
    /\ link \in [Conns -> {"none", "backlog", "open", "closed"}]
    /\ thread \in [Conns -> ThreadStates]
    /\ \A c \in Conns : reply[c].kind \in ServerKinds \cup {"none"}

\* live_connections counts exactly the threads inside ServeConnection, and the
\* check before the increment, made without a lock, never admits one too many.
ConnectionsAreBounded ==
    /\ live = Cardinality({c \in Conns : thread[c] \notin Gone \cup {"left"}})
    /\ live <= MaxConnections

\* However TCP cuts the stream into chunks, a thread handles the frames its peer
\* sent, in order and unaltered: none is lost, doubled, torn or made up.
StreamsAreFaithful ==
    \A c \in Conns :
        /\ Len(handled[c]) <= sent[c]
        /\ handled[c] = SubSeq(script[c].frames, 1, Len(handled[c]))

\* The reply i of a connection as the answer to its frame i.
IsResult(c, i, code) == replies[c][i].kind = "place_result" /\ replies[c][i].code = code

\* What a worker is told about a placement is true and stays true, whatever
\* epoch changes, retries on other connections and crashes come between: committed
\* means one durable record under the epoch the request expected, reported
\* once; fenced and rejected mean that the attempt never has a record.
ResultsAreTrue ==
    \A c \in Conns : \A i \in DOMAIN replies[c] :
        /\ IsResult(c, i, "committed") =>
              /\ \E n \in DOMAIN records :
                    records[n] = [attempt |-> handled[c][i].attempt,
                                  epoch |-> handled[c][i].expected]
              /\ \A d \in Conns : \A j \in DOMAIN replies[d] :
                    IsResult(d, j, "committed") /\ handled[d][j].attempt = handled[c][i].attempt
                        => d = c /\ j = i
        /\ IsResult(c, i, "fenced") \/ IsResult(c, i, "rejected") =>
              ~Ledger!Recorded(handled[c][i].attempt)

\* kSetEpoch reads, changes and reads the epoch again without a lock across the
\* three.  The acknowledgement is in order all the same: an accepted epoch lies
\* between the two it reports, a refused one below the current one.
EpochAcksAreOrdered ==
    \A c \in Conns : \A i \in DOMAIN replies[c] :
        replies[c][i].kind = "epoch_ack" =>
            LET r == replies[c][i]
                e == handled[c][i].epoch
            IN IF r.code = "ok" THEN r.previous <= e /\ e <= r.epoch ELSE e < r.epoch

\* When RunServer returns no thread is left that could still place, and the
\* counters of its result agree with what became durable while it ran.
FinishedIsFinal ==
    main = "finished" =>
        /\ \A c \in Conns : thread[c] \in Gone /\ link[c] # "open"
        /\ live = 0
        /\ committed = Len(records) - inherited

\* A server told to stop finishes, although peers may stay connected without
\* sending, send without reading, or be in the middle of a frame.
ServerStops == stop ~> (main = "finished" \/ ~stop)

=============================================================================
