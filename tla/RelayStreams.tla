---------------------------- MODULE RelayStreams ----------------------------
(***************************************************************************)
(* File reads over the SSH relay.  The client's multiplexer                *)
(* (main/ssh/ssh-channel-multiplexer.ts) numbers its requests and matches  *)
(* answers to them; the stream reader (ssh-filesystem-stream-reader.ts)    *)
(* sends one request per file, then collects chunks that arrive as         *)
(* notifications; the relay (relay/dispatcher.ts, fs-handler-file-read.ts, *)
(* fs-stream-registry.ts) opens the file, answers, and pumps the chunks.   *)
(*                                                                         *)
(* A connection is one SSH channel: one multiplexer, one relay client and  *)
(* two FIFO queues.  It breaks at any time, each side notices on its own,  *)
(* and the session opens the next one on the same relay process.           *)
(***************************************************************************)
EXTENDS Naturals, Sequences, FiniteSets, SequencesExt

CONSTANTS Read,        \* files being read, one read each
          MaxConn,     \* connections, one after the other
          Size,        \* chunks in a file that is not empty
          MaxStreams   \* MAX_CONCURRENT_STREAMS

ASSUME ConstantsAssumption ==
    /\ MaxConn \in Nat \ {0}
    /\ Size \in Nat \ {0}
    /\ MaxStreams \in Nat \ {0}

Conns == 1 .. MaxConn

VARIABLES
    read,     \* the reader's locals
    conn,     \* per connection: mux, request counter, dispose handlers, relay client
    up, down, \* frames from the client to the relay, and back
    job,      \* requests whose handler is running in the relay
    stream    \* the relay's registry, by stream id; ids are never used again

vars == <<read, conn, up, down, job, stream>>

Settled == {"ok", "failed"}
Active == {"requested", "resolved", "streaming"}

Init ==
    /\ read = [r \in Read |-> [st |-> "idle", conn |-> 0, id |-> 0, stream |-> 0,
                               got |-> <<>>, queue |-> <<>>]]
    /\ conn = [c \in Conns |-> [mux |-> IF c = 1 THEN "up" ELSE "none", nextId |-> 1,
                                hooks |-> <<>>, broken |-> FALSE,
                                client |-> IF c = 1 THEN "attached" ELSE "none"]]
    /\ up = [c \in Conns |-> <<>>]
    /\ down = [c \in Conns |-> <<>>]
    /\ job = {}
    /\ stream = <<>>

-----------------------------------------------------------------------------
\* Frames.  What is written to a broken channel is lost.

Frame(kind, id, n, file) == [kind |-> kind, id |-> id, n |-> n, file |-> file]

ToRelay(c, frames) ==
    up' = IF conn[c].broken \/ conn[c].mux # "up" THEN up ELSE [up EXCEPT ![c] = @ \o frames]

\* sendFrame and notify: a client that is closed gets nothing.
Reachable(c) == conn[c].client = "attached" /\ ~conn[c].broken

Answer(c, frame) == IF Reachable(c) THEN [down EXCEPT ![c] = Append(@, frame)] ELSE down

Broadcast(frames) == [c \in Conns |-> IF Reachable(c) THEN down[c] \o frames ELSE down[c]]

-----------------------------------------------------------------------------
\* The client: the reader and its multiplexer.

\* A reader that has failed: its locals are garbage.
Failed(rec) ==
    [rec EXCEPT !.st = "failed", !.id = 0, !.stream = 0, !.got = <<>>, !.queue = <<>>]

\* readFileViaStream subscribes first, then sends fs.readFileStream.
Start(r) ==
    \E c \in Conns :
        /\ conn[c].mux = "up" /\ read[r].st = "idle"
        /\ read' = [read EXCEPT ![r].st = "requested", ![r].conn = c, ![r].id = conn[c].nextId]
        /\ conn' = [conn EXCEPT ![c].nextId = @ + 1, ![c].hooks = Append(@, r)]
        /\ ToRelay(c, <<Frame("readFileStream", conn[c].nextId, 0, r)>>)
        /\ UNCHANGED <<down, job, stream>>

\* Mutated: the dispose handler stays when the read is over.
UnhookNothing(rs, c) == conn

\* cleanup() takes the reader's dispose handler off its multiplexer; the others move up.
Without(hooks, rs) ==
    FoldLeft(LAMBDA kept, r : IF r \in rs THEN kept ELSE Append(kept, r), <<>>, hooks)

Unhook(rs, c) == [conn EXCEPT ![c].hooks = Without(@, rs)]

\* The timer of request(): the relay is told to stop, the answer is not awaited any more.
Timeout(r) ==
    /\ read[r].st = "requested"
    /\ read' = [read EXCEPT ![r] = Failed(@)]
    /\ conn' = Unhook({r}, read[r].conn)
    /\ ToRelay(read[r].conn, <<Frame("cancel", read[r].id, 0, r)>>)
    /\ UNCHANGED <<down, job, stream>>

\* Mutated: frames are matched by their place only, not by stream id.
AcceptAnyStream(rec, f) ==
    IF rec.st # "streaming" THEN rec
    ELSE CASE f.kind = "chunk" /\ f.n = Len(rec.got) ->
                [rec EXCEPT !.got = Append(@, <<f.file, f.n>>)]
           [] f.kind = "end" /\ Len(rec.got) = Size -> [rec EXCEPT !.st = "ok"]
           [] OTHER -> Failed(rec)

\* handleChunk, handleEnd and handleStreamError on one frame.
Accept(rec, f) ==
    IF rec.st # "streaming" \/ f.id # rec.stream THEN rec
    ELSE CASE f.kind = "chunk" /\ f.n = Len(rec.got) ->
                [rec EXCEPT !.got = Append(@, <<f.file, f.n>>)]
           [] f.kind = "end" /\ Len(rec.got) = Size -> [rec EXCEPT !.st = "ok"]
           [] OTHER -> Failed(rec)

\* A chunk, an end or an error reaches every subscribed reader of the connection; it
\* waits in the reader's queue until the metadata is there.
Notified(c, f) ==
    [r \in Read |->
        IF read[r].conn # c \/ read[r].st \notin Active THEN read[r]
        ELSE IF read[r].st = "streaming" THEN Accept(read[r], f)
        ELSE [read[r] EXCEPT !.queue = Append(@, f)]]

\* Mutated: an answer goes to whatever request is pending, as if calls were in lock step.
RespondedAny(c, f) ==
    [r \in Read |->
        IF read[r].conn = c /\ read[r].st = "requested"
        THEN IF f.kind = "error" THEN Failed(read[r])
             ELSE [read[r] EXCEPT !.st = "resolved", !.stream = f.n]
        ELSE read[r]]

\* handleResponse: an id that is not pending any more is dropped.
Responded(c, f) ==
    [r \in Read |->
        IF read[r].conn = c /\ read[r].st = "requested" /\ read[r].id = f.id
        THEN IF f.kind = "error" THEN Failed(read[r])
             ELSE [read[r] EXCEPT !.st = "resolved", !.stream = f.n]
        ELSE read[r]]

EndsIn(new, c) == {r \in Read : read[r].conn = c /\ read[r].st \in Active /\ new[r].st \in Settled}

\* cancel() of a reader that fails while its stream is known.
CancelFrames(new, c) ==
    SetToSeq({Frame("cancelStream", read[r].stream, 0, r) :
                r \in {q \in EndsIn(new, c) : new[q].st = "failed" /\ read[q].st = "streaming"}})

Receive(c) ==
    /\ conn[c].mux = "up" /\ down[c] # <<>>
    /\ LET f == Head(down[c])
           new == IF f.kind \in {"metadata", "error"} THEN Responded(c, f) ELSE Notified(c, f)
       IN  /\ read' = new
           /\ conn' = Unhook(EndsIn(new, c), c)
           /\ ToRelay(c, CancelFrames(new, c))
    /\ down' = [down EXCEPT ![c] = Tail(@)]
    /\ UNCHANGED <<job, stream>>

\* Mutated: frames that came before the metadata are forgotten.
OnMetadataNoDrain(r) ==
    LET c == read[r].conn
    IN  /\ read[r].st = "resolved"
        /\ read' = [read EXCEPT ![r].st = IF read[r].stream = 0 THEN "ok" ELSE "streaming",
                                ![r].queue = <<>>]
        /\ conn' = IF read'[r].st \in Settled THEN Unhook({r}, c) ELSE conn
        /\ UNCHANGED <<up, down, job, stream>>

\* The continuation of the request: empty files end here, a size over the cap or a failed
\* allocation cancels the stream, otherwise the queued frames are drained.
OnMetadata(r) ==
    LET c == read[r].conn
        streaming == [read[r] EXCEPT !.st = "streaming", !.queue = <<>>]
    IN  /\ read[r].st = "resolved"
        /\ \/ /\ read[r].stream = 0
              /\ read' = [read EXCEPT ![r].st = "ok", ![r].queue = <<>>]
              /\ UNCHANGED up
           \/ /\ read[r].stream # 0
              /\ read' = [read EXCEPT ![r] = Failed(@)]
              /\ ToRelay(c, <<Frame("cancelStream", read[r].stream, 0, r)>>)
           \/ /\ read[r].stream # 0
              /\ read' = [read EXCEPT ![r] = FoldLeft(Accept, streaming, read[r].queue)]
              /\ ToRelay(c, IF read'[r].st = "failed"
                            THEN <<Frame("cancelStream", read[r].stream, 0, r)>> ELSE <<>>)
        /\ conn' = IF read'[r].st \in Settled THEN Unhook({r}, c) ELSE conn
        /\ UNCHANGED <<down, job, stream>>

\* dispose() walks the live list of handlers.  A reader's handler takes itself off that list
\* while it runs, which moves the next one into its place: that one is passed over.
Called(hooks) ==
    LET called[k \in 1 .. Len(hooks)] == k = 1 \/ ~called[k - 1]
    IN  {hooks[k] : k \in {i \in 1 .. Len(hooks) : called[i]}}

Dispose(c) ==
    /\ conn[c].mux = "up" /\ conn[c].broken
    /\ read' = [r \in Read |->
                  IF read[r].conn = c /\ (read[r].st = "requested"
                                          \/ (read[r].st \in Active /\ r \in Called(conn[c].hooks)))
                  THEN Failed(read[r])
                  ELSE read[r]]
    /\ conn' = [conn EXCEPT ![c].mux = "disposed", ![c].hooks = <<>>]
    /\ down' = [down EXCEPT ![c] = <<>>]
    /\ UNCHANGED <<up, job, stream>>

\* The channel breaks; nothing more gets across.
LinkBreaks(c) ==
    /\ conn[c].mux = "up" /\ ~conn[c].broken
    /\ conn' = [conn EXCEPT ![c].broken = TRUE]
    /\ UNCHANGED <<read, up, down, job, stream>>

\* SshRelaySession.reconnect: a new multiplexer, accepted by the relay as a new client.
Reconnect(c) ==
    /\ conn[c].mux = "none"
    /\ \A d \in 1 .. c - 1 : conn[d].mux = "disposed"
    /\ conn' = [conn EXCEPT ![c].mux = "up", ![c].client = "attached"]
    /\ UNCHANGED <<read, up, down, job, stream>>

-----------------------------------------------------------------------------
\* The relay.

Opened == {s \in 1 .. Len(stream) : stream[s].open}

\* handleRequest starts the handler; rpc.cancel and fs.cancelStream only set flags.
RelayReceive(c) ==
    /\ conn[c].client = "attached" /\ up[c] # <<>>
    /\ LET f == Head(up[c])
       IN  CASE f.kind = "readFileStream" ->
                  /\ job' = job \cup {[conn |-> c, id |-> f.id, file |-> f.file, aborted |-> FALSE]}
                  /\ UNCHANGED stream
             [] f.kind = "cancel" ->
                  /\ job' = {[j EXCEPT !.aborted = @ \/ (j.conn = c /\ j.id = f.id)] : j \in job}
                  /\ UNCHANGED stream
             [] OTHER ->
                  /\ stream' = [s \in 1 .. Len(stream) |->
                                  [stream[s] EXCEPT !.aborted = @ \/ (stream[s].open /\ s = f.id)]]
                  /\ UNCHANGED job
    /\ up' = [up EXCEPT ![c] = Tail(@)]
    /\ UNCHANGED <<read, conn, down>>

JobStale(j) == j.aborted \/ conn[j.conn].client # "attached"

\* The answer of a handler goes out unless its request is stale.
Respond(j, kind, n) ==
    down' = IF JobStale(j) THEN down ELSE Answer(j.conn, Frame(kind, j.id, n, j.file))

\* readRelayFileStreamMetadata after its awaits: an error or an empty file, a registry that
\* is full, or a registered stream whose pump is scheduled behind the answer.
FileOpened(j) ==
    /\ job' = job \ {j}
    /\ \/ /\ Respond(j, "error", 0)
          /\ UNCHANGED stream
       \/ /\ Respond(j, "metadata", 0)
          /\ UNCHANGED stream
       \/ /\ Cardinality(Opened) < MaxStreams
          /\ stream' = Append(stream, [conn |-> j.conn, file |-> j.file, seq |-> 0,
                                       cancelled |-> j.aborted, aborted |-> FALSE, open |-> TRUE])
          /\ Respond(j, "metadata", Len(stream) + 1)
    /\ UNCHANGED <<read, conn, up>>

\* context.isStale or registry.isAborted, asked again after every read of the file.
MustStop(s) ==
    stream[s].cancelled \/ conn[stream[s].conn].client # "attached" \/ stream[s].aborted

\* release(): the entry leaves the registry; its file is remembered for the properties.
Released(entry) ==
    [entry EXCEPT !.seq = 0, !.cancelled = FALSE, !.aborted = FALSE, !.open = FALSE]

\* A chunk has gone out.
Advanced(entry) == [entry EXCEPT !.seq = @ + 1]

\* One turn of pumpChunks.  The last chunk, the end and the release are one turn.
Pump(s) ==
    /\ stream[s].open
    /\ LET file == stream[s].file
           last == stream[s].seq + 1 = Size
           chunk == <<Frame("chunk", s, stream[s].seq, file)>>
       IN  \/ /\ MustStop(s)
              /\ stream' = [stream EXCEPT ![s] = Released(@)]
              /\ UNCHANGED down
           \/ /\ ~MustStop(s)
              /\ stream' = [stream EXCEPT ![s] = Released(@)]
              /\ down' = Broadcast(<<Frame("streamError", s, 0, file)>>)
           \/ /\ ~MustStop(s)
              /\ stream' = [stream EXCEPT ![s] = IF last THEN Released(@) ELSE Advanced(@)]
              /\ down' = Broadcast(IF last THEN chunk \o <<Frame("end", s, 0, file)>> ELSE chunk)
    /\ UNCHANGED <<read, conn, up, job>>

\* The relay's socket closes: detachClient aborts the requests of the client.
Detach(c) ==
    /\ conn[c].client = "attached" /\ conn[c].broken
    /\ conn' = [conn EXCEPT ![c].client = "gone"]
    /\ job' = {[j EXCEPT !.aborted = @ \/ j.conn = c] : j \in job}
    /\ up' = [up EXCEPT ![c] = <<>>]
    /\ UNCHANGED <<read, down, stream>>

-----------------------------------------------------------------------------
\* What each event loop still has to do.  Handlers in the relay are not part of it: their file
\* system calls may hang.
ClientLoop ==
    \/ \E r \in Read : Timeout(r) \/ OnMetadata(r)
    \/ \E c \in Conns : Receive(c) \/ Dispose(c)

RelayLoop ==
    \/ \E c \in Conns : RelayReceive(c) \/ Detach(c)
    \/ \E s \in 1 .. Len(stream) : Pump(s)

Next ==
    \/ \E r \in Read : Start(r)
    \/ \E c \in Conns : LinkBreaks(c) \/ Reconnect(c)
    \/ \E j \in job : FileOpened(j)
    \/ ClientLoop
    \/ RelayLoop

Spec == Init /\ [][Next]_vars

\* Timers fire, continuations run, queues are read, a closed socket is noticed and reading an
\* open file returns.
FairSpec == Spec /\ WF_vars(ClientLoop) /\ WF_vars(RelayLoop)

-----------------------------------------------------------------------------
Kinds == {"readFileStream", "cancel", "cancelStream", "metadata", "error", "chunk", "end",
          "streamError"}
FrameType == [kind : Kinds, id : Nat, n : Nat, file : Read]
ReaderType ==
    [st : {"idle"} \cup Active \cup Settled, conn : 0 .. MaxConn, id : Nat, stream : Nat,
     got : Seq(Read \X Nat), queue : Seq(FrameType)]
ConnType ==
    [mux : {"none", "up", "disposed"}, nextId : Nat, hooks : Seq(Read), broken : BOOLEAN,
     client : {"none", "attached", "gone"}]
JobType == [conn : Conns, id : Nat, file : Read, aborted : BOOLEAN]
StreamType == [conn : Conns, file : Read, seq : Nat, cancelled : BOOLEAN, aborted : BOOLEAN,
               open : BOOLEAN]

\* Types of the two sides and of what is in flight between them.
TypeOK ==
    /\ read \in [Read -> ReaderType]
    /\ conn \in [Conns -> ConnType]
    /\ up \in [Conns -> Seq(FrameType)] /\ down \in [Conns -> Seq(FrameType)]
    /\ job \subseteq JobType
    /\ stream \in Seq(StreamType)

\* A multiplexer holds the dispose handlers of the reads under way on it and no others, in
\* whatever order their ends, time-outs and failures come (ssh-filesystem-stream-reader.ts:91).
HandlersMatch ==
    \A c \in Conns : conn[c].mux = "up" =>
        ToSet(conn[c].hooks) = {r \in Read : read[r].conn = c /\ read[r].st \in Active}

Sound == TypeOK /\ HandlersMatch

\* What the caller of a read sees of its reader.
Outcome(rec) ==
    CASE rec.st = "idle" -> "none" [] rec.st \in Active -> "pending" [] OTHER -> rec.st

Content(rec) == IF rec.st = "ok" /\ rec.stream # 0 THEN rec.got ELSE <<>>

Promise == INSTANCE FileReads WITH
    outcome <- [r \in Read |-> Outcome(read[r])],
    content <- [r \in Read |-> Content(read[r])]

\* The reads over the relay are reads as FileReads promises them: each settles at most once
\* and stays settled, whatever frames, time-outs or disposals come late, and a read that
\* succeeds returns its own file, every chunk of it, in order, although the relay broadcasts
\* the chunks of all streams and chunks overtake the continuation of the request
\* (ssh-filesystem-stream-reader.ts:89-210).
PromiseKept == Promise!Spec

\* The stream a reader is bound to is the one the relay opened for it: an answer that arrives
\* after its request timed out, or after a reconnect, is never taken for the answer to another
\* request (ssh-channel-multiplexer.ts:393).
AnswerIsMine ==
    \A r \in Read : read[r].st \in {"resolved", "streaming", "ok"} /\ read[r].stream # 0
                      => stream[read[r].stream].file = r

\* Once no more reads start, every read ends unless its multiplexer is disposed under it, and
\* every slot of the registry is given back: whether the relay's file system hangs, chunks
\* arrive before the metadata was handled, or the pump fails, is cancelled or has lost its
\* client (fs-handler-file-read.ts:130-215, ssh-filesystem-stream-reader.ts:214-224).
ReadOver(r) ==
    \/ read[r].st \notin Active
    \/ \E c \in Conns : read[r].conn = c /\ conn[c].mux = "disposed"

ComesToRest == <>[]((\A r \in Read : ReadOver(r)) /\ Opened = {})

\* "Iterating a snapshot prevents that" (ssh-channel-multiplexer.ts:415): after dispose no read
\* is left waiting for chunks that cannot come.
DisposeEndsReads ==
    \A r \in Read : read[r].st = "streaming" => conn[read[r].conn].mux = "up"

=============================================================================
