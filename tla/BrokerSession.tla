--------------------------- MODULE BrokerSession ---------------------------
(***************************************************************************)
(* One session between the desktop (crates/broker-client) and the elevated *)
(* broker (crates/elevated-broker) over a named pipe, with the frames of   *)
(* crates/broker-protocol.  The client asks and waits, so at most one      *)
(* frame is under way.  The broker's source is RawVolume.                  *)
(*                                                                         *)
(* The pipe delivers what was written, in order, or breaks.  What the      *)
(* codec and the client guard against all the same are faults here: an old *)
(* frame or a later one instead of the next, and a reply that decodes but  *)
(* does not fit, or does not decode.                                       *)
(***************************************************************************)
EXTENDS RawVolume, Sequences

CONSTANTS
    MaxRead,        \* MAX_READ_LEN, in units
    MaxFaults       \* bound on those of them that befall the pipe or the broker

ASSUME SessionAssumption == MaxRead \in Nat \ {0} /\ MaxFaults \in Nat

VARIABLES
    broker,     \* the elevated process
    pipe,       \* the pipe between the two
    client,     \* ProtocolReadSession and BrokerSourceReader; lost: an answer told
                \* that the identity of the source is gone
    faults

sessionVars == <<raw, broker, pipe, client, faults>>

TheHandle == 1      \* session_handle_id

Hello          == [kind |-> "Hello"]
HelloAck(c)    == [kind |-> "HelloAck", challenge |-> c]
OpenSource(id) == [kind |-> "OpenSource", id |-> id]
Opened(h, n)   == [kind |-> "Opened", handle |-> h, number |-> n]
ReadAt(h, r)   == [kind |-> "ReadAt", handle |-> h, range |-> r]
ReadData(b)    == [kind |-> "ReadData", bytes |-> b]
CloseSource(h) == [kind |-> "CloseSource", handle |-> h]
ClosedMsg(h)   == [kind |-> "Closed", handle |-> h]
Err(code)      == [kind |-> "Error", code |-> code]
Garbage        == [kind |-> "garbage"]

Misfits == {HelloAck("other"), Opened(TheHandle, Absent), ReadData(<<>>), ClosedMsg(2), Garbage}

NoFrame == [to |-> "nobody"]
Frame(to, seq, msg) == [to |-> to, seq |-> seq, msg |-> msg]

BrokerOff == [pc |-> "absent", next |-> 1, expects |-> 1]
BrokerStarted == [BrokerOff EXCEPT !.pc = "started"]
PipeOff   == [open |-> FALSE, frame |-> NoFrame, old |-> NoFrame]
NewPipe   == [PipeOff EXCEPT !.open = TRUE]
ClientOff == [pc |-> "off", next |-> 1, expects |-> 1, id |-> NoId, number |-> Absent,
              read |-> NoRead, got |-> <<>>, failed |-> FALSE, lost |-> FALSE, error |-> "none"]

SessionInit == /\ raw = Closed /\ broker = BrokerOff /\ pipe = PipeOff
               /\ client = ClientOff /\ faults = 0
---------------------------------------------------------------------------
(* The client.                                                             *)

(* The frame is taken from the pipe (which remembers what the last one to  *)
(* the client was, to bring it again).                                     *)
Taken == [pipe EXCEPT !.frame = NoFrame,
                      !.old = IF pipe.frame.to = "client" THEN pipe.frame ELSE @]

(* SessionCodec::write_message.                                            *)
Send(c, msg) ==
    /\ client' = [c EXCEPT !.next = @ + 1]
    /\ pipe' = [Taken EXCEPT !.frame = Frame("broker", c.next, msg)]

(* The session is given up: what holds the pipe is dropped.                *)
Leave(error) ==
    /\ client' = [ClientOff EXCEPT !.pc = "over", !.error = error]
    /\ pipe' = PipeOff

(* A transport or codec error, or an answer that is none, spoils the       *)
(* session for everything that follows.                                    *)
Spoilt(error) == [client EXCEPT !.failed = TRUE, !.error = error]

(* open_windows_source: the pipe is created and a broker launched behind   *)
(* the elevation prompt, with a source of its own.                         *)
Launch(id) ==
    \/ /\ broker' = BrokerStarted /\ raw' = Closed
       /\ pipe' = NewPipe
       /\ client' = [ClientOff EXCEPT !.pc = "accepting", !.id = id]
    \/ /\ client' = [ClientOff EXCEPT !.pc = "over", !.error = "ElevationDenied"]
       /\ UNCHANGED <<broker, raw, pipe>>

(* accept_for_process and the checks of the peer; the broker's own checks  *)
(* of its parent fail the same way.  At most ten seconds.                  *)
Accept ==
    /\ client.pc = "accepting"
    /\ \/ /\ pipe.open
          /\ Send([client EXCEPT !.pc = "greeting"], Hello)
       \/ Leave("Transport")
    /\ UNCHANGED <<raw, broker, faults>>

Reply == pipe.frame.msg
Awaiting == client.pc \in {"greeting", "opening", "reading", "closing"}

(* Bug: a frame that is older than the next one is taken all the same.     *)
InOrderBug(frame, expected) == frame.seq <= expected /\ frame.msg # Garbage

(* SessionCodec::read_message; client.expects counts what was accepted.    *)
InOrder(frame, expected) == frame.seq = expected /\ frame.msg # Garbage

Received == pipe.frame.to = "client" /\ InOrder(pipe.frame, client.expects)

(* Bug: the end of the pipe is not noticed.                                *)
UnreceivedBug == pipe.frame.to = "client" /\ ~InOrder(pipe.frame, client.expects)

(* BrokerClientError::from_protocol: the pipe broke, or what came out of   *)
(* it is no frame of this session.                                         *)
Unreceived == \/ ~pipe.open /\ pipe.frame.to # "client"
              \/ pipe.frame.to = "client" /\ ~InOrder(pipe.frame, client.expects)

LostError == IF pipe.frame.to = "client" THEN "Protocol" ELSE "Transport"

Accepted == [client EXCEPT !.expects = @ + 1]

(* ProtocolReadSession::connect, and the request to open that follows.     *)
Greeted ==
    /\ client.pc = "greeting"
    /\ \/ /\ Received /\ Reply = HelloAck("ours")
          /\ Send([Accepted EXCEPT !.pc = "opening"], OpenSource(client.id))
       \/ /\ Received /\ Reply # HelloAck("ours")
          /\ Leave("Authentication")
       \/ Unreceived /\ Leave(LostError)
    /\ UNCHANGED <<raw, broker, faults>>

(* BrokerSourceReader::open.                                               *)
SourceOpened ==
    /\ client.pc = "opening"
    /\ \/ /\ Received /\ Reply.kind = "Opened"
          /\ client' = [Accepted EXCEPT !.pc = "open", !.number = Reply.number]
          /\ pipe' = Taken
       \/ Received /\ Reply.kind = "Error" /\ Leave(Reply.code)
       \/ Received /\ Reply.kind \notin {"Opened", "Error"} /\ Leave("Unexpected")
       \/ Unreceived /\ Leave(LostError)
    /\ UNCHANGED <<raw, broker, faults>>

End(r) == r.offset + r.length

(* The next piece of a read, at most MaxRead long.                         *)
Piece(r, done) == [offset |-> r.offset + done,
                   length |-> IF r.length - done < MaxRead THEN r.length - done ELSE MaxRead]

(* read_exact_at, of a range inside the source (another one is refused     *)
(* here and costs no exchange).  A spoilt session refuses every exchange.  *)
StartRead(r) ==
    /\ client.pc = "open" /\ End(r) <= Length /\ r.length > 0
    /\ IF client.failed
       THEN /\ client' = [client EXCEPT !.read = r, !.got = <<>>, !.error = "Unavailable"]
            /\ UNCHANGED pipe
       ELSE Send([client EXCEPT !.pc = "reading", !.read = r, !.got = <<>>,
                                !.error = "none"], ReadAt(TheHandle, Piece(r, 0)))

(* The buffer is cleared when a piece fails.                               *)
ReadFails(c, error) ==
    /\ client' = [c EXCEPT !.pc = "open", !.got = <<>>, !.error = error,
                           !.lost = @ \/ error \in IdentityErrors]
    /\ pipe' = Taken

Fits == Reply.kind = "ReadData" /\ Len(Reply.bytes) = Piece(client.read, Len(client.got)).length

ReadAnswered ==
    /\ client.pc = "reading"
    /\ \/ /\ Received /\ Fits
          /\ LET got == client.got \o Reply.bytes
                 c   == [Accepted EXCEPT !.got = got]
             IN  IF Len(got) = client.read.length
                 THEN /\ client' = [c EXCEPT !.pc = "open"]
                      /\ pipe' = Taken
                 ELSE Send(c, ReadAt(TheHandle, Piece(client.read, Len(got))))
       \/ Received /\ Reply.kind = "Error" /\ ReadFails(Accepted, Reply.code)
       \/ /\ Received /\ ~Fits /\ Reply.kind # "Error"
          /\ ReadFails([Spoilt("") EXCEPT !.expects = @ + 1], "Unexpected")
       \/ Unreceived /\ ReadFails(Spoilt(""), LostError)
    /\ UNCHANGED <<raw, broker, faults>>

(* Dropping the reader: close the source, whatever comes of it, and leave. *)
Drop ==
    /\ client.pc = "open"
    /\ IF client.failed THEN Leave("none")
       ELSE Send([client EXCEPT !.pc = "closing"], CloseSource(TheHandle))

SourceClosed ==
    /\ client.pc = "closing" /\ (Received \/ Unreceived) /\ Leave("none")
    /\ UNCHANGED <<raw, broker, faults>>
---------------------------------------------------------------------------
(* The broker.                                                             *)

Answer(b, msg) ==
    /\ broker' = [b EXCEPT !.next = @ + 1]
    /\ pipe' = [pipe EXCEPT !.frame = IF pipe.open THEN Frame("client", b.next, msg) ELSE NoFrame]

(* serve_session returns: the source is dropped, the process ends, and the *)
(* last frame it wrote, if any, can still be read.                         *)
EndsAfter(frame) ==
    /\ broker' = [BrokerOff EXCEPT !.pc = "ended"] /\ raw' = Closed
    /\ pipe' = [pipe EXCEPT !.open = FALSE, !.frame = frame]
BrokerEnds == EndsAfter(IF pipe.frame.to = "client" THEN pipe.frame ELSE NoFrame)

(* serve_session, up to the answer or the work on the source.  A session   *)
(* that does not begin with a greeting is refused.                         *)
Serve(b, msg) ==
    CASE b.pc = "started" /\ msg.kind # "Hello" ->
           EndsAfter(IF pipe.open THEN Frame("client", b.next, Err("AuthenticationFailed"))
                     ELSE NoFrame)
      [] b.pc = "started" /\ msg.kind = "Hello" ->
           Answer([b EXCEPT !.pc = "serving"], HelloAck("ours")) /\ UNCHANGED raw
      [] b.pc = "serving" /\ msg.kind = "OpenSource" /\ raw.pc = "closed" ->
           /\ broker' = [b EXCEPT !.pc = "opening"]
           /\ raw' = [Closed EXCEPT !.pc = "enumerating", !.id = msg.id]
           /\ pipe' = Taken
      [] b.pc = "serving" /\ msg.kind \in {"ReadAt", "CloseSource"}
                          /\ (raw.pc = "closed" \/ msg.handle # TheHandle) ->
           Answer(b, Err("InvalidHandle")) /\ UNCHANGED raw
      [] b.pc = "serving" /\ msg.kind = "ReadAt"
                          /\ raw.pc # "closed" /\ msg.handle = TheHandle ->
           IF End(msg.range) > Length
           THEN Answer(b, Err("ReadOutOfRange")) /\ UNCHANGED raw
           ELSE /\ broker' = [b EXCEPT !.pc = "reading"]
                /\ BeginRead(msg.range)
                /\ pipe' = Taken
      [] b.pc = "serving" /\ msg.kind = "CloseSource"
                          /\ raw.pc # "closed" /\ msg.handle = TheHandle ->
           Answer(b, ClosedMsg(TheHandle)) /\ raw' = Closed
      [] OTHER -> Answer(b, Err("InvalidRequest")) /\ UNCHANGED raw

(* Its next message, or the end of the pipe (Shutdown comes with it).      *)
Receive ==
    /\ broker.pc \in {"started", "serving"}
    /\ \/ /\ pipe.frame.to = "broker" /\ pipe.frame.seq = broker.expects
          /\ Serve([broker EXCEPT !.expects = @ + 1], pipe.frame.msg)
       \/ /\ pipe.frame.to = "broker" /\ pipe.frame.seq # broker.expects
          /\ BrokerEnds
       \/ ~pipe.open /\ pipe.frame.to # "broker" /\ BrokerEnds
    /\ UNCHANGED <<client, faults>>

Bytes == [i \in 1 .. raw.read.length |->
             [at |-> raw.read.offset + i - 1, met |-> raw.met]]

Serving == [broker EXCEPT !.pc = "serving"]

(* Bug: a source whose identity is lost stays open.                        *)
KeptBug == [raw EXCEPT !.pc = "open", !.read = NoRead, !.code = NoError]

(* source_identity_failure drops the source.                               *)
Kept == IF raw.code \in IdentityErrors THEN Closed
        ELSE [raw EXCEPT !.pc = "open", !.read = NoRead, !.met = NothingMet, !.code = NoError]

(* The source was opened or read, or it was not.                           *)
Finish ==
    /\ broker.pc \in {"opening", "reading"}
    /\ \/ /\ broker.pc = "opening" /\ raw.pc = "open"
          /\ Answer(Serving, Opened(TheHandle, raw.number)) /\ UNCHANGED raw
       \/ /\ raw.pc = "answered"
          /\ Answer(Serving, ReadData(Bytes))
          /\ raw' = [raw EXCEPT !.pc = "open", !.read = NoRead, !.met = NothingMet]
       \/ /\ raw.pc = "failed"
          /\ Answer(Serving, Err(raw.code)) /\ raw' = Kept
    /\ UNCHANGED <<client, faults>>
---------------------------------------------------------------------------
(* Faults.                                                                 *)

BrokerDies ==
    /\ broker.pc \in {"started", "serving", "opening", "reading"}
    /\ BrokerEnds /\ UNCHANGED client

(* The last frame comes again instead of the next, or a frame is missing.  *)
Resequence ==
    /\ pipe.frame # NoFrame
    /\ \/ /\ pipe.frame.to = "client" /\ pipe.old # NoFrame
          /\ pipe' = [pipe EXCEPT !.frame = pipe.old]
       \/ pipe.frame # pipe.old /\ pipe' = [pipe EXCEPT !.frame.seq = @ + 1]
    /\ UNCHANGED <<raw, broker, client>>

(* The answer is not what the question calls for.                          *)
Misfit ==
    /\ pipe.frame.to = "client"
    /\ \E msg \in Misfits :
           /\ ~(client.pc = "opening" /\ msg.kind = "Opened")
           /\ pipe' = [pipe EXCEPT !.frame.msg = msg]
    /\ UNCHANGED <<raw, broker, client>>

Fault == /\ faults < MaxFaults /\ faults' = faults + 1
         /\ Changed(world)
         /\ (BrokerDies \/ Resequence \/ Misfit)

ClientStep == Accept \/ Greeted \/ SourceOpened \/ ReadAnswered \/ SourceClosed

BrokerStep == \/ Receive \/ Finish
              \/ RawStep /\ UNCHANGED <<broker, pipe, client, faults>>
=============================================================================
