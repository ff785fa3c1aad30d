------------------------------ MODULE AudioOut ------------------------------
(***************************************************************************)
(* The way of a modem's audio to the network, for one Line of              *)
(* src/src/line.js: the frames the modem program writes, the byte stream   *)
(* they come through in pieces (acceptProcessOutput of src/src/media.js),  *)
(* the RTP packets made of them (RtpEndpoint.sendPayload) and the pacer    *)
(* that sends them in time (src/src/rtp-pacer.js), which is there only     *)
(* when it is asked for.  Time is counted in samples.                      *)
(***************************************************************************)
EXTENDS Naturals, Sequences, FiniteSets, SequencesExt

CONSTANTS
    FrameSizes,  \* bytes of the frames the modem writes
    MaxFrames,   \* bound on these
    Delay,       \* delayMs
    Limit,       \* packets the pacer keeps, 200
    Early,       \* a timer fires no earlier than this before its time
    MaxTime,     \* bound on the clock
    SeqNumbers, Timestamps, Unset

(* A frame has audio, and its length fits into the two bytes before it.    *)
AudioConstants ==
    /\ \A size \in FrameSizes : size \in Nat /\ 0 < size /\ size < 65536
    /\ Delay \in Nat /\ Limit \in Nat /\ Early \in Nat /\ MaxTime \in Nat
    /\ SeqNumbers \in Nat \ {0} /\ Timestamps \in Nat \ {0}
    /\ Unset \notin Nat

VARIABLES
    paced,   \* whether there is a pacer
    now,     \* the clock
    written, \* the sizes of the frames written; frame n consists of n's
    pipe,    \* bytes on their way to the service
    stdoutBuffer,
    remote,  \* whether the endpoint knows where to send
    open,    \* neither the modem nor the socket has been stopped
    out      \* outbound numbers, pacer and the packets sent

audio == <<paced, now, written, pipe, stdoutBuffer, remote, open, out>>

AudioInit ==
    /\ paced \in BOOLEAN
    /\ now = 0 /\ written = <<>> /\ pipe = <<>> /\ stdoutBuffer = <<>>
    /\ remote = FALSE /\ open = TRUE
    /\ out = [seq |-> 0, stamp |-> 0, queue |-> <<>>, timer |-> Unset, deadline |-> Unset,
              overflowed |-> FALSE, sent |-> <<>>]
----------------------------------------------------------------------------
TimePasses ==
    /\ now < MaxTime /\ now' = now + 1
    /\ UNCHANGED <<paced, written, pipe, stdoutBuffer, remote, open, out>>

Content(n) == [i \in 1 .. written[n] |-> n]

(* A frame is written behind its length, in two bytes.                     *)
ModemWrites(size) ==
    /\ open /\ Len(written) < MaxFrames
    /\ written' = Append(written, size)
    /\ pipe' = pipe \o <<size \div 256, size % 256>> \o [i \in 1 .. size |-> Len(written) + 1]
    /\ UNCHANGED <<paced, now, stdoutBuffer, remote, open, out>>

(* The first packet that arrives tells where to send.                      *)
RemoteKnown ==
    /\ open /\ ~remote /\ remote' = TRUE
    /\ UNCHANGED <<paced, now, written, pipe, stdoutBuffer, open, out>>

(* A packet as it is sent, for the observer of the network.                *)
Departing(packet) ==
    [payload |-> packet.payload, seq |-> packet.seq, stamp |-> packet.stamp,
     made |-> packet.made, at |-> now]

(* RtpPacer.                                                               *)
Arm(o) == [o EXCEPT !.timer = Max({now, o.deadline})]

Push(o, packet) ==
    IF Len(o.queue) >= Limit THEN [o EXCEPT !.overflowed = TRUE]
    ELSE LET kept == [o EXCEPT !.queue = Append(@, packet)]
         IN  IF o.timer # Unset THEN kept
             ELSE Arm([kept EXCEPT !.deadline = now + IF @ = Unset THEN Delay ELSE 0])

(* RtpEndpoint.sendPayload: a packet the pacer refuses has had its number. *)
SendPayload(o, payload) ==
    LET packet == [payload |-> payload, seq |-> o.seq, stamp |-> o.stamp, made |-> now]
        next   == [o EXCEPT !.seq = (@ + 1) % SeqNumbers,
                            !.stamp = (@ + Len(payload)) % Timestamps]
    IN  IF ~remote THEN o
        ELSE IF paced THEN Push(next, packet)
        ELSE [next EXCEPT !.sent = Append(@, Departing(packet))]

SendAll(o, payloads) == FoldLeft(SendPayload, o, payloads)

(* acceptProcessOutput: as many frames as are whole.                       *)
FrameLength(buffer) == 256 * buffer[1] + buffer[2]

HasFrame(buffer) == Len(buffer) >= 2 /\ Len(buffer) >= 2 + FrameLength(buffer)

TakeFrame(parse, byte) ==
    LET end == 2 + FrameLength(parse.rest)
    IN  IF HasFrame(parse.rest)
        THEN [frames |-> Append(parse.frames, SubSeq(parse.rest, 3, end)),
              rest   |-> SubSeq(parse.rest, end + 1, Len(parse.rest))]
        ELSE parse

TakeOne(buffer) == TakeFrame([frames |-> <<>>, rest |-> buffer], 0)
TakeFrames(buffer) == FoldLeft(TakeFrame, [frames |-> <<>>, rest |-> buffer], buffer)

Chunk(length) ==
    /\ open /\ length <= Len(pipe)
    /\ pipe' = SubSeq(pipe, length + 1, Len(pipe))
    /\ LET parse == TakeFrames(stdoutBuffer \o SubSeq(pipe, 1, length))
       IN  /\ stdoutBuffer' = parse.rest
           /\ out' = SendAll(out, parse.frames)
    /\ UNCHANGED <<paced, now, written, remote, open>>

(* RtpPacer.tick: a timer may fire a little early, and as late as it likes. *)
TickAsItWakes(o) == [o EXCEPT !.timer = Unset]
Woken(o) == IF now < o.deadline THEN Arm(o) ELSE [o EXCEPT !.timer = Unset]

SendHead(o) ==
    LET packet   == Head(o.queue)
        duration == Len(packet.payload)
        late     == now - o.deadline >= duration
    IN  Arm([o EXCEPT !.queue = Tail(@), !.sent = Append(@, Departing(packet)),
                      !.deadline = (IF late THEN now ELSE @) + duration])

Tick ==
    /\ out.timer # Unset /\ now + Early >= out.timer
    /\ LET woken == Woken(out)
       IN  out' = IF woken.timer # Unset \/ woken.queue = <<>> THEN woken ELSE SendHead(woken)
    /\ UNCHANGED <<paced, now, written, pipe, stdoutBuffer, remote, open>>

(* Line.stop: what the modem still writes is not listened to, the pacer is *)
(* reset and the socket closed, in one go.                                 *)
QueueCleared(o) == [o EXCEPT !.queue = <<>>, !.deadline = Unset]
Reset(o) == [o EXCEPT !.queue = <<>>, !.deadline = Unset, !.timer = Unset]

StopLine ==
    /\ open /\ open' = FALSE
    /\ out' = Reset(out)
    /\ UNCHANGED <<paced, now, written, pipe, stdoutBuffer, remote>>

AudioNext ==
    \/ TimePasses
    \/ \E size \in FrameSizes : ModemWrites(size)
    \/ RemoteKnown
    \/ \E length \in 1 .. Len(pipe) : Chunk(length)
    \/ Tick
    \/ StopLine

AudioSpec == AudioInit /\ [][AudioNext]_audio
----------------------------------------------------------------------------
AudioTypeOK ==
    /\ now \in 0 .. MaxTime
    /\ out.seq \in 0 .. SeqNumbers - 1 /\ out.stamp \in 0 .. Timestamps - 1
    /\ Len(out.queue) <= Limit
    /\ out.timer \in Nat \cup {Unset} /\ out.deadline \in Nat \cup {Unset}

Ahead == out.sent \o out.queue

FrameOf(packet) == packet.payload[1]

Total(sizes) == FoldLeft(LAMBDA sum, size : sum + size, 0, sizes)

SamplesOf(from, to) == Total(SubSeq(written, from, to))

DurationOf(sent) == Total([k \in DOMAIN sent |-> Len(sent[k].payload)])

(* Frames whose last byte has been read.                                   *)
BytesRead  == SamplesOf(1, Len(written)) + 2 * Len(written) - Len(pipe)
FramesRead == Cardinality({n \in DOMAIN written : SamplesOf(1, n) + 2 * n <= BytesRead})

(* Packets carry the frames as they were written, wherever the stream was  *)
(* cut, in order and numbered as they follow each other; one is missing    *)
(* only where the pacer overflowed.                                        *)
FramesAreWhole ==
    /\ \A k \in DOMAIN Ahead : Ahead[k].payload = Content(FrameOf(Ahead[k]))
    /\ \A k \in 1 .. Len(Ahead) - 1 :
          LET m == FrameOf(Ahead[k])
              n == FrameOf(Ahead[k + 1])
          IN  /\ m < n
              /\ Ahead[k + 1].seq = (Ahead[k].seq + n - m) % SeqNumbers
              /\ Ahead[k + 1].stamp = (Ahead[k].stamp + SamplesOf(m, n - 1)) % Timestamps
              /\ ~out.overflowed => n = m + 1
    /\ open /\ Ahead # <<>> /\ ~out.overflowed => FrameOf(Last(Ahead)) = FramesRead

(* The pacer begins after its delay, and then never gets ahead of the      *)
(* sender's clock by a packet or more, however early or late timers fire   *)
(* and whatever runs dry in between.                                       *)
NeverAhead ==
    paced =>
        /\ out.sent # <<>> => out.sent[1].at >= out.sent[1].made + Delay
        /\ \A j \in DOMAIN out.sent : \A i \in 1 .. j - 1 :
              out.sent[j].at > out.sent[i].at + DurationOf(SubSeq(out.sent, i + 1, j - 1))

(* What waits has a timer that will fetch it, and after the end nothing    *)
(* does: sending on a closed socket would bring the service down.          *)
NothingIsStuck ==
    /\ paced /\ out.queue # <<>> => out.timer # Unset
    /\ ~open => out.queue = <<>> /\ out.timer = Unset

AudioArrives == AudioTypeOK /\ FramesAreWhole /\ NeverAhead /\ NothingIsStuck
=============================================================================
