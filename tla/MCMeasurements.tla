--------------------------- MODULE MCMeasurements ---------------------------
EXTENDS Measurements

(* Two calls, one after the other, on the port the ATA uses again.         *)
MCRegistrations == {[call |-> "a", port |-> "p"], [call |-> "b", port |-> "p"]}

MCPorts == {"p"}

(* Frames of 6 bytes of audio, with and without everything that may be     *)
(* before or behind them.                                                  *)
MCFrame(link, tagged, sources, extension, padding, trailer) ==
    LET start  == CASE link = 1 -> (IF tagged THEN 18 ELSE 14) [] link = 113 -> 16 [] OTHER -> 20
        length == 20 + 12 + 4 * sources + (IF extension THEN 8 ELSE 0) + 6
    IN  [link |-> link, vlan |-> tagged, ipv4 |-> TRUE, version |-> 4, ihl |-> 5,
         protocol |-> 17, fragment |-> FALSE, total |-> 8 + length, udpLength |-> length - 12,
         rtpVersion |-> 2, type |-> 0, sources |-> sources, extension |-> extension,
         extensionWords |-> 1, padding |-> padding, padLength |-> 2,
         captured |-> start + 8 + length + trailer]

MCWellformed ==
    {MCFrame(link, tagged, sources, extension, padding, trailer) :
        link \in {1, 113, 276}, tagged \in BOOLEAN, sources \in {0, 1},
        extension \in BOOLEAN, padding \in BOOLEAN, trailer \in {0, 6}}

MCDamage ==
    [vlan |-> BOOLEAN, ipv4 |-> {FALSE}, version |-> {6}, ihl |-> {4, 6},
     protocol |-> {6}, fragment |-> {TRUE}, total |-> {0, 30, 39, 40, 44, 45, 60},
     udpLength |-> {0, 8, 19, 20, 24, 25, 26, 60}, rtpVersion |-> {1}, type |-> {8, 96},
     sources |-> {1, 15}, extension |-> BOOLEAN, extensionWords |-> {0, 2, 99},
     padding |-> BOOLEAN, padLength |-> {0, 1, 5, 6, 7, 200},
     captured |-> {13, 18, 33, 34, 41, 42, 53, 54, 58, 60}]

MCSizes == <<3, 2>>

(* Sender reports, receiver reports and descriptions; a version and a kind *)
(* that are wrong.                                                         *)
MCHeader(kind, words, count, last) ==
    [version |-> 2, kind |-> kind, words |-> words, count |-> count,
     padding |-> last # 0, last |-> last]

MCHeaders ==
    {MCHeader(kind, words, count, last) : kind \in {200, 201, 202},
        words \in {0, 1, 7, 13}, count \in {0, 1, 2}, last \in {0, 4, 60}}
    \cup {[MCHeader(201, 7, 1, 0) EXCEPT !.version = 1], MCHeader(100, 1, 1, 0)}

(* One MP frame of each type; symbols at the edges of the second of three  *)
(* repetitions of the long one, and within five of the short one.          *)
MCMask     == [i \in 1 .. 15 |-> IF i \in {5, 11, 15} THEN 1 ELSE 0]
MCContents == [type : {0, 1}, ca : {7}, ac : {4}, trellis : {2}, ack : {1}, mask : {MCMask}]
MCRepeats  == [type \in {0, 1} |-> IF type = 1 THEN 3 ELSE 5]
MCHits     == {20, 47, 80, 93, 140}
MCSymbols  == {[q |-> 0, z |-> 1], [q |-> 0, z |-> 2], [q |-> 3, z |-> 0]}
MCJoins    == {40, 92}
=============================================================================
