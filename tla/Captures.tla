------------------------------ MODULE Captures ------------------------------
(***************************************************************************)
(* What the tools read of captured calls: the audio in a frame and the     *)
(* frames of a file (CaptureFrames), and the receiver reports of an RTCP   *)
(* datagram (RtcpReports).  The two share no state.                        *)
(***************************************************************************)
EXTENDS CaptureFrames, RtcpReports

frameVars  == <<frame, damaged, copied>>
reportVars == <<packets, octets>>

CapturesInit == FramesInit /\ ReportsInit

CapturesNext ==
    \/ FramesNext /\ UNCHANGED reportVars
    \/ ReportsNext /\ UNCHANGED frameVars

CapturesSpec == CapturesInit /\ [][CapturesNext]_<<frameVars, reportVars>>

(* What the capture tools read: audio is taken from within the packet      *)
(* only, all tools take the same, the service hears it too, reports are    *)
(* looked for in whole datagrams, a growing file is read up to its last    *)
(* whole record (CaptureFrames), and a datagram yields all its receiver    *)
(* reports or none (RtcpReports).                                          *)
CapturesAreRead ==
    /\ FramesTypeOK /\ ReportsTypeOK
    /\ AudioIsWithin /\ ToolsAgree /\ FlowsHaveTheAudio
    /\ ServiceHearsTheSame /\ ReportsAreWhole /\ SameRecords
    /\ AllOrNothing
=============================================================================
