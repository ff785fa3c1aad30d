---------------------------- MODULE Measurements ----------------------------
(***************************************************************************)
(* The media of a call and everything the laboratory's tools are asked to  *)
(* measure of it, side by side: the RTP stream of a call and what becomes  *)
(* of it (RtpPath), the audio sent the other way (AudioOut), the frames    *)
(* and files a call is read from (CaptureFrames), the RTCP reports about   *)
(* it (RtcpReports), the samples it is turned into (G711), the modem       *)
(* signals in it (MpFrames, Training) and uploads through the call         *)
(* (Uploads).                                                              *)
(*                                                                         *)
(* These parts share no state: each behaviour has one subject, and the     *)
(* other parts rest.                                                       *)
(***************************************************************************)
EXTENDS RtpPath, AudioOut, Captures, Uploads

CONSTANTS
    Contents, Repeats, Hits, Symbols, Joins,       \* MpFrames
    Lanes, Span, Strengths, MaxCandidates, Apart   \* Training

VARIABLES
    subject,
    code,                                          \* G711
    signal, line, received, rotation, missed, hit, \* MpFrames
    scrambled, angles, states, candidates          \* Training

Codecs  == INSTANCE G711
Mp      == INSTANCE MpFrames
Train   == INSTANCE Training

ASSUME AudioAssumption == AudioConstants
ASSUME CapturesAssumption == FrameConstants /\ ReportConstants

mpVars     == <<signal, line, received, rotation, missed, hit>>
trainVars  == <<scrambled, angles, states, candidates>>

allVars ==
    <<subject, pathVars, frameVars, reportVars, code, mpVars, trainVars, uploadVars, audio>>

MeasurementsInit ==
    /\ subject \in {"stream", "frames", "reports", "codecs", "signals", "training",
                    "uploads", "audio"}
    /\ PathInit
    /\ FramesInit /\ (subject # "frames" => frame = Nothing)
    /\ ReportsInit
    /\ IF subject = "codecs" THEN Codecs!G711Init ELSE code = None
    /\ Mp!Silence
    /\ Train!TrainingInit
    /\ UploadsInit
    /\ AudioInit /\ (subject # "audio" => ~paced)

Stream == subject = "stream" /\ PathNext
          /\ UNCHANGED <<subject, frameVars, reportVars, code, mpVars, trainVars, uploadVars, audio>>

Framing == subject = "frames" /\ FramesNext
           /\ UNCHANGED <<subject, pathVars, reportVars, code, mpVars, trainVars, uploadVars, audio>>

Compounding == subject = "reports" /\ ReportsNext
             /\ UNCHANGED <<subject, pathVars, frameVars, code, mpVars, trainVars, uploadVars, audio>>

Sampling == subject = "codecs" /\ Codecs!NextCode
            /\ UNCHANGED <<subject, pathVars, frameVars, reportVars, mpVars, trainVars, uploadVars, audio>>

Signalling == subject = "signals" /\ Mp!MpNext
              /\ UNCHANGED <<subject, pathVars, frameVars, reportVars, code, trainVars, uploadVars, audio>>

Training == subject = "training" /\ Train!TrainingNext
            /\ UNCHANGED <<subject, pathVars, frameVars, reportVars, code, mpVars, uploadVars, audio>>

Uploading == subject = "uploads" /\ UploadsNext
             /\ UNCHANGED <<subject, pathVars, frameVars, reportVars, code, mpVars, trainVars, audio>>

Sending == subject = "audio" /\ AudioNext
           /\ UNCHANGED <<subject, pathVars, frameVars, reportVars, code, mpVars, trainVars, uploadVars>>

MeasurementsNext ==
    Stream \/ Framing \/ Compounding \/ Sampling \/ Signalling \/ Training
    \/ Uploading \/ Sending

MeasurementsSpec == MeasurementsInit /\ [][MeasurementsNext]_allVars
----------------------------------------------------------------------------
(* The types of the parts.                                                 *)
MeasurementsTypeOK ==
    PathTypeOK /\ Codecs!G711TypeOK /\ Mp!MpTypeOK /\ Train!TrainingTypeOK /\ UploadsTypeOK

(* The parts keep their types, and no two bytes are heard as the same      *)
(* sample (G711).                                                          *)
NothingConfused == MeasurementsTypeOK /\ Codecs!NothingConfused

(* MP frames reported are those sent, all that were heard are reported,    *)
(* and TRN is locked to at the right angle (MpFrames).                     *)
SignalsAreRead == Mp!FramesWereSent /\ Mp!FramesAreFound /\ Mp!TrnLocks

(* The branch tables, the B1 signal and its receiver fit together, and a   *)
(* B1 is reported once, where it is strongest (Training).                  *)
TrainingIsRead ==
    /\ subject = "training" => Train!TrainingFits
    /\ Train!EventsAreStrongest
=============================================================================
