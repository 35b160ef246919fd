------------------------------ MODULE CommLink ------------------------------
(***************************************************************************)
(* The supervision of the EMU (CommOffline) on top of the reception of its *)
(* frames (CanRx): emuOffline.hbCur moves when can_rx_info reads a frame   *)
(* of the EMU.                                                             *)
(***************************************************************************)
EXTENDS CommOffline, CanRx

linkVars == <<commVars, canVars>>

LinkTypeOK == CommTypeOK /\ CanTypeOK

LinkInit == CommInit /\ CanInit

\* Mutated form: the frames of others count as heartbeats too.
HeardAny(fr) == ReadFrame(fr) /\ Beat("EMU")

\* A frame of the EMU is its heartbeat.
Heard(fr) ==
    /\ ReadFrame(fr)
    /\ IF fr = "emu" THEN Beat("EMU") ELSE UNCHANGED commVars

Interrupt == \E fr \in Frames : Receive(fr) /\ UNCHANGED commVars

Reading ==
    \/ \E fr \in Frames : Heard(fr)
    \/ (CaughtUp \/ SetBack) /\ UNCHANGED commVars

Update == (Terminated \/ Created) /\ UNCHANGED commVars

Supervision ==
    /\ \/ Check \/ Handle \/ Handled
       \/ Beat("HMI")
       \/ \E devices \in Enables : Configure(devices)
       \/ \E m \in Fsm : MachineMoves(m)
    /\ UNCHANGED canVars

LinkNext == Interrupt \/ Reading \/ Update \/ Supervision

\* The supervision and CAN_Thread are scheduled for ever.
LinkSpec ==
    /\ LinkInit /\ [][LinkNext]_linkVars
    /\ WF_linkVars(Reading)
    /\ WF_commVars(Check) /\ WF_commVars(Handle) /\ WF_commVars(Handled)
-----------------------------------------------------------------------------
\* An EMU that has fallen silent is judged disconnected for good, whatever else
\* is sent on the bus: neither the frames of others nor old frames of its own
\* pass for heartbeats, unless the ring wraps or a pass is cut again and again.
SilentEmuLost ==
    <>[](~spoilt /\ "EMU" \in commEn) /\ <>[][~Receive("emu")]_canVars
        => <>[]disconnFlag["EMU"]
=============================================================================
