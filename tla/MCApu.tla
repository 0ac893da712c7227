------------------------------- MODULE MCApu -------------------------------
(***************************************************************************)
(* Apu with a sequence of five steps, one length and volumes up to one.    *)
(***************************************************************************)
EXTENDS Apu

MCLengths == <<1>>
MCEnvelopeReloads == {1}
MCLinearReloads == {1}
MCRegisters == {"tone", "triangle", "enable", "frame"}
=============================================================================
