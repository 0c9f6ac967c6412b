--------------------------------- MODULE Vms ---------------------------------
(***************************************************************************)
(* The methods of os_vms.c: its locks (VmsLock) and its input and output   *)
(* (VmsFile).  They share no state, so a behaviour is of the one or of the *)
(* other.                                                                  *)
(***************************************************************************)
EXTENDS VmsLock, Integers

CONSTANTS Block, MaxByte, Crossing, DefExt, RmsExtend, VolExtend

VARIABLES part, file, szChunk, szHint, want, rc, fault

VF == INSTANCE VmsFile

ASSUME VmsFileAssumption == VF!ConstantsOK

fileVars == <<file, szChunk, szHint, want, rc, fault>>

VmsInit == part \in {"VmsLock", "VmsFile"} /\ Init /\ VF!Init

VmsNext ==
  \/ part = "VmsLock" /\ Next /\ UNCHANGED <<part, file, szChunk, szHint, want, rc, fault>>
  \/ part = "VmsFile" /\ VF!Next /\ UNCHANGED <<part, held, queue>>

VmsSpec == VmsInit /\ [][VmsNext]_<<part, vars, fileVars>> /\ Fairness

-----------------------------------------------------------------------------

\* VmsFile: what vmsWrite() reported as written stays in the file.
FileHolds == VF!FileHolds

\* VmsFile: vmsRead() returns the bytes of the file and zeroes past its end.
ReadCorrect == VF!ReadCorrect

\* VmsFile: only the RMS default of the process extends the file by less than a write needs.
ExtendsEnough == VF!ExtendsEnough
=============================================================================
