------------------------------- MODULE Drives -------------------------------
(***************************************************************************)
(* A volume on a drive, as fs/fat/diskio.c and the JADOS driver see it:    *)
(* each transfer goes to the block driver the volume was mounted on, hard  *)
(* disk or SD card, and ends before the next one begins.                   *)
(***************************************************************************)
EXTENDS IdeDisk, SdCard

VARIABLE pblkdrv   \* pfstab->pblkdrv

vars == <<pblkdrv, idevars, sdvars>>

\* What kind of hard disk there is matters to a volume on one only.
Init == pblkdrv \in {"hd", "sd"} /\ IdeInit /\ SdInit /\ (pblkdrv = "sd" => keeps)

\* disk_initialize, disk_read, disk_write call pblkdrv->blk_oper.
hd == pblkdrv = "hd" /\ IdeNext /\ UNCHANGED <<pblkdrv, sdvars>>
sd == pblkdrv = "sd" /\ SdNext /\ UNCHANGED <<pblkdrv, idevars>>

Next == hd \/ sd

\* A call goes on by itself until it returns.
Driver ==
  \/ pblkdrv = "hd" /\ Steps /\ UNCHANGED <<pblkdrv, sdvars>>
  \/ pblkdrv = "sd" /\ SdSteps /\ UNCHANGED <<pblkdrv, idevars>>

Spec == Init /\ [][Next]_vars
FairSpec == Spec /\ WF_vars(Driver)

\* Besides, a card that is asked for a register sends it some time.
TokenSent == pblkdrv = "sd" /\ (Token \/ CidToken) /\ UNCHANGED <<pblkdrv, idevars>>
CardSpec == FairSpec /\ WF_vars(TokenSent)

-----------------------------------------------------------------------------
TypeOK == IdeTypeOK /\ SdTypeOK /\ pblkdrv \in {"hd", "sd"}

\* Whatever a drive does, or leaves undone, at any wait: the call ends, the
\* retries of _ide and the polls of sd_init0 do not go on for ever.
CallsReturn == (pc # "idle" \/ spc # "idle") ~> (pc = "idle" /\ spc = "idle")

=============================================================================
