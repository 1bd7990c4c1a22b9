------------------------------ MODULE DiskSpec ------------------------------
(***************************************************************************)
(* What the disk engine promises its user, without chunks, caches, builds  *)
(* or revisions: a disk whose contents are changed only by whole writes,   *)
(* whose reads answer with the contents of one moment, whose encrypted     *)
(* file is replaced only by the exact contents at that moment, and that    *)
(* can go back to the file or to a captured state.                         *)
(***************************************************************************)
EXTENDS DiskData

VARIABLES
  content,   \* what the guest reads, or NULL when no disk is open
  saved,     \* what the encrypted file of the open disk decrypts to, or NULL
  captured,  \* contents some state file was captured with
  answer     \* what a read hands to its caller, Empty when none does

specVars == <<content, saved, captured, answer>>

SpecInit == content = NULL /\ saved = NULL /\ captured = {} /\ answer = Empty

\* Opening or creating a disk: no pending writes.
SpecOpen(c) ==
  /\ content = NULL
  /\ content' = c /\ saved' = c
  /\ UNCHANGED <<captured, answer>>

SpecWrite(r) ==
  /\ content # NULL
  /\ content' = Patched(r, content)
  /\ UNCHANGED <<saved, captured, answer>>

\* A read answers with the contents of that moment, all of one moment.
SpecRead(lo, hi) ==
  /\ content # NULL
  /\ answer' = RestrictTo(content, lo .. hi)
  /\ UNCHANGED <<content, saved, captured>>

\* The caller has it, or the call failed.
SpecReadEnds ==
  /\ answer' = Empty
  /\ UNCHANGED <<content, saved, captured>>

\* The new encrypted file holds exactly what the guest reads.
SpecSave ==
  /\ content # NULL
  /\ saved' = content
  /\ UNCHANGED <<content, captured, answer>>

SpecDiscard ==
  /\ content # NULL
  /\ content' = saved
  /\ UNCHANGED <<saved, captured, answer>>

SpecCapture ==
  /\ content # NULL
  /\ captured' = captured \cup {content}
  /\ UNCHANGED <<content, saved, answer>>

SpecRestore(c) ==
  /\ content # NULL /\ c \in captured
  /\ content' = c
  /\ UNCHANGED <<saved, captured, answer>>

SpecClose ==
  /\ content' = NULL /\ saved' = NULL
  /\ UNCHANGED <<captured, answer>>

SpecNext ==
  \/ \E c \in Contents : SpecOpen(c)
  \/ \E r \in Requests : SpecWrite(r)
  \/ \E lo, hi \in Sectors : SpecRead(lo, hi)
  \/ SpecReadEnds
  \/ SpecSave
  \/ SpecDiscard
  \/ SpecCapture
  \/ \E c \in captured : SpecRestore(c)
  \/ SpecClose

AbstractDisk == SpecInit /\ [][SpecNext]_specVars

=============================================================================
