-------------------------- MODULE CameraSetMailbox --------------------------
(***************************************************************************)
(* The decisions of the core's CameraSetMailbox about ONE opcode: what may *)
(* be launched, which reply belongs to the open generation, what a silence *)
(* means.  The Swift struct keeps four dictionaries keyed by opcode; the   *)
(* row of one opcode is the record below.                                  *)
(*                                                                         *)
(*   open        "none", "waiting", or "late" (a generation that settled   *)
(*               without an answer and still accepts one)                  *)
(*   seqs        the sequence numbers transmitted for the open generation  *)
(*   pending     "none", or the urgency of the one SET that waits          *)
(*   superseded  sequence numbers of generations a newer one replaced      *)
(*   hold        time left before a slider may launch again; 0 also stands *)
(*               for "never launched", which the code treats alike         *)
(***************************************************************************)
EXTENDS Naturals, FiniteSets

CONSTANTS
  SeqModulus,      \* sequence numbers are 16 bits wide in the code
  SupersededCap,   \* 64 in the code: more than this many are trimmed ...
  SupersededKeep   \* ... to the 32 numerically largest

ASSUME MailboxAssumption ==
  /\ SeqModulus \in Nat \ {0}
  /\ SupersededCap \in Nat
  /\ SupersededKeep \in Nat

SeqNo == 0 .. SeqModulus - 1

Box == [open       : {"none", "waiting", "late"},
        seqs       : SUBSET SeqNo,
        pending    : {"none", "slider", "urgent"},
        superseded : SUBSET SeqNo,
        hold       : Nat]

FreshBox == [open       |-> "none",
             seqs       |-> {},
             pending    |-> "none",
             superseded |-> {},
             hold       |-> 0]

(* Mutant: the rate limit is kept, but not the one-in-flight rule. *)
MustWaitForHold(b, pipelines, urgent) == ~urgent /\ b.hold > 0

(***************************************************************************)
(* offer: a SET that must wait becomes (or replaces) the pending one, and  *)
(* stays urgent if either was; any other is launched by the caller.        *)
(***************************************************************************)
MustWait(b, pipelines, urgent) ==
  \/ /\ b.open = "waiting"
     /\ ~pipelines
  \/ /\ b.open # "late"
     /\ ~urgent
     /\ b.hold > 0

Coalesce(b, urgent) ==
  [b EXCEPT !.pending = IF urgent \/ @ = "urgent" THEN "urgent" ELSE "slider"]

OfferLaunched(b) == [b EXCEPT !.pending = "none"]

(* Keep the largest sequence numbers once the set outgrows its cap. *)
Trim(seqs) ==
  IF Cardinality(seqs) > SupersededCap
  THEN {s \in seqs : Cardinality({t \in seqs : t > s}) < SupersededKeep}
  ELSE seqs

SupersedeOpen(b) ==
  [b EXCEPT !.superseded = IF b.seqs = {} THEN @ ELSE Trim(@ \cup b.seqs),
            !.seqs = {},
            !.open = "none"]

BeginLaunch(b, hold) ==
  [SupersedeOpen(b) EXCEPT !.pending = "none",
                           !.hold = hold,
                           !.open = "waiting"]

(* A transmission is credited to whatever generation is open when it leaves. *)
NoteTransmit(b, seq) ==
  IF b.open = "none"
  THEN b
  ELSE [b EXCEPT !.seqs = @ \cup {seq}, !.superseded = @ \ {seq}]

(* Mutant: any reply to the opcode is taken, whatever its sequence number. *)
AcceptsAnySeq(b, seq) == b.open # "none"

Accepts(b, seq) == b.open # "none" /\ seq \in b.seqs

CloseOpen(b) == [b EXCEPT !.open = "none", !.seqs = {}]

(***************************************************************************)
(* timeout with subscribeMatches = false, the only way SetDriver calls it. *)
(***************************************************************************)
TimeoutDecision(b) ==
  CASE b.open = "none"    -> "idle"
    [] b.open # "none" /\ b.pending # "none" -> "launchPending"
    [] OTHER              -> "waitLate"

AfterTimeout(b) ==
  CASE TimeoutDecision(b) = "idle"          -> b
    [] TimeoutDecision(b) = "launchPending" -> SupersedeOpen(b)
    [] OTHER                                -> [b EXCEPT !.open = "late"]

(* Mutant: a slider that had to wait never gets its turn. *)
OnlyUrgentGoes(b) ==
  CASE b.pending = "none"   -> "none"
    [] b.pending = "urgent" -> "immediate"
    [] OTHER                -> "afterHold"

PendingLaunch(b) ==
  CASE b.pending = "none" -> "none"
    [] b.pending = "urgent" \/ (b.pending = "slider" /\ b.hold = 0) -> "immediate"
    [] OTHER -> "afterHold"

(* Time passes for the rate limit. *)
AgeBox(b) == [b EXCEPT !.hold = IF @ = 0 THEN 0 ELSE @ - 1]
=============================================================================
