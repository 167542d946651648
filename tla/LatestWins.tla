----------------------------- MODULE LatestWins -----------------------------
(***************************************************************************)
(* What the SET mailbox promises, without sequence numbers, clocks, queues *)
(* or a network: per opcode at most one SET is held back, at most one is   *)
(* open, a newer one takes the older one's place, and a SET that settled   *)
(* without an answer can still be answered late until a newer one goes.    *)
(* SetSession implements this (see Promise there).                         *)
(***************************************************************************)
EXTENDS Naturals

CONSTANTS
  Keys,       \* opcodes
  Pipelined,  \* opcodes that launch while a SET is open
  Ids         \* SETs, numbered in the order they are fired

VARIABLES
  fired,      \* how many were fired
  held,       \* per opcode: the SET waiting its turn, or 0
  open,       \* per opcode: the SET waiting for its answer, or 0
  late,       \* per opcode: the SET that settled unanswered, or 0
  verdict     \* per SET: the last thing said about it

vars == <<fired, held, open, late, verdict>>

Says(ids, what) == [id \in Ids |-> IF id \in ids \ {0} THEN what ELSE verdict[id]]

Init ==
  /\ fired = 0
  /\ held = [k \in Keys |-> 0]
  /\ open = [k \in Keys |-> 0]
  /\ late = [k \in Keys |-> 0]
  /\ verdict = [id \in Ids |-> "nothing"]

MayLaunch(k) == open[k] = 0 \/ k \in Pipelined

(* A SET is fired and has to wait; the one that waited before it is forgotten. *)
Hold(k) ==
  /\ fired + 1 \in Ids
  /\ fired' = fired + 1
  /\ late[k] = 0
  /\ held' = [held EXCEPT ![k] = fired + 1]
  /\ UNCHANGED <<open, late, verdict>>

(* A SET is fired and launched: it supersedes all that went before it. *)
Launch(k) ==
  /\ fired + 1 \in Ids
  /\ MayLaunch(k)
  /\ fired' = fired + 1
  /\ held' = [held EXCEPT ![k] = 0]
  /\ open' = [open EXCEPT ![k] = fired + 1]
  /\ late' = [late EXCEPT ![k] = 0]
  /\ verdict' = Says({open[k], late[k]}, "superseded")

(* The held SET is launched. *)
Release(k) ==
  /\ held[k] # 0
  /\ MayLaunch(k)
  /\ held' = [held EXCEPT ![k] = 0]
  /\ open' = [open EXCEPT ![k] = held[k]]
  /\ verdict' = Says({open[k]}, "superseded")
  /\ UNCHANGED <<fired, late>>

(* When a SET closes, the held one may go at once or a little later. *)
HeldMayFollow(k) ==
  \/ /\ open' = [open EXCEPT ![k] = 0]
     /\ UNCHANGED held
  \/ /\ open' = [open EXCEPT ![k] = held[k]]
     /\ held' = [held EXCEPT ![k] = 0]

Answered(k) ==
  /\ open[k] # 0
  /\ verdict' = Says({open[k]}, "acked")
  /\ HeldMayFollow(k)
  /\ UNCHANGED <<fired, late>>

AnsweredLate(k) ==
  /\ late[k] # 0
  /\ verdict' = Says({late[k]}, "ackedLate")
  /\ late' = [late EXCEPT ![k] = 0]
  /\ UNCHANGED <<fired, held, open>>

Unanswered(k) ==
  /\ open[k] # 0
  /\ held[k] = 0
  /\ verdict' = Says({open[k]}, "unanswered")
  /\ late' = [late EXCEPT ![k] = open[k]]
  /\ open' = [open EXCEPT ![k] = 0]
  /\ UNCHANGED <<fired, held>>

GivenUp(k) ==
  /\ open[k] # 0
  /\ held[k] # 0
  /\ verdict' = Says({open[k]}, "superseded")
  /\ HeldMayFollow(k)
  /\ UNCHANGED <<fired, late>>

(* A new datalink forgets everything, verdicts nobody has read included. *)
Forget ==
  /\ held' = [k \in Keys |-> 0]
  /\ open' = [k \in Keys |-> 0]
  /\ late' = [k \in Keys |-> 0]
  /\ verdict' \in [Ids -> {"nothing", "acked", "ackedLate", "unanswered", "superseded"}]
  /\ \A id \in Ids : verdict'[id] \in {verdict[id], "nothing", "unanswered"}
  /\ UNCHANGED fired

Next ==
  \/ \E k \in Keys :
       \/ Hold(k) \/ Launch(k) \/ Release(k)
       \/ Answered(k) \/ AnsweredLate(k) \/ Unanswered(k) \/ GivenUp(k)
  \/ Forget

Spec == Init /\ [][Next]_vars
=============================================================================
