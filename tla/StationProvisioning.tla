------------------------ MODULE StationProvisioning ------------------------
(***************************************************************************)
(* Provisioning (opc-camera/station.rs): what to write to a camera that is *)
(* to join the operator's Wi-Fi, and what its answers lead to.  A machine  *)
(* is a record:                                                            *)
(*                                                                         *)
(*   state     "working", "done" or "failed"                               *)
(*   step      the step pending, or handed out and not answered yet        *)
(*   sent      the step was handed out (next takes `pending')              *)
(*   attempt   the join tried last; 0 before the first                     *)
(*   reads     readbacks that still said access point                      *)
(*   missing   the body has no role getter: no readback                    *)
(*   confirmed the camera said it joined                                   *)
(*                                                                         *)
(* The delays (settle, retry_delay, ROLE_VERIFY_INTERVAL) only postpone    *)
(* the handing out of a step: here the step is handed out at any later     *)
(* moment.                                                                 *)
(***************************************************************************)
EXTENDS Integers

CONSTANTS
  Attempts,     \* JoinPolicy.attempts
  VerifyReads   \* ROLE_VERIFY_READS

ASSUME ProvisioningAssumption ==
  /\ Attempts \in Nat \ {0}
  /\ VerifyReads \in Nat \ {0}

Bodies == {"plain", "video", "noGetter"}

Steps == {"identity", "videoMode", "role", "set", "readback", "join"}

Machine == [state     : {"working", "done", "failed"},
            body      : Bodies,
            step      : Steps,
            sent      : BOOLEAN,
            attempt   : 0 .. Attempts,
            reads     : 0 .. VerifyReads - 1,
            missing   : BOOLEAN,
            confirmed : BOOLEAN]

NewMachine(body) ==
  [state |-> "working", body |-> body, step |-> "identity", sent |-> FALSE,
   attempt |-> 0, reads |-> 0, missing |-> FALSE, confirmed |-> FALSE]

\* What the camera can answer each step, as the core reads it: a lost answer is "timeout".
Answers(m) ==
  CASE m.step = "identity"  -> {"identity", "short"}
    [] m.step = "videoMode" -> {"sent"}
    [] m.step = "role"      -> {"already", "verify", "reject"} \cup
                               (IF m.body = "noGetter" THEN {"noReadback"} ELSE {})
    [] m.step = "set"       -> {"accepted", "refused"}
    [] m.step = "readback"  -> {"station", "accessPoint", "unreadable"}
    [] m.step = "join"      -> {"connected", "retry", "rejected"}

Schedule(m, step) == [m EXCEPT !.step = step, !.sent = FALSE]

Fail(m) == [m EXCEPT !.state = "failed"]

\* settle_then_join: the role is right, the first join is next.
SettleThenJoin(m) == [Schedule(m, "join") EXCEPT !.attempt = 1]

ReceiveRole(m, answer) ==
  CASE answer = "already"    -> SettleThenJoin(m)
    [] answer = "verify"     -> Schedule(m, "set")
    [] answer = "noReadback" -> [Schedule(m, "set") EXCEPT !.missing = TRUE]
    [] OTHER                 -> Fail(m)

ReceiveSet(m, answer) ==
  CASE answer # "accepted" -> Fail(m)
    [] m.missing           -> SettleThenJoin(m)
    [] OTHER               -> [Schedule(m, "readback") EXCEPT !.reads = 0]

\* Mutant: one read too many.
ReadsOnceMore(m, answer) ==
  CASE answer = "station" -> SettleThenJoin(m)
    [] answer = "accessPoint" /\ m.reads < VerifyReads ->
         [Schedule(m, "readback") EXCEPT !.reads = @ + 1]
    [] OTHER -> Fail(m)

ReceiveReadback(m, answer) ==
  CASE answer = "station" -> SettleThenJoin(m)
    [] answer = "accessPoint" /\ m.reads + 1 < VerifyReads ->
         [Schedule(m, "readback") EXCEPT !.reads = @ + 1]
    [] OTHER -> Fail(m)

\* Mutant: the first join that goes unanswered is taken for done.
UnansweredIsDone(m, answer) ==
  CASE answer = "connected" -> [m EXCEPT !.state = "done", !.confirmed = TRUE]
    [] answer = "retry" /\ m.attempt < Attempts ->
         [Schedule(m, "join") EXCEPT !.attempt = @ + 1]
    [] answer = "timeout" -> [m EXCEPT !.state = "done"]
    [] OTHER -> Fail(m)

\* A join that went unanswered is tried again like one the camera asked to retry, and
\* when the tries are used up the LAN search has to say.
ReceiveJoin(m, answer) ==
  CASE answer = "connected" -> [m EXCEPT !.state = "done", !.confirmed = TRUE]
    [] answer \in {"retry", "timeout"} /\ m.attempt < Attempts ->
         [Schedule(m, "join") EXCEPT !.attempt = @ + 1]
    [] answer = "timeout" /\ m.attempt >= Attempts -> [m EXCEPT !.state = "done"]
    [] OTHER -> Fail(m)

Receive(m, answer) ==
  CASE m.step = "identity" /\ answer = "identity" ->
         Schedule(m, IF m.body = "video" THEN "videoMode" ELSE "role")
    [] m.step = "videoMode" -> Schedule(m, "role")
    [] m.step = "role"      -> ReceiveRole(m, answer)
    [] m.step = "set"       -> ReceiveSet(m, answer)
    [] m.step = "readback"  -> ReceiveReadback(m, answer)
    [] m.step = "join"      -> ReceiveJoin(m, answer)
    [] OTHER                -> Fail(m)

=============================================================================
