-------------------------- MODULE WatcherRecovery --------------------------
(***************************************************************************)
(* WatcherRelayRecovery (OpenPocketViewCore): the bounded retries of one   *)
(* join to a phone that shares its feed.  A policy is a record of clocks   *)
(* in whole seconds; Off is a clock that is not set (nil):                 *)
(*                                                                         *)
(*   retries    retryCount                                                 *)
(*   retryIn    what is left until retryAt                                 *)
(*   deadline   what is left of the join, or of the silence any message    *)
(*              ends                                                       *)
(*   picture    what is left of pictureDeadline                            *)
(*   gap        time since lastPicture, up to MaxGap + 1                   *)
(*   steady     time since stableSince, up to StableAfter                  *)
(***************************************************************************)
EXTENDS Integers, Sequences

CONSTANTS
  JoinTimeout,    \* 15 s
  FirstPicture,   \* 10 s
  SilenceTimeout, \* 5 s
  StableAfter,    \* 10 s of pictures give the retries back
  MaxGap,         \* 2 s between pictures restart that count
  MaxRetries      \* 3

\* What each retry waits.
Pauses == <<1, 2, 4>>

ASSUME RecoveryAssumption ==
  /\ {JoinTimeout, FirstPicture, SilenceTimeout, StableAfter} \subseteq Nat \ {0}
  /\ MaxGap \in Nat
  /\ MaxRetries \in 0 .. Len(Pauses)

Off == -1
Clocks == Nat \cup {Off}

Recovery == [retries  : 0 .. MaxRetries,
             retryIn  : Clocks,
             deadline : Clocks,
             picture  : Clocks,
             gap      : Clocks,
             steady   : Clocks,
             accepted : BOOLEAN,
             stopped  : BOOLEAN]

NewRecovery ==
  [retries |-> 0, retryIn |-> Off, deadline |-> JoinTimeout, picture |-> Off,
   gap |-> Off, steady |-> Off, accepted |-> FALSE, stopped |-> FALSE]

Connected(r) ==
  [r EXCEPT !.accepted = TRUE, !.steady = Off, !.gap = Off, !.retryIn = Off,
            !.picture = FirstPicture, !.deadline = SilenceTimeout]

Deaf(r) == ~r.accepted \/ r.stopped \/ r.retryIn # Off

\* Mutant: any message counts as a sign of pictures.
HeardAsPicture(r) ==
  IF Deaf(r) THEN r ELSE [r EXCEPT !.deadline = SilenceTimeout, !.picture = SilenceTimeout]

\* A message that is not a picture: only the silence clock restarts.
Heard(r) == IF Deaf(r) THEN r ELSE [r EXCEPT !.deadline = SilenceTimeout]

\* Mutant: a gap between pictures does not start the count again.
SteadyThroughGaps(r) == IF r.gap = Off THEN 0 ELSE r.steady

SteadyAt(r) == IF r.gap = Off \/ r.gap > MaxGap THEN 0 ELSE r.steady

Pictured(r) ==
  IF Deaf(r) THEN r
  ELSE [r EXCEPT !.deadline = SilenceTimeout, !.picture = SilenceTimeout, !.gap = 0,
                 !.steady = SteadyAt(r),
                 !.retries = IF SteadyAt(r) >= StableAfter THEN 0 ELSE @]

\* Mutant: one retry too many.
DisconnectedOnceMore(r) ==
  IF r.stopped \/ r.retryIn # Off THEN r
  ELSE LET lost == [r EXCEPT !.accepted = FALSE, !.steady = Off, !.gap = Off,
                             !.picture = Off, !.deadline = Off]
       IN IF r.retries <= MaxRetries
          THEN [lost EXCEPT !.retryIn = Pauses[r.retries + 1], !.retries = @ + 1]
          ELSE [lost EXCEPT !.stopped = TRUE]

\* Exhausted when it stops the policy.
Disconnected(r) ==
  IF r.stopped \/ r.retryIn # Off THEN r
  ELSE LET lost == [r EXCEPT !.accepted = FALSE, !.steady = Off, !.gap = Off,
                             !.picture = Off, !.deadline = Off]
       IN IF r.retries < MaxRetries
          THEN [lost EXCEPT !.retryIn = Pauses[r.retries + 1], !.retries = @ + 1]
          ELSE [lost EXCEPT !.stopped = TRUE]

Stop(r) == [r EXCEPT !.stopped = TRUE, !.picture = Off, !.deadline = Off, !.retryIn = Off]

\* What tick finds due.
RetryDue(r) == ~r.stopped /\ r.retryIn = 0
Overdue(r) == ~r.stopped /\ r.retryIn # 0 /\ 0 \in {r.picture, r.deadline}

\* Mutant: a retry has no time limit.
RetryForEver(r) == [r EXCEPT !.retryIn = Off, !.deadline = Off]

Retry(r) == [r EXCEPT !.retryIn = Off, !.deadline = JoinTimeout]

\* A second passes.
Later(clock) == IF clock > 0 THEN clock - 1 ELSE clock
Since(clock, most) == IF clock \in 0 .. most - 1 THEN clock + 1 ELSE clock

SecondPasses(r) ==
  [r EXCEPT !.retryIn = Later(@), !.deadline = Later(@), !.picture = Later(@),
            !.gap = Since(@, MaxGap + 1), !.steady = Since(@, StableAfter)]

=============================================================================
