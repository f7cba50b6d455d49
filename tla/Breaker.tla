------------------------------ MODULE Breaker ------------------------------
(***************************************************************************)
(* The governor and the circuit breaker of one target                      *)
(* (pkg/writeguard/governor.go), as Guard.commit and Guard.Read use them:  *)
(* every call asks the breaker, takes a slot and a token of the governor,  *)
(* sends its request, gives the slot back and tells the breaker how the    *)
(* request went.  The mutexes make each of these one step; calls           *)
(* interleave between them.                                                *)
(*                                                                         *)
(* Time is abstracted to two events: the cooldown of an open circuit       *)
(* passes, and the token bucket gains a token.                             *)
(***************************************************************************)
EXTENDS Naturals, FiniteSets

CONSTANTS
  Caller,       \* calls to the target, each repeated for ever
  Failures,     \* BreakerConfig.Failures
  Concurrency,  \* Limits.MaxConcurrentCalls
  Burst,        \* the size of the token bucket
  CancelTrial   \* whether a waiting trial call's context may end

ASSUME ConstantsAssumption ==
  /\ IsFiniteSet(Caller)
  /\ Failures \in Nat \ {0}
  /\ Concurrency \in Nat \ {0}
  /\ Burst \in Nat \ {0}
  /\ CancelTrial \in BOOLEAN

VARIABLES
  failures,  \* consecutive failures, counted up to Failures
  open,      \* the circuit is open
  trial,     \* a trial request has been let through
  cooled,    \* the cooldown has passed since the circuit opened
  slots,     \* the governor's slots in use
  tokens,    \* the governor's tokens
  pc,        \* where each call is
  kind       \* history: whether a call was let through as the trial

breakerVars == <<failures, open, trial, cooled>>
governorVars == <<slots, tokens>>
vars == <<breakerVars, governorVars, pc, kind>>

FlagsOK == open \in BOOLEAN /\ trial \in BOOLEAN /\ cooled \in BOOLEAN

TypeOK ==
  /\ FlagsOK
  /\ failures \in 0..Failures
  /\ slots \in Nat
  /\ tokens \in 0..Burst
  /\ pc \in [Caller -> {"idle", "slot", "token", "sent", "failed", "answered"}]
  /\ kind \in [Caller -> {"normal", "trial"}]

Init ==
  /\ failures = 0 /\ open = FALSE /\ trial = FALSE /\ cooled = FALSE
  /\ slots = 0 /\ tokens = Burst
  /\ pc = [c \in Caller |-> "idle"]
  /\ kind = [c \in Caller |-> "normal"]

Goto(c, p) == pc' = [pc EXCEPT ![c] = p]

\* allow(): a closed circuit lets everyone through, an open one a single
\* trial after the cooldown; the others fail at once (ErrCircuitOpen), which
\* changes nothing.
Allow(c) ==
  /\ pc[c] = "idle"
  /\ \/ /\ ~open
        /\ kind' = [kind EXCEPT ![c] = "normal"]
        /\ UNCHANGED trial
     \/ /\ open /\ ~trial /\ cooled
        /\ trial' = TRUE
        /\ kind' = [kind EXCEPT ![c] = "trial"]
  /\ Goto(c, "slot")
  /\ UNCHANGED <<failures, open, cooled, governorVars>>

\* acquire(): one of the semaphore's slots.
TakeSlot(c) ==
  /\ pc[c] = "slot"
  /\ slots < Concurrency
  /\ slots' = slots + 1
  /\ Goto(c, "token")
  /\ UNCHANGED <<breakerVars, tokens, kind>>

\* take(): a token of the bucket.
TakeToken(c) ==
  /\ pc[c] = "token"
  /\ tokens > 0
  /\ tokens' = tokens - 1
  /\ Goto(c, "sent")
  /\ UNCHANGED <<breakerVars, slots, kind>>

\* Mutant: a call cancelled while it waits for a token keeps its slot.
CancelKeepsSlot(c) ==
  /\ pc[c] \in {"slot", "token"}
  /\ kind[c] = "trial" => CancelTrial
  /\ Goto(c, "idle")
  /\ UNCHANGED <<breakerVars, governorVars, kind>>

\* The context ends while the call waits for a slot or for a token: acquire
\* returns its error, and the call returns without a word to the breaker.
Cancel(c) ==
  /\ pc[c] \in {"slot", "token"}
  /\ kind[c] = "trial" => CancelTrial
  /\ slots' = IF pc[c] = "token" THEN slots - 1 ELSE slots
  /\ Goto(c, "idle")
  /\ UNCHANGED <<breakerVars, tokens, kind>>

\* The target answers, well or not, and the slot is released.
TargetAnswers(c) ==
  /\ pc[c] = "sent"
  /\ slots' = slots - 1
  /\ \E p \in {"failed", "answered"} : Goto(c, p)
  /\ UNCHANGED <<breakerVars, tokens, kind>>

\* success(): the circuit closes, whoever's success it is.
Success(c) ==
  /\ pc[c] = "answered"
  /\ failures' = 0 /\ open' = FALSE /\ trial' = FALSE
  /\ Goto(c, "idle")
  /\ UNCHANGED <<cooled, governorVars, kind>>

Counted == IF failures < Failures THEN failures + 1 ELSE Failures

\* Mutant: the trial flag survives the failure of the trial.
FailureKeepsTrial(c) ==
  /\ pc[c] = "failed"
  /\ failures' = Counted
  /\ \/ /\ trial \/ Counted >= Failures
        /\ open' = TRUE /\ cooled' = FALSE
     \/ /\ ~trial /\ Counted < Failures
        /\ UNCHANGED <<open, cooled>>
  /\ Goto(c, "idle")
  /\ UNCHANGED <<trial, governorVars, kind>>

\* Mutant: one failure too many.
FailureCountsOneMore(c) ==
  /\ pc[c] = "failed"
  /\ failures' = Counted
  /\ \/ /\ trial \/ failures >= Failures
        /\ open' = TRUE /\ trial' = FALSE /\ cooled' = FALSE
     \/ /\ ~trial /\ failures < Failures
        /\ UNCHANGED <<open, trial, cooled>>
  /\ Goto(c, "idle")
  /\ UNCHANGED <<governorVars, kind>>

\* failure(): the circuit opens at the limit, and opens anew (with a new
\* cooldown) when a trial is under way.
Failure(c) ==
  /\ pc[c] = "failed"
  /\ failures' = Counted
  /\ \/ /\ trial \/ Counted >= Failures
        /\ open' = TRUE /\ trial' = FALSE /\ cooled' = FALSE
     \/ /\ ~trial /\ Counted < Failures
        /\ UNCHANGED <<open, trial, cooled>>
  /\ Goto(c, "idle")
  /\ UNCHANGED <<governorVars, kind>>

CooldownPasses ==
  /\ open /\ ~cooled
  /\ cooled' = TRUE
  /\ UNCHANGED <<failures, open, trial, governorVars, pc, kind>>

\* take() adds what the rate gave since the last call, up to the burst.
Refill ==
  /\ tokens < Burst
  /\ tokens' = tokens + 1
  /\ UNCHANGED <<breakerVars, slots, pc, kind>>

Proceed(c) ==
  TakeSlot(c) \/ TakeToken(c) \/ TargetAnswers(c) \/ Success(c) \/ Failure(c)

Next ==
  \/ \E c \in Caller : Allow(c) \/ Proceed(c) \/ Cancel(c)
  \/ CooldownPasses
  \/ Refill

Spec == Init /\ [][Next]_vars

\* Time passes; a call that may go on does (Go's channel serves waiting
\* senders in order, hence SF for the slot); retries keep knocking.
FairSpec ==
  /\ Spec
  /\ WF_vars(CooldownPasses) /\ WF_vars(Refill)
  /\ WF_vars(\E c \in Caller : Allow(c))
  /\ \A c \in Caller : WF_vars(Proceed(c)) /\ SF_vars(TakeSlot(c))

-----------------------------------------------------------------------------
(* Properties. *)

\* The governor loses no slot and grants none too many: the slots in use are
\* those of the calls that wait for a token or are at the target, also after
\* calls whose context ended halfway, and never more than the limit.
SlotsAccounted ==
  /\ slots = Cardinality({c \in Caller : pc[c] \in {"token", "sent"}})
  /\ slots <= Concurrency

\* The circuit is closed only while the target's consecutive failures are
\* below the limit, however the verdicts of concurrent calls interleave; a
\* trial is only ever under way on an open circuit.
ClosedIsHealthy ==
  ~open => failures < Failures /\ ~trial

\* governor.go:105-106: "After the cooldown a single trial request is let
\* through (half-open)."  An open circuit is tried again and again, so that
\* it closes once the target has recovered.
TrialIsSent ==
  []<>(~open \/ \E c \in Caller : kind[c] = "trial" /\ pc[c] = "sent")
=============================================================================
