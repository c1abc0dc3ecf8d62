------------------------------- MODULE Signals -------------------------------
(***************************************************************************)
(* What alert notifications and SIEM batches share: the signed POST of     *)
(* internal/adapters/signalhttp and the bookkeeping of its attempts in     *)
(* internal/adapters/postgres/store.go.  A claimed delivery has no lease:  *)
(* it is "in_progress" until its worker records the attempt.               *)
(***************************************************************************)
EXTENDS ControlPlane

CONSTANT MaxSignalAttempts    \* attempts before a delivery is "failed" (the code's 5)

ASSUME SignalAttemptsAssumption == MaxSignalAttempts \in Nat \ {0}

(* How a POST can end: without being sent; with a network error, before or *)
(* after the receiver took the body; with an answer, perhaps one whose     *)
(* body cannot be read ("busy" is 408, 409, 425 or 429).                   *)
SignalAnswers ==
  {"policy_blocked", "client_configuration_error", "network_error", "response_read_error",
   "2xx", "3xx", "busy", "4xx", "5xx"}

Classify(a) ==
  CASE a = "2xx" -> "success"
    [] a \in {"busy", "5xx"} -> "temporary_http"
    [] a = "3xx" -> "redirect_blocked"
    [] a = "4xx" -> "permanent_http"
    [] OTHER -> a

(* Whether the receiver kept the body; only a 2xx says that it did. *)
Keeps(a) ==
  {k \in BOOLEAN : /\ a = "2xx" => k
                   /\ a \in {"policy_blocked", "client_configuration_error"} => ~k}

SignalOutcomes == UNION {{[ok |-> Classify(a) = "success", kept |-> k] : k \in Keeps(a)} : a \in SignalAnswers}

SignalStates == {"scheduled", "in_progress", "succeeded", "failed"}

(* The delivery after an attempt, given the attempt_count that was claimed *)
(* with it: no guard asks what its state has become since.                 *)
AfterAttempt(d, claimed, ok) ==
  [d EXCEPT !.attempts = claimed + 1,
            !.state = IF ok THEN "succeeded"
                      ELSE IF claimed + 1 < MaxSignalAttempts THEN "scheduled" ELSE "failed"]

(* An operator's retry, of whatever has not succeeded.  It does not reset  *)
(* the count of attempts; the bound is one attempt past the limit.         *)
Retriable(d) == d.state # "succeeded" /\ d.attempts <= MaxSignalAttempts

Retried(d) == [d EXCEPT !.state = "scheduled"]

SignalTargetCreates == [name : BOOLEAN, type : {"", "webhook", "other"}, url : {"none", "blocked", "allowed"}, secret : {15, 16}]

SignalTargetUpdates ==
  [name : {"", "empty", "given"}, url : {"", "blocked", "allowed"}, secret : {0, 15, 16},
   state : {"", "active", "disabled", "other"}, reason : BOOLEAN]
=============================================================================
