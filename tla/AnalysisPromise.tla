-------------------------- MODULE AnalysisPromise ---------------------------
(***************************************************************************)
(* What one analysis promises whoever waits for it (the local runtime and   *)
(* the job worker): it answers once, and only an analysis that was asked to *)
(* stop answers "cancelled".                                               *)
(***************************************************************************)
VARIABLES
  asked, \* should_stop() answers True
  answer \* how the call ended

Report == {"succeeded", "partial", "failed", "cancelled"}

Init == ~asked /\ answer = "none"

AskToStop == asked' = TRUE /\ UNCHANGED answer

Answer(a) ==
  /\ answer = "none" /\ answer' = a
  /\ a = "cancelled" => asked
  /\ UNCHANGED asked

Next == AskToStop \/ \E a \in Report \cup {"raised"} : Answer(a)

Spec == Init /\ [][Next]_<<asked, answer>>
=============================================================================
