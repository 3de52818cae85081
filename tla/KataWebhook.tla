----------------------------- MODULE KataWebhook -----------------------------
(***************************************************************************)
(* The admission webhook that puts sandbox pods on Kata (apps/kata-webhook *)
(* /app/main.py): the patch it answers with, as the API server applies it. *)
(* A stored pod may be submitted again, as a controller does that copies a *)
(* specification, and every call may find the webhook down: failurePolicy  *)
(* is Ignore, and the webhook itself fails open.                           *)
(*                                                                         *)
(* A toleration is "kata" if key, value and effect are those of the        *)
(* webhook's own; the operator is not compared.                            *)
(***************************************************************************)
EXTENDS Integers, Sequences

CONSTANTS
  Tolerations,  \* "kata" and others
  Labels,       \* keys of a node selector
  NodeLabel,    \* the key sandbox.io/runtime
  LabelValues,  \* values in a node selector, "kata" one of them
  MaxTolerations   \* bound: tolerations a submitted pod has

ASSUME KataAssumption ==
  /\ "kata" \in Tolerations /\ "kata" \in LabelValues /\ NodeLabel \in Labels
  /\ "absent" \notin Tolerations \cup Labels
  /\ MaxTolerations \in Nat

VARIABLES
  submitted,    \* the pod as it was first submitted
  pod,          \* the pod as the API server has it
  reached       \* has the webhook answered one of the calls?

kataVars == <<submitted, pod, reached>>

\* A field that is missing or null: no sequence, no function.
NoTolerations == <<"absent">>
NoSelector    == [l \in {"absent"} |-> "absent"]

Lists     == UNION {[1..n -> Tolerations] : n \in 0..MaxTolerations}
Selectors == UNION {[D -> LabelValues] : D \in SUBSET Labels}

\* runtime: runtimeClassName, "" if unset; pooled: a label pool; kataNamed: a
\* name with the prefix kata-.
SubmittedPods ==
  [runtime : {"", "kata", "other"}, pooled : BOOLEAN, kataNamed : BOOLEAN,
   tolerations : Lists \cup {NoTolerations},
   selector : Selectors \cup {NoSelector}]

KataInit ==
  /\ submitted \in SubmittedPods
  /\ pod = submitted
  /\ reached = FALSE

-----------------------------------------------------------------------------
(* mutate *)

Skipped(p) == p.runtime # "" \/ p.pooled \/ p.kataNamed

\* spec.get(...) or []: a missing field and an empty one are the same.
Listed(p)   == IF p.tolerations = NoTolerations THEN <<>> ELSE p.tolerations
Selected(p) == IF p.selector = NoSelector THEN [l \in {} |-> "kata"] ELSE p.selector

\* Seeded bug: a toleration is appended to a list whatever it holds.
TolerationOpBlind(p) == IF Listed(p) = <<>> THEN "array" ELSE "append"

\* The operation on tolerations: none, add the array, append to it.
TolerationOp(p) ==
  IF \E i \in 1..Len(Listed(p)) : Listed(p)[i] = "kata" THEN "none"
  ELSE IF Listed(p) = <<>> THEN "array" ELSE "append"

\* The operation on the node selector: none, add the map, add the key.
SelectorOp(p) ==
  IF NodeLabel \in DOMAIN Selected(p) /\ Selected(p)[NodeLabel] = "kata" THEN "none"
  ELSE IF DOMAIN Selected(p) = {} THEN "map" ELSE "key"

\* The operations of the patch on a pod that is not skipped.
Patch(p) == [runtime |-> TRUE, tolerations |-> TolerationOp(p), selector |-> SelectorOp(p)]
NoOps    == [runtime |-> FALSE, tolerations |-> "none", selector |-> "none"]

Mutate(p) == IF Skipped(p) THEN NoOps ELSE Patch(p)

-----------------------------------------------------------------------------
(* The API server: JSON Patch, RFC 6902 *)

\* An operation under a path that does not exist fails, and the patch with it.
Applicable(ops, p) ==
  /\ ops.tolerations = "append" => p.tolerations # NoTolerations
  /\ ops.selector = "key" => p.selector # NoSelector

\* "add" replaces a member that is there, and appends at the index "-".
Applied(ops, p) ==
  [p EXCEPT
    !.runtime = IF ops.runtime THEN "kata" ELSE @,
    !.tolerations = CASE ops.tolerations = "none"   -> @
                      [] ops.tolerations = "array"  -> <<"kata">>
                      [] ops.tolerations = "append" -> Append(@, "kata"),
    !.selector = CASE ops.selector = "none" -> @
                   [] ops.selector = "map"  -> [l \in {NodeLabel} |-> "kata"]
                   [] ops.selector = "key"  ->
                        [l \in DOMAIN @ \cup {NodeLabel} |->
                           IF l = NodeLabel THEN "kata" ELSE p.selector[l]]]

Admit ==
  /\ Applicable(Mutate(pod), pod)
  /\ pod' = Applied(Mutate(pod), pod)
  /\ reached' = TRUE
  /\ UNCHANGED submitted

\* The webhook is down, or an exception makes it allow the pod as it is.
AdmitOpen == UNCHANGED kataVars

KataNext == Admit \/ AdmitOpen

KataSpec == KataInit /\ [][KataNext]_kataVars

-----------------------------------------------------------------------------
(* Properties *)

\* The tolerations and the selector a pod should end with: all it had, in
\* order, and Kata's own, once, at the end; a wrong node label is corrected.
WithKata(s) == IF \E i \in 1..Len(s) : s[i] = "kata" THEN s ELSE Append(s, "kata")
OnKata(sel) ==
  [l \in DOMAIN sel \cup {NodeLabel} |-> IF l = NodeLabel THEN "kata" ELSE sel[l]]

\* Whatever the number and the order of calls and outages: a pod that the
\* webhook never saw, or that it is to skip, is as submitted; any other ends on
\* Kata with nothing of its own lost and nothing added twice, and no patch is
\* one that the API server cannot apply.
AdmittedAsMeant ==
  /\ Applicable(Mutate(pod), pod)
  /\ IF Skipped(submitted) \/ ~reached
     THEN pod = submitted
     ELSE /\ pod.runtime = "kata"
          /\ Listed(pod) = WithKata(Listed(submitted))
          /\ Selected(pod) = OnKata(Selected(submitted))
          /\ pod.pooled = submitted.pooled /\ pod.kataNamed = submitted.kataNamed
=============================================================================
