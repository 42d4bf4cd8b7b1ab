------------------------------ MODULE MCPager ------------------------------
(* Pager.tla on small instances. *)
EXTENDS Pager, TLC

Symmetry == Permutations(Value)

\* Pages are appended and flushed in page order.  Nothing is lost by it: the
\* frames of one commit are about distinct pages and replay all or none, and
\* a crash leaves any subset of the pages flushed before it anyway.
InPageOrder ==
    phase \in {"append", "flush"} /\ todo' # todo /\ todo' # {}
        => todo' = todo \ {Min(todo)}

\* Recovery, from the start of the engine to its first statement.
Recovering == {"down", "replay", "recovered", "load"}

\* The search ends where the engine has come back from its second crash.
UntilSecondRecovery == crashes = 2 => Stopped
=============================================================================
