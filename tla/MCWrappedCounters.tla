--------------------------- MODULE MCWrappedCounters ---------------------------
(***************************************************************************)
(* WrappedCounters looks at its counters only through differences, so a    *)
(* behaviour stays one when tail and head are shifted by a multiple of     *)
(* BlockSize, optimistic by the same and overcommit and optimistic by any  *)
(* other number, with the locals that hold them.  States that differ by    *)
(* such a shift, or by the names of the consumers, are one state here;     *)
(* the invariants of WrappedCounters.cfg look at differences only.         *)
(***************************************************************************)
EXTENDS WrappedCounters, TLC

Symmetry == Permutations(Consumers)

(* The locals of a consumer, each as a difference that no shift changes. *)
Relative(c) ==
  [place    |-> cpc[c],
   tailAge  |-> IF cpc[c] \in {"overcommit", "probe", "ticket"}
                  THEN Wrap(tail - probeTail[c]) ELSE 0,
   seenAge  |-> IF cpc[c] \in {"probe", "ticket", "compare"}
                  THEN Wrap(overcommit - seen[c]) ELSE 0,
   ticketAge |-> IF cpc[c] = "compare" THEN Wrap(optimistic - ticket[c]) ELSE 0,
   late     |-> IF cpc[c] \in {"probe", "ticket"} THEN late[c] ELSE 0]

Differences ==
  <<tail % BlockSize, Wrap(tail - head), Wrap(optimistic - overcommit - tail),
    stock, [c \in Consumers |-> Relative(c)]>>
================================================================================
