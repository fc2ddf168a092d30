--------------------------------- MODULE Sums ---------------------------------
(***************************************************************************)
(* Numbers added up in the order they have: the loops that accumulate a    *)
(* total (static/src/utils/lttb.js, components/StatusBar/useSignalStats.js)*)
(***************************************************************************)
EXTENDS Integers, Sequences

SumOf(numbers) ==
  LET upTo[i \in 0..Len(numbers)] == IF i = 0 THEN 0 ELSE upTo[i - 1] + numbers[i]
  IN upTo[Len(numbers)]
===============================================================================
