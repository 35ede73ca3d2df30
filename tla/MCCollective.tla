---------------------------- MODULE MCCollective ----------------------------
(***************************************************************************)
(* CollectiveFrontier with a few clauses: hyperresolution, paramodulation  *)
(* and both, in generator and in weight order, with the priority heap,     *)
(* hint probes, deactivations, a full cache and resumptions.               *)
(***************************************************************************)
EXTENDS CollectiveFrontier

\* The weights of what pairs yield, one sequence for even and one for odd sums of ids.
NoConclusions == <<<<>>, <<>>>>
Raw(hyper, para) == [posHyper |-> hyper, negHyper |-> NoConclusions, para |-> para]

Plain == [rules |-> {"para"}, raw |-> Raw(NoConclusions, <<<<1>>, <<2, 1>>>>),
          usable |-> 0, sos |-> 3, denials |-> {},
          chunk |-> 1, cache |-> 9, ratio |-> 1, eager |-> 0, retire |-> 1,
          promising |-> FALSE, scheduler |-> FALSE, interval |-> 1, probes |-> FALSE,
          unselected |-> FALSE]

Promising == [Plain EXCEPT !.promising = TRUE, !.scheduler = TRUE]

MCSearches ==
  { \* generator order; clauses come and go; a restricted denial
    [Plain EXCEPT !.usable = 1, !.sos = 2, !.denials = {2}, !.eager = 1, !.ratio = 2],
    \* all rules, a small cache and an initial denial
    [Plain EXCEPT !.rules = {"posHyper", "negHyper", "para"}, !.usable = 1, !.sos = 2,
                  !.denials = {1}, !.raw = Raw(<<<<1, 1>>, <<2>>>>, <<<<>>, <<1, 1>>>>),
                  !.cache = 2],
    \* weight order, without the priority heap
    [Plain EXCEPT !.rules = {"posHyper", "para"}, !.promising = TRUE, !.sos = 2, !.chunk = 2,
                  !.raw = Raw(<<<<3, 1>>, <<2, 2>>>>, <<<<>>, <<5, 4, 6>>>>)],
    \* weight order between descriptors, with probes
    [Promising EXCEPT !.raw = Raw(NoConclusions, <<<<3, 1, 2>>, <<2, 2>>>>), !.interval = 3,
                      !.probes = TRUE, !.retire = 0],
    \* four descriptors in the heap, whose layout a resumption changes
    [Promising EXCEPT !.sos = 4, !.retire = 0, !.interval = 2, !.ratio = 4,
                      !.raw = Raw(NoConclusions, <<<<5, 1, 4, 4>>, <<2, 3, 2>>>>)],
    \* probes with both rules
    [Plain EXCEPT !.rules = {"posHyper", "para"}, !.probes = TRUE, !.sos = 2, !.retire = 0,
                  !.raw = Raw(<<<<1>>, <<1>>>>, <<<<1>>, <<2, 1>>>>)],
    \* clauses that no selector takes
    [Plain EXCEPT !.unselected = TRUE, !.cache = 2, !.sos = 2, !.retire = 0] }
=============================================================================
