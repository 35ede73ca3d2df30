---------------------------- MODULE MCSelection ----------------------------
(***************************************************************************)
(* GivenSelection with small lists of rules: every order, classes that     *)
(* overlap, high rules, each way to store the passive clauses, limits that *)
(* delete and displace, and a restart.                                     *)
(***************************************************************************)
EXTENDS GivenSelection

Rule(name, order, part, prop) ==
  [name |-> name, order |-> order, part |-> part, prop |-> prop, not |-> FALSE]
Not(rule) == [rule EXCEPT !.not = TRUE]
Kind(wt, hint, neg) == [wt |-> wt, hint |-> hint, neg |-> neg]

Age(part)    == Rule("A", "age", part, "all")
Light(part)  == Rule("W", "weight", part, "all")
Hints(part)  == Rule("H", "hint_age", part, "hint")
Inputs(part) == Rule("I", "age", part, "initial")

Default == [rules |-> [high |-> <<>>, low |-> <<Age(1), Light(2)>>],
            store |-> "full", limit |-> -1, factor |-> 2, restarts |-> 0, maxIds |-> 6,
            inputs |-> <<>>, kinds |-> {Kind(1, 0, FALSE), Kind(2, 0, FALSE)}]

Few == [Default EXCEPT !.maxIds = 4]

MCSettings ==
  { \* the default rules: by semantics, the input clauses first
    [Few EXCEPT !.rules = [high |-> <<Inputs(1)>>,
                           low |-> <<Age(1), Rule("F", "weight", 2, "false"),
                                     Rule("T", "weight", 1, "true")>>],
                !.kinds = {Kind(1, 0, FALSE), Kind(2, 0, TRUE), Kind(2, 0, FALSE)},
                !.inputs = <<Kind(2, 0, TRUE)>>, !.restarts = 1],
    \* limits: clauses that match hints are neither deleted nor displaced first
    [Few EXCEPT !.rules = [high |-> <<Hints(1)>>, low |-> <<Light(2), Age(1)>>],
                !.kinds = {Kind(1, 0, FALSE), Kind(3, 0, FALSE), Kind(2, 7, FALSE)},
                !.limit = 3, !.maxIds = 5],
    [Default EXCEPT !.limit = 4],
    \* dense: records, heaps and compactions
    [Default EXCEPT !.rules = [high |-> <<Hints(2)>>, low |-> <<Light(2), Age(1)>>],
                    !.kinds = {Kind(1, 0, FALSE), Kind(2, 0, FALSE), Kind(2, 7, FALSE)},
                    !.store = "dense", !.maxIds = 5, !.restarts = 1],
    \* compressed, with rules that do not look at the literals
    [Few EXCEPT !.store = "compressed", !.limit = 3, !.restarts = 1],
    \* two high rules and a rule by chance
    [Few EXCEPT !.rules = [high |-> <<Hints(1), Rule("N", "weight", 2, "negative")>>,
                           low |-> <<Rule("R", "random", 2, "all"),
                                     Not(Rule("J", "age", 1, "initial"))>>],
                !.kinds = {Kind(1, 0, FALSE), Kind(1, 5, TRUE), Kind(2, 0, TRUE)},
                !.inputs = <<Kind(1, 0, FALSE), Kind(2, 5, FALSE)>>, !.restarts = 1] }

=============================================================================
