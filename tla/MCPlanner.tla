----------------------------- MODULE MCPlanner -----------------------------
(* Planner on small models: up to six layers of up to two tensors. *)
EXTENDS Planner

Layer(i, sizes, dur) ==
  [tensors |-> [k \in DOMAIN sizes |-> [id |-> <<i, k>>, size |-> sizes[k]]], dur |-> dur]
Model(shape, durs) == [i \in DOMAIN shape |-> Layer(i, shape[i], durs[i])]
Size(shape) == SumOver(DOMAIN shape, LAMBDA i : SumOver(DOMAIN shape[i], LAMBDA k : shape[i][k]))

(* full layers; layers without weights in between; a head with nothing to
   copy; both; nothing but small weights; two layers; enough layers
   for two blocks used in turn to save memory *)
Shapes == {<< <<2, 1>>, <<3>>, <<2, 2>>, <<3>> >>,
           << <<2>>, << >>, <<2>>, << >>, <<3>> >>,
           << << >>, <<3, 2>>, <<2>>, <<2>> >>,
           << <<1>>, <<2>>, << >>, <<3, 2>>, <<2>> >>,
           << <<1>>, <<1, 1>>, <<1>> >>,
           << <<2>>, <<4, 3>> >>,
           << <<1>>, <<2>>, <<2>>, <<2>>, <<2>>, <<2>> >>}
Rhythms == {<<1, 1, 1, 1, 1, 1>>, <<4, 4, 4, 4, 4, 4>>, <<1, 4, 1, 4, 1, 4>>, <<4, 1, 4, 1, 4, 1>>,
            <<1, 4, 4, 1, 1, 4>>, <<2, 0, 3, 2, 4, 4>>}
Durations(shape) == {SubSeq(r, 1, Len(shape)) : r \in Rhythms}
Budgets(shape) == {(Size(shape) * 6) \div 10, (Size(shape) * 8) \div 10}

Plain(kind, shape, d, n, budget) ==
  [kind |-> kind, loader |-> IF n = 2 THEN "raw" ELSE "alloc", model |-> Model(shape, d), n |-> n,
   scale |-> ScaleUnit, budget |-> budget, ops |-> << >>, group |-> 1, cyclic |-> FALSE, gap |-> 1,
   extra |-> FALSE, moves |-> n = 3]
OfKinds(kinds) ==
  UNION {{Plain(kind, shape, d, n, b) : d \in Durations(shape), n \in {2, 3}, kind \in kinds,
          b \in {0} \cup Budgets(shape)} : shape \in Shapes}

Op(type, n) == [type |-> type, n |-> n, offset |-> 1, step |-> 2, desc |-> n = 1, values |-> {1, 2}]
Types == {"single", "names", "indices", "every_nth", "range", "first_n", "last_n", "largest",
          "smallest", "by_duration", "by_size"}

MCSetups ==
  LET plain == OfKinds({"Adaptive", "AdaptiveKnapsack", "GlobalOffload", "GlobalStrict",
                        "BudgetFill", "Greedy", "NthLayer"})
               \cup {s \in OfKinds({"Selection"}) : Len(s.model) < 6}
      quick == {s \in plain : s.n = 3 /\ s.kind \notin {"Adaptive", "Selection"}}
      some  == {s \in plain : s.kind = "AdaptiveKnapsack" /\ s.budget = 0 /\ s.n = 3}
  IN  plain
      (* rearranging that nobody asked for; a wider gap; the other loader *)
      \cup {[s EXCEPT !.moves = FALSE] : s \in quick}
      \cup {[s EXCEPT !.gap = 2, !.loader = "raw"] : s \in quick}
      (* every candidate and both optimisers *)
      \cup {[s EXCEPT !.extra = TRUE] : s \in {s \in plain : s.n = 2 /\ s.kind \in {"Adaptive", "BudgetFill"} /\ Len(s.model) < 6}}
      (* merged layers, the loader without blocks, the copies of idle layers *)
      \cup {[s EXCEPT !.group = 2, !.moves = FALSE] : s \in some}
      \cup {[s EXCEPT !.loader = "strategy", !.cyclic = c, !.group = g] :
              s \in some, c \in BOOLEAN, g \in {1, 2}}
      \cup {[s EXCEPT !.kind = "Adaptive", !.loader = "strategy", !.budget = b] : s \in some, b \in {0, 6}}
      (* entries removed, from a plan without blocks and from one with *)
      \cup {[s EXCEPT !.loader = l, !.ops = <<Op(type, 2), Op("first_n", 1)>>] :
              s \in some, l \in {"strategy", "alloc"}, type \in Types}
MCSelectionSetups == {s \in MCSetups : s.kind = "Selection"}
MCAvailable == {1, 100}
MCRetimed == {1 :> 2 @@ 3 :> 1, 2 :> 5 @@ 4 :> 0, 9 :> 1}
=============================================================================
