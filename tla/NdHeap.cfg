\* nd_heap<int> with the default d = 4 (the power-of-two branch of sink and
\* the division in parent_index/child_index): up to ten elements, so the
\* root has a full set of four children and the first child a full set of
\* its own, over four values so that equal and distinct keys both occur.
CONSTANTS
  D = 4
  Vals = {1, 2, 3, 4}
  MaxSize = 10
SPECIFICATION Spec
INVARIANT HeapOrdered
INVARIANT MatchesReference
