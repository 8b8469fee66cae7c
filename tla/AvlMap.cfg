\* Eight keys: trees of height 4, so that insertion and erasure reach every
\* single and double rotation, the erase loop's tie case (a sibling 3 tall
\* with two children 2 tall), and erasure of a node with two children
\* whose successor is deeper than its right child.
CONSTANT
  Keys = {1, 2, 3, 4, 5, 6, 7, 8}
SPECIFICATION Spec
INVARIANT TypeOK
INVARIANT AvlShape
INVARIANT IterationOrder
PROPERTY AbsSpec
