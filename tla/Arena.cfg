\* A 64-bit build: sizeof(void *) = 8, so align = 8, and new char[] returns
\* 16-byte aligned memory, so its address modulo align is 0.  Sizes: an odd
\* 3 (misaligns the front), 8, 1000 (four fill a block, so the fifth takes
\* the small fallback) and 1500 (above a quarter block: its own block, and
\* not a multiple of align).  Six calls reach every fallback after a fast
\* path of the other kind.
CONSTANTS
  PtrSize = 8
  Sizes = {3, 8, 1000, 1500}
  NewOffsets = {0}
  MaxCalls = 6
SPECIFICATION Spec
INVARIANT TypeOK
INVARIANT GapMatchesRemaining
INVARIANT NoOverlap
INVARIANT AlignedWhenSizesAligned
