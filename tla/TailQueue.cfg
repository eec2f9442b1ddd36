\* Two queues and four elements that move between them.
CONSTANTS
  Heads = {0, 1}
  Elems = {0, 1, 2, 3}
SPECIFICATION QSpec
INVARIANTS Represents
