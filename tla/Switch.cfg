\* Three coroutines on x86-64.
CONSTANTS
  Tasks = {0, 1, 2}
  STACK_SIZE = 22
  Gens = {1, 2}
  Depths = {0, 1}
SPECIFICATION SSpec
PROPERTIES Restores
