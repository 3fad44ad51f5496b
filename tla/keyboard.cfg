\* A ring for two characters.
SPECIFICATION Spec
CONSTANTS
  KBD_BUFFER_SIZE = 3
  Keys <- MCKeys
  Letters = {"d"}
INVARIANT NoneStuck
PROPERTIES QueueSpec KeyRead
