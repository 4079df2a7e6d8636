\* Four characters, lists of two slots, and dialogs between two of them at a time.
CONSTANTS
  Chars = {p, q, r, s}
  NSlots = 2
  NoBuddy = NoBuddy
  MaxAsked = 1
SYMMETRY Alike
SPECIFICATION Spec
INVARIANTS
  TypeOK
  ListsAgree
CHECK_DEADLOCK FALSE
