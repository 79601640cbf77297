SPECIFICATION Spec
CONSTANTS
  Pages = {p, q, r}
  Index = {0, 1}
INVARIANT OneTranslation
