\* Two callers; an English queue of two and a Martian queue of one.
\* Everyone may wait for room with nobody left to listen.
SPECIFICATION Spec
CONSTANTS
  Threads = {t1, t2}
  Messages = {m1, m2}
  MAX_ENG = 2
  MAX_MAR = 1
  NoThread = NoThread
INVARIANTS TranslatorUsedRight
PROPERTIES ImplementsTranslator OutputsReturn
CHECK_DEADLOCK FALSE
