CONSTANTS
  Threads = {t1, t2}
  NoThread = NoThread
SPECIFICATION ProgramSpec
PROPERTIES BroadcastWakesAll
