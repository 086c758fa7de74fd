CONSTANTS
  Lang = {rust, lua}
  Plain = Plain
  NoLang = NoLang
  Buffer = {b1}
  Absent = Absent
  Worker = {w1, w2}
  Handle = {h1, h2}
SPECIFICATION GrammarSpec
INVARIANTS LoadsAreShared NoLoadCancelled LateLoadsLose
PROPERTY LoadsResolve
