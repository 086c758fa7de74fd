CONSTANTS
  Lang = {rust}
  Plain = Plain
  NoLang = NoLang
  Buffer = {b1}
  Absent = Absent
  Worker = {w1}
  Handle = {h1}
SPECIFICATION GrammarSpec
INVARIANT ForgottenStaysForgotten
