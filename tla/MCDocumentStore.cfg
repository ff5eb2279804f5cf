SPECIFICATION FairSpec
CONSTANTS
  t1 = t1 t2 = t2 a1 = a1 a2 = a2 imp = imp h1 = h1 m1 = m1 m2 = m2
  Topics = {t1, t2}
  Agents = {a1, a2, imp}
  SystemImport = imp
  ImportName = "import"
  Messages = {h1, m1, m2}
  Historical = {h1}
  Names = {"import", "n1", "n2"}
  Keys = {"k"}
  Specs <- MCSpecs
INVARIANTS MessagesStayValid NamesUnique
PROPERTIES RemindersRaised
