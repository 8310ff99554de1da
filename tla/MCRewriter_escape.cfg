CONSTANTS
  QWidget = QWidget
  QFoo = QFoo
  p1 = p1
  p2 = p2
  p3 = p3
  p4 = p4
  f1 = f1
  f2 = f2
  ClassList = {QWidget}
  OtherClasses = {QFoo}
  Keys = {"class"}
  TemplateHeaders = {"tpl_class"}
  DeclPrefixes = {"none", "friend", "tpl_class"}
  ExportMacros = {}
  Paths = {p2, p3}
  Files = {f1, f2}
  Resolve <- MCResolveEscape
  IsSource <- MCIsSourceEscape
  MaxStmts = 2
  MaxStmtsOf <- MCTwoStmts
  NoFile = NoFile
  MayBeUndecodable = {}
  MayBeReadOnly = {}
  TreeFiles = {f2}

SPECIFICATION Spec

INVARIANT RewritesStayInTree
